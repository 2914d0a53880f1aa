------------------------------ MODULE WebsocketLog -----------------------------
(***************************************************************************)
(* The log of the controller, forwarded to the browsers that have opened   *)
(* /log (webserver.c).  Any task logs a line into a message buffer; the    *)
(* logger task sends it to every socket in a list; the HTTP task puts a    *)
(* new socket at the head of the list.  A mutex protects the list.         *)
(*                                                                         *)
(* A node of the list is memory: after free it may be handed out again.    *)
(***************************************************************************)
EXTENDS Integers, Sequences

CONSTANTS
  Fds,          (* sockets of the server                                     *)
  Nodes,        (* memory for ws_list_node_t; malloc fails when it is used up*)
  Nil,
  BufferLines,  (* lines the message buffer holds                            *)
  MaxLines      (* bound: lines logged                                       *)

ASSUME LogAssumption ==
  /\ Nil \notin Nodes /\ Nil \notin Fds
  /\ BufferLines \in Nat \ {0} /\ MaxLines \in Nat

VARIABLES
  conn,         (* what a socket is open for: "none", "http" or "ws"         *)
  live,         (* nodes that are allocated                                  *)
  fdOf, next,   (* fields of the nodes                                       *)
  head,         (* ws_fd_list.slh_first                                      *)
  mutex,        (* "none" before it is created, "free", "http" or "logger"   *)
  buffer,       (* logging_message_buffer_handle, <<>> before it is created  *)
  hooked,       (* esp_log_set_vprintf was called                            *)
  lines,        (* lines logged since the start                              *)
  wpc,          (* HTTP task in log_ws_handler                               *)
  wfd, wnode,   (* its locals new_ws, ws_list_node                           *)
  lpc,          (* websocket_logger_task: "off" before it is created         *)
  line,         (* its local log_msg                                         *)
  node, tmp,    (* its locals node, tmp                                      *)
  got           (* history: last line sent to each socket since it was opened*)

listVars == <<live, fdOf, next, head>>
queueVars == <<buffer, hooked, lines>>
openVars == <<wpc, wfd, wnode>>
loggerVars == <<lpc, line, node, tmp>>
logVars == <<conn, listVars, mutex, queueVars, openVars, loggerVars, got>>

LogInit ==
  /\ conn = [f \in Fds |-> "none"] /\ got = [f \in Fds |-> 0]
  /\ live = {} /\ head = Nil
  /\ fdOf = [n \in Nodes |-> Nil] /\ next = [n \in Nodes |-> Nil]
  /\ mutex = "none" /\ buffer = <<>> /\ hooked = FALSE /\ lines = 0
  /\ wpc = "idle" /\ wfd = Nil /\ wnode = Nil
  /\ lpc = "off" /\ line = 0 /\ node = Nil /\ tmp = Nil

LogDrop ==
  /\ conn' = [f \in Fds |-> "none"] /\ got' = [f \in Fds |-> 0]
  /\ live' = {} /\ head' = Nil
  /\ fdOf' = [n \in Nodes |-> Nil] /\ next' = [n \in Nodes |-> Nil]
  /\ mutex' = "none" /\ buffer' = <<>> /\ hooked' = FALSE /\ lines' = 0
  /\ wpc' = "idle" /\ wfd' = Nil /\ wnode' = Nil
  /\ lpc' = "off" /\ line' = 0 /\ node' = Nil /\ tmp' = Nil

(* End of webserver_init: buffer, mutex, task, and the vprintf hook. *)
LoggerStarts ==
  /\ mutex' = "free" /\ lpc' = "receive" /\ hooked' = TRUE
  /\ UNCHANGED <<conn, listVars, buffer, lines, openVars, line, node, tmp, got>>

--------------------------------------------------------------------------------
(* Sockets: esp_http_server *)

Connect(f) ==
  /\ conn[f] = "none" /\ wpc = "idle"
  /\ conn' = [conn EXCEPT ![f] = "http"] /\ got' = [got EXCEPT ![f] = 0]
  /\ UNCHANGED <<listVars, mutex, queueVars, openVars, loggerVars>>

(* The server finds a socket closed, between two requests. *)
Disconnect(f) ==
  /\ conn[f] # "none" /\ wpc = "idle"
  /\ conn' = [conn EXCEPT ![f] = "none"]
  /\ UNCHANGED <<listVars, mutex, queueVars, openVars, loggerVars, got>>

(* GET /log: after the handshake the handler is called. *)
OpenLog(f) ==
  /\ wpc = "idle" /\ conn[f] = "http"
  /\ conn' = [conn EXCEPT ![f] = "ws"]
  /\ wpc' = "take" /\ wfd' = f
  /\ UNCHANGED <<listVars, mutex, queueVars, wnode, loggerVars, got>>

--------------------------------------------------------------------------------
(* HTTP task: log_ws_handler *)

HandlerOver == wpc' = "idle" /\ wfd' = Nil /\ wnode' = Nil
Refused == conn' = [conn EXCEPT ![wfd] = "none"]

(* Mutant: a mutex that was not had in time is used all the same. *)
OpenTakeBlind ==
  /\ wpc = "take" /\ mutex # "none"
  /\ wpc' = "alloc" /\ mutex' = IF mutex = "free" THEN "http" ELSE mutex
  /\ UNCHANGED <<conn, listVars, queueVars, wfd, wnode, loggerVars, got>>

(* xSemaphoreTake, for at most 100 ms; a handler that returns an error has *)
(* its socket closed.                                                      *)
OpenTake ==
  /\ wpc = "take"
  /\ \/ /\ mutex = "free" /\ mutex' = "http" /\ wpc' = "alloc"
        /\ UNCHANGED <<conn, wfd, wnode>>
     \/ /\ mutex \in {"http", "logger"}
        /\ HandlerOver /\ Refused
        /\ UNCHANGED mutex
  /\ UNCHANGED <<listVars, queueVars, loggerVars, got>>

(* malloc; when it fails the handler returns with the mutex. *)
OpenAlloc ==
  /\ wpc = "alloc"
  /\ \/ \E n \in Nodes \ live :
          /\ live' = live \cup {n} /\ fdOf' = [fdOf EXCEPT ![n] = wfd]
          /\ wnode' = n /\ wpc' = "link"
          /\ UNCHANGED <<conn, wfd>>
     \/ /\ live = Nodes
        /\ HandlerOver /\ Refused
        /\ UNCHANGED <<live, fdOf>>
  /\ UNCHANGED <<next, head, mutex, queueVars, loggerVars, got>>

(* SLIST_INSERT_HEAD: the link of the new node, then the head. *)
OpenLink ==
  /\ wpc = "link" /\ wpc' = "head"
  /\ next' = [next EXCEPT ![wnode] = head]
  /\ UNCHANGED <<conn, live, fdOf, head, mutex, queueVars, wfd, wnode, loggerVars, got>>

OpenHead ==
  /\ wpc = "head" /\ HandlerOver
  /\ head' = wnode /\ mutex' = "free"
  /\ UNCHANGED <<conn, live, fdOf, next, queueVars, loggerVars, got>>

OpenStep == OpenTake \/ OpenAlloc \/ OpenLink \/ OpenHead

--------------------------------------------------------------------------------
(* Any task: websocket_logger_func, for every ESP_LOG* of the controller,  *)
(* those in the handlers of this module included.  A line that does not    *)
(* fit is dropped.                                                         *)

Log ==
  /\ hooked /\ lines < MaxLines /\ lines' = lines + 1
  /\ buffer' = IF Len(buffer) < BufferLines THEN Append(buffer, lines') ELSE buffer
  /\ UNCHANGED <<conn, listVars, mutex, hooked, openVars, loggerVars, got>>

--------------------------------------------------------------------------------
(* websocket_logger_task *)

LoggerGoto(from, to) == lpc = from /\ lpc' = to

LoggerReceives ==
  /\ LoggerGoto("receive", "take")
  /\ buffer # <<>> /\ line' = Head(buffer) /\ buffer' = Tail(buffer)
  /\ UNCHANGED <<conn, listVars, mutex, hooked, lines, openVars, node, tmp, got>>

(* Mutant: the list is walked whether the mutex was had or not. *)
LoggerTakesBlind ==
  /\ LoggerGoto("take", "walk") /\ node' = head
  /\ mutex' = IF mutex = "free" THEN "logger" ELSE mutex
  /\ UNCHANGED <<conn, listVars, queueVars, openVars, line, tmp, got>>

(* xSemaphoreTake, for at most 10 ms: without it the line is dropped. *)
LoggerTakes ==
  /\ \/ /\ LoggerGoto("take", "walk")
        /\ mutex = "free" /\ mutex' = "logger" /\ node' = head
     \/ /\ LoggerGoto("take", "receive")
        /\ mutex = "http" /\ UNCHANGED <<mutex, node>>
  /\ UNCHANGED <<conn, listVars, queueVars, openVars, line, tmp, got>>

(* The next node; the node after it is noted first. *)
LoggerSends ==
  /\ lpc = "walk" /\ node # Nil
  /\ tmp' = next[node]
  /\ \/ /\ conn[fdOf[node]] = "ws" /\ got' = [got EXCEPT ![fdOf[node]] = line]
        /\ node' = tmp' /\ UNCHANGED lpc
     \/ /\ conn[fdOf[node]] # "ws"                    (* stays in the list *)
        /\ node' = tmp' /\ UNCHANGED <<lpc, got>>
     \/ /\ conn[fdOf[node]] = "ws" /\ lpc' = "remove" (* sending fails     *)
        /\ UNCHANGED <<node, got>>
  /\ UNCHANGED <<conn, listVars, mutex, queueVars, openVars, line>>

(* SLIST_REMOVE from behind the head, and free: a freed node holds nothing. *)
Without(n) == [m \in Nodes |-> IF m = n THEN Nil ELSE IF m \in live /\ next[m] = n THEN next[n] ELSE next[m]]
FreeNode(n) == live' = live \ {n} /\ fdOf' = [fdOf EXCEPT ![n] = Nil]

(* Mutant: only the head is taken out. *)
LoggerRemovesHead ==
  /\ LoggerGoto("remove", "walk")
  /\ head' = IF head = node THEN next[node] ELSE head
  /\ FreeNode(node) /\ node' = tmp
  /\ UNCHANGED <<conn, next, mutex, queueVars, openVars, line, tmp, got>>

(* Mutant: the walk ends at the first socket that fails. *)
LoggerRemovesLast ==
  /\ LoggerGoto("remove", "walk")
  /\ head' = IF head = node THEN next[node] ELSE head
  /\ next' = IF head = node THEN [next EXCEPT ![node] = Nil] ELSE Without(node)
  /\ FreeNode(node) /\ node' = Nil
  /\ UNCHANGED <<conn, mutex, queueVars, openVars, line, tmp, got>>

(* SLIST_REMOVE and free *)
LoggerRemoves ==
  /\ LoggerGoto("remove", "walk")
  /\ head' = IF head = node THEN next[node] ELSE head
  /\ next' = IF head = node THEN [next EXCEPT ![node] = Nil] ELSE Without(node)
  /\ FreeNode(node) /\ node' = tmp
  /\ UNCHANGED <<conn, mutex, queueVars, openVars, line, tmp, got>>

LoggerGives ==
  /\ LoggerGoto("walk", "receive") /\ node = Nil
  /\ mutex' = "free" /\ tmp' = Nil
  /\ UNCHANGED <<conn, listVars, queueVars, openVars, line, node, got>>

Logger == LoggerReceives \/ LoggerTakes \/ LoggerSends \/ LoggerRemoves \/ LoggerGives

--------------------------------------------------------------------------------
LogTypeOK ==
  /\ conn \in [Fds -> {"none", "http", "ws"}] /\ got \in [Fds -> 0 .. MaxLines]
  /\ live \subseteq Nodes /\ head \in Nodes \cup {Nil}
  /\ fdOf \in [Nodes -> Fds \cup {Nil}] /\ next \in [Nodes -> Nodes \cup {Nil}]
  /\ mutex \in {"none", "free", "http", "logger"}
  /\ buffer \in Seq(1 .. MaxLines) /\ Len(buffer) <= BufferLines
  /\ hooked \in BOOLEAN /\ lines \in 0 .. MaxLines
  /\ wpc \in {"idle", "take", "alloc", "link", "head"}
  /\ wfd \in Fds \cup {Nil} /\ wnode \in Nodes \cup {Nil}
  /\ lpc \in {"off", "receive", "take", "walk", "remove"} /\ line \in 0 .. MaxLines
  /\ node \in Nodes \cup {Nil} /\ tmp \in Nodes \cup {Nil}

Listed(n) == n \in live /\ n # wnode

(* The list and the logger's place in it are memory that is allocated, in  *)
(* spite of sockets that are added by one task and removed by the other,   *)
(* of waits for the mutex that expire, and of a malloc that fails.         *)
ListLive ==
  /\ head \in live \cup {Nil}
  /\ \A n \in Nodes : Listed(n) => next[n] \in live \cup {Nil}
  /\ lpc = "walk" => node \in live \cup {Nil}
  /\ lpc = "remove" => node \in live /\ tmp \in (live \ {node}) \cup {Nil}

(* When the logger has been through the list, every browser whose socket   *)
(* is in it has got the line: none is skipped because another was removed, *)
(* or is lost from the list while it is open.  A socket that is being      *)
(* opened is not in it yet, but its number may still be, from before.      *)
LineReachesAll ==
  [][LoggerGives => \A n \in live : conn[fdOf[n]] = "ws" /\ fdOf[n] # wfd => got[fdOf[n]] = line]_logVars
================================================================================
