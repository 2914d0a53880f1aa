------------------------------ MODULE ChunkUpload ------------------------------
(***************************************************************************)
(* The body of a PUT request, received by the HTTP task of the controller  *)
(* and passed to a chunk handler, chunk by chunk (webserver_api.c).  Byte  *)
(* i of a body is the number i.                                            *)
(*                                                                         *)
(* Once the client has closed its end and what it sent has been read,      *)
(* httpd_req_recv returns 0, at once and for ever.  That is no error to    *)
(* httpd_req_recv_blocking, which spins: no action but Drop is enabled.    *)
(***************************************************************************)
EXTENDS Integers, Sequences

CONSTANTS
  ChunkSize,    (* bytes in a chunk, but for the last one of a body          *)
  Sizes,        (* content lengths of the requests                           *)
  Timeout,      (* timeout of httpd_req_recv_blocking                        *)
  RecvWait,     (* recv_wait_timeout of the server: of one httpd_req_recv    *)
  MaxUploads    (* bound: uploads                                            *)

ASSUME UploadAssumption ==
  /\ ChunkSize \in Nat \ {0} /\ Sizes \subseteq Nat
  /\ Timeout \in Nat \ {0} /\ RecvWait \in Nat /\ RecvWait >= Timeout
  /\ MaxUploads \in Nat

VARIABLES
  upload,       (* the request being served, or served last                  *)
  size,         (* req->content_len                                          *)
  hpc,          (* HTTP task: next step                                      *)
  offset,       (* bytes of the chunks handled so far                        *)
  received,     (* bytes of this chunk, as httpd_req_recv_blocking counts    *)
  elapsed,      (* ticks since it was called, Timeout standing for all above *)
  buf,          (* the chunk buffer                                          *)
  taken,        (* bytes of the body taken from the connection               *)
  peer,         (* client: "sending" or "closed"                             *)
  reply         (* answer to the request: "none", "ok" or "error"            *)

uploadVars == <<upload, size, hpc, offset, received, elapsed, buf, taken, peer, reply>>

NoByte == -1
Least(a, b) == IF a < b THEN a ELSE b

(* Mutant: the last chunk is as long as the others. *)
ChunkLenFull == ChunkSize

(* len: the length of this chunk *)
ChunkLen == Least(size - offset, ChunkSize)

UploadInit ==
  /\ upload = 0 /\ size = 0
  /\ hpc = "idle" /\ offset = 0 /\ received = 0 /\ elapsed = 0
  /\ buf = [i \in 0 .. ChunkSize - 1 |-> NoByte]
  /\ taken = 0 /\ peer = "closed" /\ reply = "none"

--------------------------------------------------------------------------------
Done(answer) == hpc' = "idle" /\ reply' = answer

(* A request arrives; an empty body is answered without the handler. *)
PutBegin(n) ==
  /\ hpc = "idle" /\ upload < MaxUploads
  /\ upload' = upload + 1 /\ size' = n
  /\ IF n > 0 THEN hpc' = "recv" /\ reply' = "none" ELSE Done("ok")
  /\ offset' = 0 /\ received' = 0 /\ elapsed' = 0 /\ taken' = 0
  /\ buf' = [i \in 0 .. ChunkSize - 1 |-> NoByte]
  /\ peer' = "sending"

(* httpd_req_recv returns n bytes, after t ticks. *)
RecvData(n, t) ==
  /\ hpc = "recv" /\ peer = "sending"
  /\ n <= ChunkLen - received /\ t < RecvWait
  /\ buf' = [i \in DOMAIN buf |-> IF i \in received .. received + n - 1 THEN taken + i - received ELSE buf[i]]
  /\ received' = received + n /\ taken' = taken + n
  /\ elapsed' = Least(elapsed + t, Timeout)
  /\ hpc' = IF received' \in 0 .. ChunkLen - 1 THEN "recv" ELSE "handle"
  /\ UNCHANGED <<upload, size, offset, peer, reply>>

(* Mutant: the timeout is not tested. *)
RecvTimeoutIgnored ==
  /\ hpc = "recv" /\ peer = "sending"
  /\ elapsed' = Least(elapsed + RecvWait, Timeout)
  /\ received' = received - 3
  /\ hpc' = IF received' \in 0 .. ChunkLen - 1 THEN "recv" ELSE "handle"
  /\ UNCHANGED <<upload, size, offset, buf, taken, peer, reply>>

(* httpd_req_recv returns HTTPD_SOCK_ERR_TIMEOUT, which is -3.  If there   *)
(* were time left, it would be added to the (unsigned) count.              *)
RecvTimeout ==
  /\ hpc = "recv" /\ peer = "sending"
  /\ elapsed' = Least(elapsed + RecvWait, Timeout)
  /\ IF elapsed' < Timeout
     THEN /\ received' = received - 3
          /\ hpc' = IF received' \in 0 .. ChunkLen - 1 THEN "recv" ELSE "handle"
          /\ UNCHANGED reply
     ELSE Done("error") /\ UNCHANGED received
  /\ UNCHANGED <<upload, size, offset, buf, taken, peer>>

(* The connection is reset. *)
RecvError ==
  /\ hpc = "recv" /\ peer = "sending"
  /\ Done("error")
  /\ UNCHANGED <<upload, size, offset, received, elapsed, buf, taken, peer>>

(* The client closes its end before the whole body is sent. *)
PeerCloses ==
  /\ hpc = "recv" /\ peer = "sending"
  /\ peer' = "closed"
  /\ UNCHANGED <<upload, size, hpc, offset, received, elapsed, buf, taken, reply>>

(* The chunk handler returns. *)
ChunkOk ==
  /\ offset' = offset + ChunkLen /\ received' = 0 /\ elapsed' = 0
  /\ IF offset' < size THEN hpc' = "recv" /\ UNCHANGED reply ELSE Done("ok")
  /\ UNCHANGED <<upload, size, buf, taken, peer>>

ChunkFailed ==
  /\ Done("error")
  /\ UNCHANGED <<upload, size, offset, received, elapsed, buf, taken, peer>>

(* The controller restarts. *)
Drop ==
  /\ hpc' = "idle" /\ offset' = 0 /\ received' = 0 /\ elapsed' = 0
  /\ buf' = [i \in 0 .. ChunkSize - 1 |-> NoByte]
  /\ taken' = 0 /\ peer' = "closed" /\ reply' = "none"
  /\ UNCHANGED <<upload, size>>

Recv ==
  \/ \E n \in 1 .. ChunkSize, t \in 0 .. RecvWait - 1 : RecvData(n, t)
  \/ RecvTimeout \/ RecvError

--------------------------------------------------------------------------------
UploadTypeOK ==
  /\ upload \in 0 .. MaxUploads /\ size \in Sizes \cup {0}
  /\ offset \in 0 .. size /\ received \in 0 .. ChunkSize /\ elapsed \in 0 .. Timeout
  /\ buf \in [0 .. ChunkSize - 1 -> Nat \cup {NoByte}] /\ taken \in 0 .. size
  /\ peer \in {"sending", "closed"} /\ reply \in {"none", "ok", "error"}

(* The handler is called with a whole chunk, and with the bytes that       *)
(* belong at its offset: none doubled, skipped or left over from the chunk *)
(* before, however the body was cut into segments and delayed.             *)
ChunkIsBody ==
  hpc \notin {"idle", "recv"} =>
    /\ received = ChunkLen
    /\ \A i \in 0 .. ChunkLen - 1 : buf[i] = offset + i
================================================================================
