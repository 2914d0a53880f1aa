-------------------------- MODULE DisplaySync_proofs --------------------------
(***************************************************************************)
(* Proofs about DisplaySync: type correctness; that accepted writes are    *)
(* kept, by one inductive invariant, IInv, with a lemma per conjunct that  *)
(* says a step of either task preserves it; and, by FreshInv beside it,    *)
(* that replies are fresh and modules only take what was accepted.         *)
(***************************************************************************)
EXTENDS DisplaySync, TLAPS

(* Every step keeps the state of the HTTP task in range: a property index is *)
(* one past the end only where the marking loop tests for it.              *)
LEMMA HttpTypeStep ==
  ASSUME TypeOK, Next
  PROVE  HttpTypeOK'
<1> USE DEF TypeOK, HttpTypeOK, flagVars, bitVars, httpVars, masterVars, postHistory
<1>1. CASE MasterWake \/ MasterDecide \/ MasterScan \/ MasterSignal \/ CommRead \/ CommWrite \/
    CommBroadcast \/ CommOk \/ CommFail \/ DoneReadLoad \/ DoneReadStore \/ DoneWriteLoad \/
    DoneWriteStore \/ DoneDirtyLoad \/ DoneDirtyStore
  BY <1>1 DEF MasterWake, MasterGoto, MasterDecide, StartAction, MasterScan, MasterSignal, CommRead, CommWrite,
    CommBroadcast, CommOk, EndAction, Delivered, CommFail, DoneReadLoad, DoneReadStore, DoneWriteLoad,
    DoneWriteStore, DoneDirtyLoad, DoneDirtyStore
<1>2. CASE GetBegin \/ PostBegin
  BY <1>2 DEF GetBegin, HttpGoto, PostBegin
<1>3. CASE PostDirtyStore \/ PostWriteStore
  BY <1>3 DEF PostDirtyStore, HttpGoto, NoteOverlap, PostWriteStore
<1>4. CASE PostEnd
  BY <1>4, DisplayAssumption DEF Props, Modules, PostEnd, HttpGoto
<1>5. CASE SynchronizeClear \/ SynchronizeSet
  BY <1>5 DEF SynchronizeClear, HttpGoto, SynchronizeSet
<1>6. CASE SynchronizeWoken \/ SynchronizeExpired \/ GetReply
  BY <1>6 DEF SynchronizeWoken, RequestOver, SynchronizeExpired, GetReply
<1>7. CASE PostDirtyLoad
  BY <1>7 DEF DataTypeOK, PostDirtyLoad, HttpGoto, NoteOverlap
<1>8. CASE PostWriteLoad
  BY <1>8 DEF DataTypeOK, PostWriteLoad, HttpGoto, NoteOverlap
<1>9. CASE GetMarkStore
  BY <1>9, DisplayAssumption DEF Props, Modules, GetMarkStore, HttpGoto
<1>10. CASE \E m \in Modules, p \in Props, v \in Values : PostSet(m, p, v)
  BY <1>10, DisplayAssumption DEF Props, Modules, PostSet, HttpGoto, NoteOverlap
<1>11. CASE GetMarkLoad
  <2>1. CASE hprop < PropCnt
    <3>1. hprop \in Props /\ UNCHANGED <<hop, hmod>> /\ hpc = "mark"
      BY <1>11, <2>1, DisplayAssumption DEF GetMarkLoad, Props
    <3>2. CASE hprop \notin GetAlt
      <4>1. hpc' = "mark" /\ hprop' = hprop + 1 /\ hword' = hword
        BY <1>11, <2>1, <3>2 DEF GetMarkLoad
      <4>2. hprop' \in 0 .. PropCnt
        BY <3>1, <4>1, DisplayAssumption DEF Props
      <4> QED
        BY <3>1, <4>1, <4>2
    <3>3. CASE hprop \in GetAlt
      <4>1. hpc' = "markStore" /\ hprop' = hprop /\ hword' = readRequired
        BY <1>11, <2>1, <3>3 DEF GetMarkLoad
      <4> QED
        BY <3>1, <4>1 DEF DataTypeOK
    <3> QED
      BY <3>2, <3>3
  <2>2. CASE hprop = PropCnt
    <3>1. hprop' = 0 /\ hpc' = "clearSync" /\ UNCHANGED <<hop, hmod, hword>>
      BY <1>11, <2>2, DisplayAssumption DEF GetMarkLoad
    <3> QED
      BY <3>1, DisplayAssumption DEF Props
  <2> QED
    BY <2>1, <2>2, DisplayAssumption DEF Props
<1>12. CASE PostRefused
  BY <1>12 DEF PostRefused
<1> QED
  BY <1>12, <1>1, <1>2, <1>3, <1>4, <1>5, <1>6, <1>7, <1>8, <1>9, <1>10, <1>11 DEF Next, HttpRequest, HttpStep, MasterStep

(* What a chain attempt delivers: the property of the round, on the nodes it *)
(* reached, becomes what was serialised for them; nothing else changes.    *)
LEMMA DeliveredEffect ==
  ASSUME TypeOK, mprop \in Props, NEW S \in SUBSET OnWire, Delivered(S)
  PROVE  /\ shown' \in [Modules -> [Props -> Values]]
         /\ \A m \in Modules, p \in Props :
              shown'[m][p] = IF m \in S /\ p = mprop THEN wire[m] ELSE shown[m][p]
<1>1. \A m \in S : m \in Modules /\ wire[m] \in Values
  BY DEF OnWire, TypeOK, MasterTypeOK
<1>2. \A m \in Modules : shown[m] \in [Props -> Values]
  BY DEF TypeOK, DataTypeOK
<1>3. \A m \in Modules : shown'[m] = IF m \in S THEN [shown[m] EXCEPT ![mprop] = wire[m]] ELSE shown[m]
  BY DEF Delivered
<1>4. \A m \in Modules : shown'[m] \in [Props -> Values]
  BY <1>1, <1>2, <1>3
<1>5. shown' \in [Modules -> [Props -> Values]]
  BY <1>4 DEF Delivered
<1> QED
  BY <1>2, <1>3, <1>5

(* An accepted value reaches the model and the wish of one module only.    *)
LEMMA PostSetEffect ==
  ASSUME TypeOK, NEW m \in Modules, NEW p \in Props, NEW v \in Values, PostSet(m, p, v)
  PROVE  /\ model' \in [Modules -> [Props -> Values]] /\ wanted' \in [Modules -> [Props -> Values]]
         /\ \A n \in Modules, q \in Props :
              /\ model'[n][q] = IF n = m /\ q = p THEN v ELSE model[n][q]
              /\ wanted'[n][q] = IF n = m /\ q = p THEN v ELSE wanted[n][q]
<1>1. model' = [model EXCEPT ![m][p] = v] /\ wanted' = [wanted EXCEPT ![m][p] = v]
  BY DEF PostSet
<1> QED
  BY <1>1 DEF TypeOK, DataTypeOK

(* A refused value changes no property that is still clean afterwards.     *)
LEMMA RefusedEffect ==
  ASSUME TypeOK, PostRefused
  PROVE  \A m \in Modules, p \in Clean' : model'[m][p] = model[m][p]
<1> PICK n \in Modules, q \in StoresFirst : /\ model' = [model EXCEPT ![n][q] = Unsupported]
                                           /\ disturbed' = disturbed \cup {q}
  BY DEF PostRefused
<1>1. q \notin Clean' /\ q \in Props
  BY DisplayAssumption DEF Clean
<1> QED
  BY <1>1 DEF TypeOK, DataTypeOK

(* The event bits and the history bit stay Boolean.  On its own, because   *)
(* the facts about Boolean variables need another prover than the arithmetic. *)
LEMMA BitTypeStep ==
  ASSUME BitTypeOK, Next
  PROVE  BitTypeOK'
<1> USE  DEF BitTypeOK, flagVars, bitVars, httpVars, masterVars, postHistory
<1>1. CASE GetMarkLoad \/ GetMarkStore \/ PostBegin \/ PostRefused \/ PostDirtyLoad \/ PostDirtyStore \/ PostWriteLoad \/
    PostWriteStore \/ PostEnd
  BY <1>1 DEF GetMarkLoad, HttpGoto, GetMarkStore, PostBegin, PostRefused, NoteOverlap, PostDirtyLoad, PostDirtyStore,
    PostWriteLoad, PostWriteStore, PostEnd
<1>2. CASE MasterDecide \/ MasterScan \/ CommRead \/ CommWrite \/ CommBroadcast \/ CommOk \/ DoneReadLoad \/
    DoneReadStore \/ DoneWriteLoad \/ DoneWriteStore \/ DoneDirtyLoad \/ DoneDirtyStore
  BY <1>2 DEF StartAction, MasterDecide, MasterScan, CommRead, CommWrite, CommBroadcast, MasterGoto, EndAction,
    Delivered, CommOk, DoneReadLoad, DoneReadStore, DoneWriteLoad, DoneWriteStore, DoneDirtyLoad,
    DoneDirtyStore
<1>3. CASE GetBegin
  BY <1>3 DEF GetBegin, HttpGoto
<1>4. CASE SynchronizeSet
  BY <1>4 DEF SynchronizeSet, HttpGoto
<1>5. CASE SynchronizeClear
  BY <1>5 DEF SynchronizeClear, HttpGoto
<1>6. CASE SynchronizeWoken
  BY <1>6 DEF SynchronizeWoken, RequestOver
<1>7. CASE SynchronizeExpired
  BY <1>7 DEF SynchronizeExpired, RequestOver
<1>8. CASE GetReply
  BY <1>8 DEF GetReply, RequestOver
<1>9. CASE MasterWake
  BY <1>9 DEF MasterWake, MasterGoto
<1>10. CASE MasterSignal
  BY <1>10 DEF MasterSignal, MasterGoto
<1>11. CASE CommFail
  BY <1>11 DEF CommFail, EndAction, Delivered
<1>12. CASE \E m \in Modules, p \in Props, v \in Values : PostSet(m, p, v)
  BY <1>12 DEF PostSet, HttpGoto, NoteOverlap
<1> QED
  BY <1>1, <1>2, <1>3, <1>4, <1>5, <1>6, <1>7, <1>8, <1>9, <1>10, <1>11, <1>12 DEF Next, HttpRequest, HttpStep, MasterStep

(* Every step keeps the state of the master task in range, its two loop    *)
(* indices in particular.                                                  *)
LEMMA MasterTypeStep ==
  ASSUME TypeOK, Next
  PROVE  MasterTypeOK'
<1> USE DisplayAssumption DEF TypeOK, DataTypeOK, HttpTypeOK, MasterTypeOK, Modules, Props, flagVars, bitVars, httpVars,
    masterVars, postHistory
<1>1. CASE GetBegin \/ PostRefused \/ GetMarkLoad \/ GetMarkStore \/ GetReply \/ PostBegin \/ PostDirtyLoad \/
    PostDirtyStore \/ PostWriteLoad \/ PostWriteStore \/ PostEnd \/ SynchronizeClear \/
    SynchronizeSet \/ SynchronizeWoken \/ SynchronizeExpired
  BY <1>1 DEF HttpGoto, GetBegin, PostRefused, GetMarkLoad, GetMarkStore, RequestOver, GetReply, PostBegin, NoteOverlap,
    PostDirtyLoad, PostDirtyStore, PostWriteLoad, PostWriteStore, PostEnd, SynchronizeClear,
    SynchronizeSet, SynchronizeWoken, SynchronizeExpired
<1>2. CASE MasterWake \/ MasterSignal \/ DoneReadLoad \/ DoneReadStore \/ DoneWriteLoad \/ DoneWriteStore \/
    DoneDirtyLoad
  BY <1>2 DEF MasterGoto, MasterWake, MasterSignal, DoneReadLoad, DoneReadStore, DoneWriteLoad, DoneWriteStore,
    DoneDirtyLoad
<1>3. CASE MasterDecide
  BY <1>3 DEF MasterDecide, StartAction
<1>4. CASE MasterScan
  BY <1>4 DEF MasterScan, StartAction
<1>5. CASE CommRead
  BY <1>5 DEF CommRead
<1>6. CASE CommWrite
  BY <1>6 DEF CommWrite, IsDesynchronized
<1>7. CASE CommBroadcast
  BY <1>7 DEF CommBroadcast
<1>8. CASE CommOk
  BY <1>8 DEF CommOk, MasterGoto, EndAction, Delivered
<1>9. CASE CommFail
  BY <1>9 DEF CommFail, EndAction, Delivered
<1>10. CASE DoneDirtyStore
  BY <1>10 DEF DoneDirtyStore
<1>11. CASE \E m \in Modules, p \in Props, v \in Values : PostSet(m, p, v)
  BY <1>11 DEF PostSet, HttpGoto, NoteOverlap
<1> QED
  BY <1>1, <1>2, <1>3, <1>4, <1>5, <1>6, <1>7, <1>8, <1>9, <1>10, <1>11 DEF Next, HttpRequest, HttpStep, MasterStep

(* Every step keeps the model, the modules and the flag words well typed.  *)
LEMMA DataTypeStep ==
  ASSUME TypeOK, Next
  PROVE  DataTypeOK'
<1> USE DEF TypeOK, DataTypeOK, flagVars, bitVars, httpVars, masterVars, postHistory
<1>1. CASE GetBegin \/ GetMarkLoad \/ GetReply \/ PostBegin \/ PostEnd \/ SynchronizeClear \/
    SynchronizeSet \/ SynchronizeWoken \/ SynchronizeExpired
  BY <1>1 DEF GetBegin, HttpGoto, GetMarkLoad, GetReply, RequestOver, PostBegin, PostEnd, SynchronizeClear,
    SynchronizeSet, SynchronizeWoken, SynchronizeExpired
<1>2. CASE MasterWake \/ MasterDecide \/ MasterScan \/ MasterSignal \/ CommWrite \/ CommBroadcast \/
    DoneReadLoad \/ DoneWriteLoad \/ DoneDirtyLoad
  BY <1>2 DEF MasterWake, MasterGoto, MasterDecide, StartAction, MasterScan, MasterSignal, CommWrite,
    CommBroadcast, DoneReadLoad, DoneWriteLoad, DoneDirtyLoad
<1>3. CASE PostDirtyLoad \/ PostWriteLoad
  BY <1>3 DEF HttpTypeOK, PostDirtyLoad, HttpGoto, NoteOverlap, PostWriteLoad
<1>4. CASE GetMarkStore
  BY <1>4 DEF HttpTypeOK, GetMarkStore, HttpGoto
<1>5. CASE PostDirtyStore
  BY <1>5 DEF HttpTypeOK, PostDirtyStore, HttpGoto, NoteOverlap
<1>6. CASE PostWriteStore
  BY <1>6 DEF HttpTypeOK, PostWriteStore, HttpGoto, NoteOverlap
<1>7. CASE CommRead
  BY <1>7 DEF MasterTypeOK, Modules, CommRead
<1>8. CASE DoneReadStore \/ DoneWriteStore
  BY <1>8 DEF MasterTypeOK, DoneReadStore, MasterGoto, DoneWriteStore
<1>9. CASE DoneDirtyStore
  BY <1>9 DEF MasterTypeOK, DoneDirtyStore
<1>10. CASE CommOk
  <2>1. mprop \in Props /\ Delivered(OnWire)
    BY <1>10 DEF CommOk, MasterGoto, MasterTypeOK
  <2> QED
    BY <1>10, <2>1, DeliveredEffect DEF CommOk
<1>11. CASE CommFail
  <2>1. mprop \in Props /\ \E S \in SUBSET OnWire : Delivered(S)
    BY <1>11 DEF CommFail, MasterTypeOK
  <2> QED
    BY <1>11, <2>1, DeliveredEffect DEF CommFail
<1>12. CASE \E m \in Modules, p \in Props, v \in Values : PostSet(m, p, v)
  <2> PICK m \in Modules, p \in Props, v \in Values : PostSet(m, p, v)
    BY <1>12
  <2> QED
    BY PostSetEffect DEF PostSet, NoteOverlap
<1>13. CASE PostRefused
  <2> PICK m \in Modules, p \in StoresFirst : /\ model' = [model EXCEPT ![m][p] = Unsupported]
                                             /\ disturbed' = disturbed \cup {p}
    BY <1>13 DEF PostRefused
  <2>1. p \in Props /\ Unsupported \in Values
    BY DisplayAssumption
  <2>2. UNCHANGED <<shown, flagVars, wanted>>
    BY <1>13 DEF PostRefused
  <2> QED
    BY <2>1, <2>2
<1> QED
  BY <1>13, <1>1, <1>2, <1>3, <1>4, <1>5, <1>6, <1>7, <1>8, <1>9, <1>10, <1>11, <1>12 DEF Next, HttpRequest, HttpStep, MasterStep

(* While one task holds a loaded flag word, the other one only moves the   *)
(* flags in one direction.                                                 *)
LEMMA WordsStep ==
  ASSUME TypeOK, LoadedWords, Next
  PROVE  LoadedWords'
<1> USE DisplayAssumption DEF TypeOK, DataTypeOK, HttpTypeOK, MasterTypeOK, Modules, Props, flagVars, bitVars, httpVars,
    masterVars, postHistory, LoadedWords
<1>1. CASE GetBegin \/ PostRefused \/ GetMarkLoad \/ GetMarkStore \/ GetReply \/ PostBegin \/ PostEnd \/ SynchronizeClear \/
    SynchronizeSet \/ SynchronizeWoken \/ SynchronizeExpired
  BY <1>1 DEF HttpGoto, GetBegin, PostRefused, GetMarkLoad, GetMarkStore, RequestOver, GetReply, PostBegin, PostEnd,
    SynchronizeClear, SynchronizeSet, SynchronizeWoken, SynchronizeExpired
<1>2. CASE MasterWake \/ MasterDecide \/ MasterScan \/ MasterSignal \/ CommRead \/ CommWrite \/
    CommBroadcast \/ CommOk
  BY <1>2 DEF MasterGoto, MasterWake, StartAction, MasterDecide, MasterScan, MasterSignal, CommRead, CommWrite,
    CommBroadcast, EndAction, Delivered, CommOk
<1>3. CASE PostDirtyLoad
  BY <1>3 DEF PostDirtyLoad, HttpGoto, NoteOverlap
<1>4. CASE PostDirtyStore
  BY <1>4 DEF PostDirtyStore, HttpGoto, NoteOverlap
<1>5. CASE PostWriteLoad
  BY <1>5 DEF PostWriteLoad, HttpGoto, NoteOverlap
<1>6. CASE PostWriteStore
  BY <1>6 DEF PostWriteStore, HttpGoto, NoteOverlap
<1>7. CASE DoneReadLoad
  BY <1>7 DEF DoneReadLoad, MasterGoto
<1>8. CASE DoneReadStore
  BY <1>8 DEF DoneReadStore, MasterGoto
<1>9. CASE DoneWriteLoad
  BY <1>9 DEF DoneWriteLoad, MasterGoto
<1>10. CASE DoneWriteStore
  BY <1>10 DEF DoneWriteStore, MasterGoto
<1>11. CASE DoneDirtyLoad
  BY <1>11 DEF DoneDirtyLoad, MasterGoto
<1>12. CASE DoneDirtyStore
  BY <1>12 DEF DoneDirtyStore
<1>13. CASE CommFail
  BY <1>13 DEF CommFail, EndAction, Delivered
<1>14. CASE \E m \in Modules, p \in Props, v \in Values : PostSet(m, p, v)
  BY <1>14 DEF PostSet, HttpGoto, NoteOverlap
<1> QED
  BY <1>1, <1>2, <1>3, <1>4, <1>5, <1>6, <1>7, <1>8, <1>9, <1>10, <1>11, <1>12, <1>13, <1>14 DEF Next, HttpRequest, HttpStep, MasterStep

(* A property once disturbed stays so.                                     *)
LEMMA CleanShrinks == Next => Clean' \subseteq Clean
BY DEF Next, HttpRequest, HttpStep, MasterStep, Clean, NoteOverlap, GetBegin, GetMarkLoad, GetMarkStore, GetReply, PostBegin, PostDirtyLoad, PostDirtyStore,
    PostWriteLoad, PostWriteStore, PostEnd, SynchronizeClear, SynchronizeSet, SynchronizeWoken,
    SynchronizeExpired, MasterWake, MasterDecide, MasterScan, MasterSignal, CommRead, CommWrite,
    CommBroadcast, CommOk, CommFail, DoneReadLoad, DoneReadStore, DoneWriteLoad, DoneWriteStore,
    DoneDirtyLoad, DoneDirtyStore, PostSet, PostRefused, flagVars, bitVars, httpVars, masterVars, postHistory

(* A clean property that is to be read is on the modules as it was asked   *)
(* for: a GET that finds it yet to be written makes it unclean, and so     *)
(* does a POST that finds it yet to be read.                               *)
LEMMA ReadStep ==
  ASSUME TypeOK, ReadIsShown, WireIsWanted, KeptSafely, Next
  PROVE  ReadIsShown'
<1> SUFFICES ASSUME NEW p \in Clean', ReadDue(p)', NEW m \in Modules
             PROVE  shown'[m][p] = wanted'[m][p]
  BY DEF ReadIsShown
<1>0. p \in Clean /\ p \in Props
  BY CleanShrinks, DisplayAssumption DEF Clean
<1>a. ReadDue(p) => shown[m][p] = wanted[m][p]
  BY <1>0 DEF ReadIsShown
<1> USE DEF flagVars, bitVars, httpVars, masterVars, postHistory
<1>1. CASE GetBegin \/ PostRefused \/ GetReply \/ PostBegin \/ PostEnd \/ SynchronizeClear \/ SynchronizeSet \/
    SynchronizeWoken \/ SynchronizeExpired
  <2>1. UNCHANGED <<shown, wanted, readRequired, hword, masterVars>> /\ (hpc' = "markStore" => hpc = "markStore")
    BY <1>1 DEF HttpGoto, GetBegin, PostRefused, GetReply, RequestOver, PostBegin, PostEnd, SynchronizeClear,
      SynchronizeSet, SynchronizeWoken, SynchronizeExpired
  <2> QED
    BY <1>a, <2>1 DEF ReadDue
<1>2. CASE PostDirtyLoad \/ PostDirtyStore \/ PostWriteLoad \/ PostWriteStore
  <2>1. UNCHANGED <<shown, wanted, readRequired, masterVars>> /\ hpc' # "markStore"
    BY <1>2 DEF HttpGoto, PostDirtyLoad, PostDirtyStore, PostWriteLoad, PostWriteStore
  <2> QED
    BY <1>a, <2>1 DEF ReadDue
<1>3. CASE GetMarkLoad
  <2>1. /\ UNCHANGED <<shown, wanted, readRequired, masterVars>>
        /\ hpc' = "markStore" => hword' = readRequired
    BY <1>3 DEF GetMarkLoad
  <2> QED
    BY <1>a, <2>1 DEF ReadDue
<1>4. CASE GetMarkStore
  <2>1. /\ UNCHANGED <<shown, wanted, dirty, masterVars>> /\ hpc = "markStore" /\ hpc' = "mark"
        /\ readRequired' = hword \cup {hprop}
        /\ disturbed' = IF WriteDue(hprop) THEN disturbed \cup {hprop} ELSE disturbed
    BY <1>4 DEF GetMarkStore, HttpGoto
  <2>2. CASE p = hprop
    <3>1. ~WriteDue(p)
      BY <2>1, <2>2 DEF Clean
    <3>2. ~StoringEarly(m, p) /\ ~DirtySafe(m, p)
      BY <2>1, <3>1 DEF WriteDue, StoringEarly, DirtySafe
    <3> QED
      BY <1>0, <2>1, <3>2 DEF KeptSafely
  <2>3. CASE p # hprop
    BY <1>a, <2>1, <2>3 DEF ReadDue
  <2> QED
    BY <2>2, <2>3
<1>5. CASE MasterDecide
  BY <1>a, <1>5 DEF MasterDecide, StartAction, ReadDue
<1>6. CASE MasterScan
  BY <1>a, <1>6 DEF MasterScan, StartAction, ReadDue
<1>7. CASE MasterWake \/ MasterSignal \/ CommRead \/ CommWrite \/ CommBroadcast \/ DoneWriteLoad \/ DoneWriteStore \/
    DoneDirtyLoad \/ DoneDirtyStore
  <2>1. UNCHANGED <<shown, wanted, readRequired, hpc, hword>> /\ mpc' # "readStore"
        /\ (mpc' = "comm" => mpc = "comm" /\ UNCHANGED <<mact, mprop>>)
    BY <1>7 DEF MasterGoto, MasterWake, MasterSignal, CommRead, CommWrite, CommBroadcast, DoneWriteLoad,
      DoneWriteStore, DoneDirtyLoad, DoneDirtyStore
  <2> QED
    BY <1>a, <2>1 DEF ReadDue
<1>8. CASE DoneReadLoad
  BY <1>a, <1>8 DEF DoneReadLoad, MasterGoto, ReadDue
<1>9. CASE DoneReadStore
  <2>1. /\ UNCHANGED <<shown, wanted, hpc, hword>> /\ mpc = "readStore" /\ mpc' = "writeLoad"
        /\ readRequired' = mword \ {mprop}
    BY <1>9 DEF DoneReadStore, MasterGoto
  <2> QED
    BY <1>a, <2>1 DEF ReadDue
<1>10. CASE CommOk \/ CommFail
  <2>1. /\ UNCHANGED <<wanted, readRequired, hpc, hword>> /\ mpc = "comm" /\ mpc' # "readStore"
        /\ (mpc' = "comm" => UNCHANGED <<mact, mprop>>)
        /\ \E S \in SUBSET OnWire : Delivered(S)
    BY <1>10 DEF CommOk, CommFail, MasterGoto
  <2>2. PICK S \in SUBSET OnWire : Delivered(S)
    BY <2>1
  <2>3. shown'[m][p] = IF m \in S /\ p = mprop THEN wire[m] ELSE shown[m][p]
    BY <1>0, <2>1, <2>2, DeliveredEffect DEF TypeOK, MasterTypeOK
  <2>4. m \in S /\ p = mprop => wire[m] = wanted[m][p]
    BY <1>0, <2>1 DEF WireIsWanted, OnWire
  <2>5. ReadDue(p)
    BY <2>1 DEF ReadDue
  <2> QED
    BY <1>a, <2>1, <2>3, <2>4, <2>5
<1>11. CASE \E n \in Modules, q \in Props, v \in Values : PostSet(n, q, v)
  <2> PICK n \in Modules, q \in Props, v \in Values : PostSet(n, q, v)
    BY <1>11
  <2>1. UNCHANGED <<shown, readRequired, masterVars>> /\ hpc' = "dirtyLoad" /\ NoteOverlap(q)
    BY DEF PostSet, HttpGoto
  <2>2. ReadDue(p)
    BY <2>1 DEF ReadDue
  <2>3. CASE p = q
    <3>1. mpc = "parked" /\ p \notin readRequired
      BY <2>1, <2>3 DEF NoteOverlap, Clean
    <3> QED
      BY <2>1, <3>1 DEF ReadDue
  <2>4. CASE p # q
    BY <1>0, <1>a, <2>1, <2>2, <2>4, PostSetEffect
  <2> QED
    BY <2>3, <2>4
<1> QED
  BY <1>1, <1>2, <1>3, <1>4, <1>5, <1>6, <1>7, <1>8, <1>9, <1>10, <1>11 DEF Next, HttpRequest, HttpStep, MasterStep

(* The model of a clean property is what the client asked for: a read      *)
(* brings nothing else, refused values make it unclean.                    *)
LEMMA ModelStep ==
  ASSUME TypeOK, ReadIsShown, ModelIsWanted, Next
  PROVE  ModelIsWanted'
<1> USE DEF ModelIsWanted, flagVars, bitVars, httpVars, masterVars, postHistory
<1>1. CASE GetBegin \/ GetMarkLoad \/ GetMarkStore \/ GetReply \/ PostBegin \/ PostDirtyLoad \/
    PostDirtyStore \/ PostWriteLoad \/ PostWriteStore \/ PostEnd \/ SynchronizeClear \/
    SynchronizeSet \/ SynchronizeWoken \/ SynchronizeExpired
  BY <1>1, CleanShrinks DEF GetBegin, HttpGoto, GetMarkLoad, GetMarkStore, GetReply, RequestOver, PostBegin, PostDirtyLoad,
    NoteOverlap, PostDirtyStore, PostWriteLoad, PostWriteStore, PostEnd, SynchronizeClear,
    SynchronizeSet, SynchronizeWoken, SynchronizeExpired
<1>2. CASE MasterWake \/ MasterDecide \/ MasterScan \/ MasterSignal \/ CommWrite \/ CommBroadcast \/ CommOk \/
    CommFail \/ DoneReadLoad \/ DoneReadStore \/ DoneWriteLoad \/ DoneWriteStore \/ DoneDirtyLoad \/
    DoneDirtyStore
  BY <1>2, CleanShrinks DEF MasterWake, MasterGoto, MasterDecide, StartAction, MasterScan, MasterSignal, CommWrite,
    CommBroadcast, CommOk, EndAction, Delivered, CommFail, DoneReadLoad, DoneReadStore, DoneWriteLoad,
    DoneWriteStore, DoneDirtyLoad, DoneDirtyStore
<1>3. CASE CommRead
  <2>1. /\ mpc = "comm" /\ mact = "READ" /\ mmod \in Modules /\ mprop \in Props /\ UNCHANGED <<shown, wanted, disturbed>>
        /\ model' = [model EXCEPT ![mmod][mprop] = shown[mmod][mprop]]
    BY <1>3, DisplayAssumption DEF CommRead, TypeOK, MasterTypeOK, Modules
  <2>2. mprop \in Clean => shown[mmod][mprop] = wanted[mmod][mprop]
    BY <2>1 DEF ReadIsShown, ReadDue
  <2>3. \A m \in Modules, p \in Props : model'[m][p] = IF m = mmod /\ p = mprop THEN shown[m][p] ELSE model[m][p]
    BY <2>1 DEF TypeOK, DataTypeOK
  <2>4. Clean' = Clean /\ Clean \subseteq Props
    BY <2>1, DisplayAssumption DEF Clean
  <2> SUFFICES ASSUME NEW m \in Modules, NEW p \in Clean PROVE model'[m][p] = wanted'[m][p]
    BY <2>4
  <2>5. model[m][p] = wanted[m][p] /\ wanted' = wanted
    BY <2>1
  <2> QED
    BY <2>2, <2>3, <2>4, <2>5
<1>4. CASE \E m \in Modules, p \in Props, v \in Values : PostSet(m, p, v)
  <2> PICK m \in Modules, p \in Props, v \in Values : PostSet(m, p, v)
    BY <1>4
  <2>1. SetAlt \subseteq Props
    BY DisplayAssumption
  <2> QED
    BY PostSetEffect, <2>1, CleanShrinks DEF Clean
<1>5. CASE PostRefused
  BY <1>5, RefusedEffect, CleanShrinks DEF PostRefused
<1> QED
  BY <1>5, <1>1, <1>2, <1>3, <1>4 DEF Next, HttpRequest, HttpStep, MasterStep

(* The modules compared so far agree with module 0, also if requests come  *)
(* in during the scan: those make the property unclean.                    *)
LEMMA BroadcastStep ==
  ASSUME TypeOK, BroadcastAgrees, Next
  PROVE  BroadcastAgrees'
<1> USE DEF BroadcastAgrees, flagVars, bitVars, httpVars, masterVars, postHistory
<1>1. CASE GetBegin \/ GetMarkLoad \/ GetMarkStore \/ GetReply \/ PostBegin \/ PostEnd \/ SynchronizeClear \/
    SynchronizeSet \/ SynchronizeWoken \/ SynchronizeExpired
  BY <1>1 DEF Clean, GetBegin, HttpGoto, GetMarkLoad, GetMarkStore, GetReply, RequestOver, PostBegin, PostEnd,
    SynchronizeClear, SynchronizeSet, SynchronizeWoken, SynchronizeExpired
<1>2. CASE PostDirtyLoad \/ PostDirtyStore \/ PostWriteLoad \/ PostWriteStore
  BY <1>2 DEF Clean, PostDirtyLoad, HttpGoto, NoteOverlap, PostDirtyStore, PostWriteLoad, PostWriteStore
<1>3. CASE MasterWake \/ MasterSignal \/ CommWrite \/ CommBroadcast \/ CommOk \/ DoneReadLoad \/
    DoneReadStore \/ DoneWriteLoad \/ DoneWriteStore \/ DoneDirtyLoad \/ DoneDirtyStore
  BY <1>3 DEF Clean, MasterWake, MasterGoto, MasterSignal, CommWrite, CommBroadcast, CommOk, EndAction,
    Delivered, DoneReadLoad, DoneReadStore, DoneWriteLoad, DoneWriteStore, DoneDirtyLoad, DoneDirtyStore
<1>4. CASE MasterDecide
  BY <1>4 DEF Clean, MasterDecide, StartAction
<1>5. CASE MasterScan
  BY <1>5 DEF Clean, BroadcastFits, IsDesynchronized, TypeOK, MasterTypeOK, Modules, MasterScan, StartAction
<1>6. CASE CommRead
  BY <1>6 DEF Clean, CommRead
<1>7. CASE CommFail
  BY <1>7 DEF Clean, CommFail, EndAction, Delivered
<1>8. CASE \E m \in Modules, p \in Props, v \in Values : PostSet(m, p, v)
  <2> PICK m \in Modules, p \in Props, v \in Values : PostSet(m, p, v)
    BY <1>8
  <2>1. CASE mpc = "parked"
    BY <2>1 DEF PostSet
  <2>2. CASE mpc # "parked" /\ mprop = p
    BY <2>2 DEF PostSet, NoteOverlap, Clean
  <2>3. CASE mprop # p
    BY <2>3, PostSetEffect, CleanShrinks, DisplayAssumption DEF PostSet, Clean, TypeOK, MasterTypeOK, Modules
  <2> QED
    BY <2>1, <2>2, <2>3
<1>9. CASE PostRefused
  <2>1. UNCHANGED <<mpc, mprop, mact, mmod>>
    BY <1>9 DEF PostRefused
  <2>2. mpc = "scan" => 0 .. mmod - 1 \subseteq Modules
    BY DisplayAssumption DEF TypeOK, MasterTypeOK, Modules
  <2>3. 0 \in Modules
    BY DisplayAssumption DEF Modules
  <2> QED
    <3>1. mprop \in Clean' => mprop \in Clean /\ \A m \in Modules : model'[m][mprop] = model[m][mprop]
      BY <1>9, RefusedEffect, CleanShrinks
    <3> QED
      BY <2>1, <2>2, <2>3, <3>1
<1> QED
  BY <1>9, <1>1, <1>2, <1>3, <1>4, <1>5, <1>6, <1>7, <1>8 DEF Next, HttpRequest, HttpStep, MasterStep

(* What an attempt has serialised is what the client asked for, and a module *)
(* it skipped needs nothing.                                               *)
LEMMA WireStep ==
  ASSUME TypeOK, ModelIsWanted, BroadcastAgrees, KeptSafely, WireIsWanted, Next
  PROVE  WireIsWanted'
<1> USE DEF WireIsWanted, flagVars, bitVars, httpVars, masterVars, postHistory
<1>1. CASE GetBegin \/ GetMarkLoad \/ GetMarkStore \/ GetReply \/ PostBegin \/ PostEnd \/ SynchronizeClear \/
    SynchronizeSet \/ SynchronizeWoken \/ SynchronizeExpired
  BY <1>1 DEF Clean, StoringEarly, GetBegin, HttpGoto, GetMarkLoad, GetMarkStore, GetReply, RequestOver,
    PostBegin, PostEnd, SynchronizeClear, SynchronizeSet, SynchronizeWoken, SynchronizeExpired
<1>2. CASE PostDirtyLoad \/ PostDirtyStore \/ PostWriteLoad \/ PostWriteStore
  <2>1. CASE mpc = "parked"
    BY <1>2, <2>1 DEF PostDirtyStore, PostDirtyLoad, PostWriteLoad, PostWriteStore, Carried
  <2>2. CASE mpc # "parked" /\ mprop = hprop
    BY <1>2, <2>2 DEF PostDirtyStore, PostDirtyLoad, PostWriteLoad, PostWriteStore, NoteOverlap, Clean
  <2>3. CASE mprop # hprop
    BY <1>2, <2>3 DEF PostDirtyStore, PostDirtyLoad, PostWriteLoad, PostWriteStore, HttpGoto, NoteOverlap,
      Clean, StoringEarly
  <2> QED
    BY <2>1, <2>2, <2>3
<1>3. CASE MasterWake \/ MasterSignal \/ CommOk \/ DoneReadLoad \/ DoneReadStore \/
    DoneWriteLoad \/ DoneWriteStore \/ DoneDirtyLoad \/ DoneDirtyStore
  BY <1>3 DEF StartAction, TypeOK, MasterTypeOK, Clean, MasterWake, MasterGoto, MasterDecide, MasterSignal,
    CommOk, EndAction, Delivered, DoneReadLoad, DoneReadStore, DoneWriteLoad, DoneWriteStore,
    DoneDirtyLoad, DoneDirtyStore
<1>4. CASE MasterDecide
  BY <1>4 DEF TypeOK, MasterTypeOK, Clean, StoringEarly, MasterDecide, StartAction
<1>5. CASE MasterScan
  BY <1>5, DisplayAssumption DEF TypeOK, MasterTypeOK, Modules, Clean, StoringEarly, MasterScan, StartAction
<1>6. CASE CommRead
  BY <1>6 DEF Clean, StoringEarly, CommRead
<1>7. CASE CommWrite
  <2> USE DEF CommWrite, IsDesynchronized
  <2>1. mmod \in Modules /\ wire \in [Modules -> Values \cup {None}]
    BY <1>7, DisplayAssumption DEF TypeOK, MasterTypeOK, Modules
  <2>2. ASSUME mprop \in Clean, NEW m \in Modules
        PROVE  /\ wire'[m] # None => wire'[m] = wanted[m][mprop]
               /\ m < mmod' /\ wire'[m] = None => shown[m][mprop] = wanted[m][mprop] \/ StoringEarly(m, mprop)
    <3>1. CASE m = mmod
      <4>1. wire'[m] # None => wire'[m] = model[m][mprop]
        BY <1>7, <2>1, <3>1
      <4>2. model[m][mprop] = wanted[m][mprop]
        BY <2>2 DEF ModelIsWanted, Clean
      <4>3. mprop \in dirty[m] => wire'[m] # None
        BY <1>7, <2>1, <3>1, <2>2, DisplayAssumption DEF TypeOK, DataTypeOK, Clean
      <4>4. mprop \notin dirty[m] => shown[m][mprop] = wanted[m][mprop] \/ StoringEarly(m, mprop)
        BY <2>2 DEF KeptSafely, DirtySafe
      <4> QED
        BY <4>1, <4>2, <4>3, <4>4
    <3>2. CASE m # mmod
      <4>1. wire'[m] = wire[m] /\ (m < mmod' => m < mmod)
        BY <1>7, <2>1, <3>2 DEF Modules
      <4> QED
        BY <1>7, <2>2, <4>1
    <3> QED
      BY <3>1, <3>2
  <2> QED
    BY <1>7, <2>2 DEF Clean, StoringEarly
<1>8. CASE CommBroadcast
  <2> USE DEF CommBroadcast
  <2>1. 0 \in Modules /\ wire' = [m \in Modules |-> model[0][mprop]]
    BY <1>8, DisplayAssumption DEF Modules
  <2>2. mprop \in Props
    BY <1>8 DEF TypeOK, MasterTypeOK
  <2>3. \A m \in Modules : wire'[m] # None
    BY <2>1, <2>2, DisplayAssumption DEF TypeOK, DataTypeOK
  <2>4. mprop \in Clean => \A m \in Modules : wire'[m] = wanted[m][mprop]
    BY <1>8, <2>1 DEF BroadcastAgrees, ModelIsWanted, Clean
  <2> QED
    BY <1>8, <2>3, <2>4 DEF Clean
<1>9. CASE CommFail
  <2>1. CASE mpc' = "signal"
    BY <2>1
  <2>2. CASE mpc' # "signal"
    BY <1>9, <2>2, DisplayAssumption DEF CommFail, TypeOK, MasterTypeOK, Modules
  <2> QED
    BY <2>1, <2>2
<1>10. CASE \E m \in Modules, p \in Props, v \in Values : PostSet(m, p, v)
  <2> PICK m \in Modules, p \in Props, v \in Values : PostSet(m, p, v)
    BY <1>10
  <2>1. CASE mpc = "parked"
    BY <2>1 DEF PostSet, Carried
  <2>2. CASE mpc # "parked" /\ mprop = p
    BY <2>2, PostSetEffect DEF PostSet, NoteOverlap, Clean
  <2>3. CASE mprop # p
    <3>1. mprop \in Clean' => mprop \in Clean /\ mprop \in Props
      BY CleanShrinks, DisplayAssumption DEF PostSet, Clean
    <3>2. mprop \in Props => \A n \in Modules : wanted'[n][mprop] = wanted[n][mprop]
      BY <2>3, PostSetEffect
    <3>3. \A n \in Modules : ~StoringEarly(n, mprop)
      BY DEF PostSet, HttpGoto, StoringEarly
    <3> QED
      BY <3>1, <3>2, <3>3 DEF PostSet
  <2> QED
    BY <2>1, <2>2, <2>3
<1>11. CASE PostRefused
  <2>1. UNCHANGED <<mpc, mprop, mact, mmod, wire, shown, wanted, hpc, hmod, hprop>>
    BY <1>11 DEF PostRefused
  <2> QED
    BY <2>1, CleanShrinks DEF StoringEarly, Carried
<1> QED
  BY <1>11, <1>1, <1>2, <1>3, <1>4, <1>5, <1>6, <1>7, <1>8, <1>9, <1>10 DEF Next, HttpRequest, HttpStep, MasterStep

(* After a successful attempt every module has what was asked for until its *)
(* flags are down, or the POST that changed it is still at its first flag. *)
LEMMA CarriedStep ==
  ASSUME TypeOK, ReadIsShown, WireIsWanted, CarriedIsShown, Next
  PROVE  CarriedIsShown'
<1> USE DEF CarriedIsShown, flagVars, bitVars, httpVars, masterVars, postHistory
<1>1. CASE GetBegin \/ GetMarkLoad \/ GetMarkStore \/ GetReply \/ PostBegin \/ PostEnd \/ SynchronizeClear \/
    SynchronizeSet \/ SynchronizeWoken \/ SynchronizeExpired
  BY <1>1 DEF Clean, StoringEarly, Carried, GetBegin, HttpGoto, GetMarkLoad, GetMarkStore, GetReply, RequestOver,
    PostBegin, PostEnd, SynchronizeClear, SynchronizeSet, SynchronizeWoken, SynchronizeExpired
<1>2. CASE PostDirtyLoad \/ PostDirtyStore \/ PostWriteLoad \/ PostWriteStore
  <2>1. UNCHANGED <<mpc, mprop, shown, wanted>> /\ NoteOverlap(hprop)
    BY <1>2 DEF PostDirtyStore, PostDirtyLoad, PostWriteLoad, PostWriteStore
  <2>2. Carried /\ mprop = hprop => mprop \notin Clean'
    BY <2>1 DEF Carried, NoteOverlap, Clean
  <2>3. mprop \in Clean' => mprop \in Clean
    BY CleanShrinks
  <2>4. \A m \in Modules : mprop # hprop => StoringEarly(m, mprop)' = StoringEarly(m, mprop)
    BY <1>2, <2>1 DEF PostDirtyStore, PostDirtyLoad, PostWriteLoad, PostWriteStore, HttpGoto, StoringEarly
  <2> QED
    BY <2>1, <2>2, <2>3, <2>4 DEF Carried
<1>3. CASE MasterWake \/ MasterDecide \/ MasterScan \/ MasterSignal \/ CommRead \/ CommWrite \/
    CommBroadcast \/ CommFail
  BY <1>3 DEF Carried, MasterWake, MasterGoto, MasterDecide, StartAction, MasterScan, MasterSignal, CommRead,
    CommWrite, CommBroadcast, CommFail, EndAction, Delivered
<1>4. CASE DoneReadLoad \/ DoneReadStore \/ DoneWriteLoad \/ DoneWriteStore \/ DoneDirtyLoad
  BY <1>4 DEF Carried, Clean, StoringEarly, DoneReadLoad, MasterGoto, DoneReadStore, DoneWriteLoad,
    DoneWriteStore, DoneDirtyLoad
<1>5. CASE DoneDirtyStore
  BY <1>5 DEF Carried, Clean, StoringEarly, DoneDirtyStore
<1>6. CASE CommOk
  <2> SUFFICES ASSUME mprop \in Clean, NEW m \in Modules
               PROVE  shown'[m][mprop] = wanted[m][mprop] \/ StoringEarly(m, mprop)
    BY <1>6 DEF CommOk, Clean, StoringEarly
  <2>1. mprop \in Props /\ Delivered(OnWire)
    BY <1>6 DEF CommOk, MasterGoto, TypeOK, MasterTypeOK
  <2>2. shown'[m][mprop] = IF m \in OnWire THEN wire[m] ELSE shown[m][mprop]
    BY <2>1, DeliveredEffect
  <2>3. mpc = "comm" /\ mmod = ModuleCount /\ m < mmod
    BY <1>6, DisplayAssumption DEF CommOk, MasterGoto, Modules
  <2>4. mact = "READ" => shown[m][mprop] = wanted[m][mprop]
    BY <2>3 DEF ReadIsShown, ReadDue
  <2>5. mact \in {"READ", "WRITE", "BROADCAST"}
    BY DEF TypeOK, MasterTypeOK
  <2> QED
    BY <2>2, <2>3, <2>4, <2>5 DEF WireIsWanted, OnWire
<1>7. CASE \E m \in Modules, p \in Props, v \in Values : PostSet(m, p, v)
  <2> PICK m \in Modules, p \in Props, v \in Values : PostSet(m, p, v)
    BY <1>7
  <2>1. CASE mpc = "parked"
    BY <2>1 DEF PostSet, Carried
  <2>2. CASE mpc # "parked" /\ mprop = p
    BY <2>2, PostSetEffect DEF PostSet, NoteOverlap, Clean
  <2>3. CASE mprop # p
    <3>1. mprop \in Clean' => mprop \in Clean /\ mprop \in Props
      BY CleanShrinks, DisplayAssumption DEF PostSet, Clean
    <3>2. mprop \in Props => \A n \in Modules : wanted'[n][mprop] = wanted[n][mprop]
      BY <2>3, PostSetEffect
    <3>3. \A n \in Modules : ~StoringEarly(n, mprop)
      BY DEF PostSet, HttpGoto, StoringEarly
    <3> QED
      BY <3>1, <3>2, <3>3 DEF PostSet, Carried
  <2> QED
    BY <2>1, <2>2, <2>3
<1>8. CASE PostRefused
  <2>1. UNCHANGED <<mpc, mprop, mact, mmod, wire, shown, wanted, hpc, hmod, hprop>>
    BY <1>8 DEF PostRefused
  <2> QED
    BY <2>1, CleanShrinks DEF StoringEarly, Carried
<1> QED
  BY <1>8, <1>1, <1>2, <1>3, <1>4, <1>5, <1>6, <1>7 DEF Next, HttpRequest, HttpStep, MasterStep

(* The two |= and the three &= ~ on the flag words lose no accepted write. *)
LEMMA KeptStep ==
  ASSUME IInv, Next
  PROVE  KeptSafely'
<1> DEFINE Kept(m, p) ==
      \/ shown[m][p] = wanted[m][p]
      \/ StoringEarly(m, p)
      \/ DirtySafe(m, p) /\ (WriteSafe(p) \/ StoringLate(m, p))
<1> SUFFICES ASSUME NEW m \in Modules, NEW p \in Clean, p \in Clean', Kept(m, p)
             PROVE  Kept(m, p)'
  BY CleanShrinks DEF IInv, KeptSafely
<1>0. p \in Props
  BY DisplayAssumption DEF Clean
<1> USE DEF flagVars, bitVars, httpVars, masterVars, postHistory
<1>1. CASE GetBegin \/ GetMarkLoad \/ GetMarkStore \/ GetReply \/ PostBegin \/ PostEnd \/ SynchronizeClear \/
    SynchronizeSet \/ SynchronizeWoken \/ SynchronizeExpired
  <2>1. UNCHANGED <<shown, wanted, dirty, writeRequired, mpc, mmod, mprop, mword>>
    BY <1>1 DEF GetBegin, GetMarkLoad, GetMarkStore, GetReply, PostBegin, PostEnd, SynchronizeClear,
      SynchronizeSet, SynchronizeWoken, SynchronizeExpired
  <2>2. ~StoringEarly(m, p) /\ ~StoringLate(m, p)
    BY <1>1 DEF StoringEarly, StoringLate, HttpGoto, GetBegin, GetMarkLoad, GetMarkStore, GetReply, PostBegin,
      PostEnd, SynchronizeClear, SynchronizeSet, SynchronizeWoken, SynchronizeExpired
  <2> QED
    BY <2>1, <2>2 DEF DirtySafe, WriteSafe
<1>2. CASE PostDirtyLoad \/ PostWriteLoad
  <2>1. UNCHANGED <<shown, wanted, dirty, writeRequired, mpc, mmod, mprop, mword, hmod, hprop>>
    BY <1>2 DEF PostDirtyLoad, PostWriteLoad
  <2>2. StoringEarly(m, p)' = StoringEarly(m, p) /\ StoringLate(m, p)' = StoringLate(m, p)
    BY <1>2, <2>1 DEF PostDirtyLoad, PostWriteLoad, HttpGoto, StoringEarly, StoringLate
  <2> QED
    BY <2>1, <2>2 DEF DirtySafe, WriteSafe
<1>3. CASE PostDirtyStore
  <2>1. /\ UNCHANGED <<shown, wanted, writeRequired, mpc, mmod, mprop, mword, hmod, hprop>>
        /\ hpc = "dirtyStore" /\ hpc' = "writeLoad" /\ NoteOverlap(hprop)
        /\ dirty' = [dirty EXCEPT ![hmod] = hword \cup {hprop}]
    BY <1>3 DEF PostDirtyStore, HttpGoto
  <2>2. dirty[m] \subseteq dirty'[m] /\ (m = hmod => hprop \in dirty'[m])
    BY <2>1 DEF IInv, LoadedWords, TypeOK, DataTypeOK
  <2>3. CASE m = hmod /\ p = hprop
    <3>1. mpc = "parked"
      BY <2>1, <2>3 DEF NoteOverlap, Clean
    <3> QED
      BY <2>1, <2>2, <2>3, <3>1 DEF DirtySafe, StoringLate
  <2>4. CASE ~(m = hmod /\ p = hprop)
    BY <2>1, <2>2, <2>4 DEF DirtySafe, WriteSafe, StoringEarly, StoringLate
  <2> QED
    BY <2>3, <2>4
<1>4. CASE PostWriteStore
  <2>1. /\ UNCHANGED <<shown, wanted, dirty, mpc, mmod, mprop, mword, hmod, hprop>>
        /\ hpc = "writeStore" /\ hpc' = "post" /\ NoteOverlap(hprop)
        /\ writeRequired \subseteq writeRequired' /\ hprop \in writeRequired'
    BY <1>4 DEF PostWriteStore, HttpGoto, IInv, LoadedWords
  <2>2. CASE p = hprop
    <3>1. mpc = "parked"
      BY <2>1, <2>2 DEF NoteOverlap, Clean
    <3> QED
      BY <2>1, <2>2, <3>1 DEF DirtySafe, WriteSafe, StoringEarly
  <2>3. CASE p # hprop
    BY <2>1, <2>3 DEF DirtySafe, WriteSafe, StoringEarly, StoringLate
  <2> QED
    BY <2>2, <2>3
<1>5. CASE \E n \in Modules, q \in Props, v \in Values : PostSet(n, q, v)
  <2> PICK n \in Modules, q \in Props, v \in Values : PostSet(n, q, v)
    BY <1>5
  <2>1. /\ UNCHANGED <<shown, dirty, writeRequired, mpc, mmod, mprop, mword>>
        /\ hpc = "post" /\ hpc' = "dirtyLoad" /\ hmod' = n /\ hprop' = q
    BY DEF PostSet, HttpGoto
  <2>2. CASE m = n /\ p = q
    BY <2>1, <2>2 DEF StoringEarly
  <2>3. CASE ~(m = n /\ p = q)
    <3>1. wanted'[m][p] = wanted[m][p]
      BY <2>3, <1>0, PostSetEffect DEF IInv
    <3> QED
      BY <2>1, <3>1 DEF DirtySafe, WriteSafe, StoringEarly, StoringLate
  <2> QED
    BY <2>2, <2>3
<1>6. ASSUME MasterStep
      PROVE  /\ UNCHANGED <<wanted, hpc, hmod, hprop>>
             /\ StoringEarly(m, p)' = StoringEarly(m, p)
             /\ StoringLate(m, p)' = StoringLate(m, p)
  BY <1>6 DEF StoringEarly, StoringLate, MasterStep, MasterWake, MasterDecide, MasterScan, MasterSignal,
    CommRead, CommWrite, CommBroadcast, CommOk, CommFail, DoneReadLoad, DoneReadStore, DoneWriteLoad,
    DoneWriteStore, DoneDirtyLoad, DoneDirtyStore
<1>7. CASE MasterWake \/ MasterDecide \/ MasterScan \/ MasterSignal \/ CommRead \/ CommWrite \/
    CommBroadcast \/ DoneReadLoad \/ DoneReadStore
  <2>1. UNCHANGED <<shown, dirty, writeRequired>> /\ mpc' \notin {"dirtyStore", "writeStore"}
    BY <1>7 DEF MasterGoto, StartAction, MasterWake, MasterDecide, MasterScan, MasterSignal, CommRead,
      CommWrite, CommBroadcast, DoneReadLoad, DoneReadStore
  <2> QED
    BY <1>6, <1>7, <2>1 DEF DirtySafe, WriteSafe, MasterStep
<1>8. CASE CommOk \/ CommFail
  <2>1. /\ UNCHANGED <<dirty, writeRequired>> /\ mpc = "comm" /\ mpc' \notin {"dirtyStore", "writeStore"}
        /\ \E S \in SUBSET OnWire : Delivered(S)
    BY <1>8 DEF CommOk, CommFail, MasterGoto
  <2>2. PICK S \in SUBSET OnWire : Delivered(S)
    BY <2>1
  <2>3. shown'[m][p] = IF m \in S /\ p = mprop THEN wire[m] ELSE shown[m][p]
    BY <2>1, <2>2, <1>0, DeliveredEffect DEF IInv, TypeOK, MasterTypeOK
  <2>4. m \in S /\ p = mprop => wire[m] = wanted[m][p]
    BY <2>1, <2>2 DEF IInv, WireIsWanted, OnWire
  <2> QED
    BY <1>6, <1>8, <2>1, <2>3, <2>4 DEF DirtySafe, WriteSafe, MasterStep
<1>9. Carried /\ p = mprop => shown[m][p] = wanted[m][p] \/ StoringEarly(m, p)
  BY DEF IInv, CarriedIsShown
<1>10. CASE DoneWriteLoad
  <2>1. UNCHANGED <<shown, dirty>> /\ writeRequired' = writeRequired /\ mpc' = "writeStore" /\ mword' = writeRequired
    BY <1>10 DEF DoneWriteLoad, MasterGoto
  <2> QED
    BY <1>6, <1>10, <2>1 DEF DirtySafe, WriteSafe, MasterStep
<1>11. CASE DoneWriteStore
  <2>1. /\ UNCHANGED <<shown, dirty>> /\ writeRequired' = mword \ {mprop}
        /\ mpc = "writeStore" /\ mpc' = "dirtyLoad"
    BY <1>11 DEF DoneWriteStore, MasterGoto
  <2> QED
    BY <1>6, <1>9, <1>11, <2>1 DEF DirtySafe, WriteSafe, MasterStep, Carried
<1>12. CASE DoneDirtyLoad
  <2>1. /\ UNCHANGED <<shown, dirty, writeRequired, mmod, mprop>>
        /\ mpc' = "dirtyStore" /\ mword' = dirty[mmod]
    BY <1>12 DEF DoneDirtyLoad, MasterGoto
  <2> QED
    BY <1>6, <1>12, <2>1 DEF DirtySafe, WriteSafe, MasterStep
<1>13. CASE DoneDirtyStore
  <2>1. /\ UNCHANGED <<shown, writeRequired>> /\ dirty' = [dirty EXCEPT ![mmod] = mword \ {mprop}]
        /\ mpc = "dirtyStore" /\ mpc' \in {"dirtyLoad", "decide"}
    BY <1>13 DEF DoneDirtyStore
  <2>2. dirty'[m] = IF m = mmod THEN mword \ {mprop} ELSE dirty[m]
    BY <2>1 DEF IInv, TypeOK, DataTypeOK
  <2> QED
    BY <1>6, <1>9, <1>13, <2>1, <2>2 DEF DirtySafe, WriteSafe, MasterStep, Carried
<1>14. CASE PostRefused
  BY <1>14 DEF PostRefused, DirtySafe, WriteSafe, StoringEarly, StoringLate
<1> QED
  BY <1>14, <1>1, <1>2, <1>3, <1>4, <1>5, <1>7, <1>8, <1>10, <1>11, <1>12, <1>13
  DEF Next, HttpRequest, HttpStep, MasterStep

(* The invariant holds initially.                                          *)
LEMMA InitIInv == Init => IInv
<1> SUFFICES ASSUME Init PROVE IInv
  OBVIOUS
<1> USE DisplayAssumption DEF Init, MasterInit
<1>1. 0 \in Modules /\ 0 \in Props
  BY DEF Modules, Props
<1>2. DataTypeOK /\ HttpTypeOK
  BY <1>1 DEF DataTypeOK, HttpTypeOK
<1>3. MasterTypeOK
  BY <1>1 DEF MasterTypeOK, Modules
<1>4. BitTypeOK
  BY DEF BitTypeOK
<1>5. ReadIsShown /\ LoadedWords /\ BroadcastAgrees /\ WireIsWanted /\ CarriedIsShown
  BY DEF ReadIsShown, ReadDue, LoadedWords, BroadcastAgrees, WireIsWanted, CarriedIsShown, Carried
<1>6. ModelIsWanted /\ KeptSafely
  BY DEF ModelIsWanted, KeptSafely
<1> QED
  BY <1>2, <1>3, <1>4, <1>5, <1>6 DEF IInv, TypeOK

(* The invariant does not depend on anything but the variables.            *)
LEMMA StutterIInv == IInv /\ UNCHANGED vars => IInv'
<1> SUFFICES ASSUME IInv, UNCHANGED vars PROVE IInv'
  OBVIOUS
<1> USE DEF IInv, vars, flagVars, bitVars, httpVars, masterVars, postHistory
<1>1. DataTypeOK' /\ HttpTypeOK' /\ MasterTypeOK'
  BY DEF TypeOK, DataTypeOK, HttpTypeOK, MasterTypeOK
<1>2. BitTypeOK'
  BY DEF TypeOK, BitTypeOK
<1>3. ReadIsShown' /\ LoadedWords' /\ ModelIsWanted' /\ BroadcastAgrees'
  BY DEF ReadIsShown, ReadDue, LoadedWords, ModelIsWanted, BroadcastAgrees, Clean
<1>4. WireIsWanted' /\ CarriedIsShown'
  BY DEF WireIsWanted, CarriedIsShown, Carried, Clean, StoringEarly
<1>5. KeptSafely'
  BY DEF KeptSafely, Clean, DirtySafe, WriteSafe, StoringEarly, StoringLate
<1> QED
  BY <1>1, <1>2, <1>3, <1>4, <1>5 DEF TypeOK

(* The invariant is inductive.                                             *)
LEMMA NextIInv == IInv /\ Next => IInv'
<1> SUFFICES ASSUME IInv, Next PROVE IInv'
  OBVIOUS
<1>1. TypeOK'
  BY DataTypeStep, HttpTypeStep, MasterTypeStep, BitTypeStep DEF IInv, TypeOK
<1>2. ReadIsShown' /\ LoadedWords' /\ ModelIsWanted' /\ BroadcastAgrees'
  BY ReadStep, WordsStep, ModelStep, BroadcastStep DEF IInv
<1>3. WireIsWanted' /\ CarriedIsShown'
  BY WireStep, CarriedStep DEF IInv
<1> QED
  BY <1>1, <1>2, <1>3, KeptStep DEF IInv

(* The invariant holds in every reachable state.                           *)
LEMMA InvariantHolds == Spec => []IInv
BY InitIInv, NextIInv, StutterIInv, PTL DEF Spec

(* Type correctness of the synchronisation, for any number of modules and  *)
(* properties: no loop of either task leaves its range.                    *)
THEOREM TypeCorrect == Spec => []TypeOK
<1>1. IInv => TypeOK
  BY DEF IInv
<1> QED
  BY <1>1, InvariantHolds, PTL

(* The flags of of_display and module_t lose no accepted write, for any number *)
(* of modules, properties and attempts, whatever attempts fail and however the *)
(* two tasks interleave, as long as no POST on the property overlaps a round  *)
(* or a read of it, and no GET overtakes its write.                           *)
THEOREM WritesAreKept == Spec => []AcceptedWriteKept
<1>1. ASSUME IInv PROVE AcceptedWriteKept
  <2> SUFFICES ASSUME NEW m \in Modules, NEW p \in Clean
               PROVE  \/ shown[m][p] = wanted[m][p]
                      \/ model[m][p] = wanted[m][p] /\ p \in dirty[m] /\ p \in writeRequired
                      \/ Storing(m, p)
    BY DEF AcceptedWriteKept, Clean
  <2>1. model[m][p] = wanted[m][p]
    BY <1>1 DEF IInv, ModelIsWanted, Clean
  <2> QED
    BY <1>1, <2>1 DEF IInv, KeptSafely, StoringEarly, StoringLate, Storing, DirtySafe, WriteSafe
<1> QED
  BY <1>1, InvariantHolds, PTL

--------------------------------------------------------------------------------
(* Only properties that can be written are ever flagged, loaded and sent,  *)
(* and a read puts nothing on the wire.                                    *)
LEMMA SettableStep ==
  ASSUME TypeOK, OnlySettable, Next
  PROVE  OnlySettable'
<1> USE DisplayAssumption DEF OnlySettable, TypeOK, HttpTypeOK, MasterTypeOK, flagVars, bitVars, httpVars, masterVars,
    postHistory
<1>1. CASE GetBegin \/ PostRefused \/ GetMarkLoad \/ GetMarkStore \/ GetReply \/ PostBegin \/ PostEnd \/
    SynchronizeClear \/ SynchronizeSet \/ SynchronizeWoken \/ SynchronizeExpired
  BY <1>1 DEF GetBegin, PostRefused, GetMarkLoad, GetMarkStore, GetReply, PostBegin, PostEnd, SynchronizeClear,
    SynchronizeSet, SynchronizeWoken, SynchronizeExpired, RequestOver, HttpGoto
<1>2. CASE PostDirtyLoad \/ PostDirtyStore \/ PostWriteLoad \/ PostWriteStore
  BY <1>2 DEF PostDirtyLoad, PostDirtyStore, PostWriteLoad, PostWriteStore, HttpGoto
<1>3. CASE \E m \in Modules, p \in Props, v \in Values : PostSet(m, p, v)
  BY <1>3 DEF PostSet, HttpGoto
<1>4. CASE MasterWake \/ MasterDecide \/ MasterScan \/ MasterSignal
  BY <1>4 DEF MasterWake, MasterDecide, MasterScan, MasterSignal, MasterGoto, StartAction
<1>5. CASE CommRead \/ CommWrite \/ CommBroadcast
  BY <1>5 DEF CommRead, CommWrite, CommBroadcast
<1>6. CASE CommOk \/ CommFail
  BY <1>6 DEF CommOk, CommFail, MasterGoto, EndAction
<1>7. CASE DoneReadLoad \/ DoneReadStore \/ DoneWriteLoad \/ DoneWriteStore \/ DoneDirtyLoad \/ DoneDirtyStore
  BY <1>7 DEF DoneReadLoad, DoneReadStore, DoneWriteLoad, DoneWriteStore, DoneDirtyLoad, DoneDirtyStore, MasterGoto
<1> QED
  BY <1>1, <1>2, <1>3, <1>4, <1>5, <1>6, <1>7 DEF Next, HttpRequest, HttpStep, MasterStep

(* Where a request or a round begins, its index is 0.                      *)
LEMMA IndicesStep ==
  ASSUME TypeOK, IndicesReset, Next
  PROVE  IndicesReset'
<1> USE DisplayAssumption DEF IndicesReset, TypeOK, HttpTypeOK, MasterTypeOK, flagVars, bitVars, httpVars, masterVars,
    postHistory
<1>1. CASE GetBegin \/ PostRefused \/ GetMarkLoad \/ GetMarkStore \/ GetReply \/ PostBegin \/ PostEnd \/
    SynchronizeClear \/ SynchronizeSet \/ SynchronizeWoken \/ SynchronizeExpired
  BY <1>1 DEF GetBegin, PostRefused, GetMarkLoad, GetMarkStore, GetReply, PostBegin, PostEnd, SynchronizeClear,
    SynchronizeSet, SynchronizeWoken, SynchronizeExpired, RequestOver, HttpGoto
<1>2. CASE PostDirtyLoad \/ PostDirtyStore \/ PostWriteLoad \/ PostWriteStore
  BY <1>2 DEF PostDirtyLoad, PostDirtyStore, PostWriteLoad, PostWriteStore, HttpGoto
<1>3. CASE \E m \in Modules, p \in Props, v \in Values : PostSet(m, p, v)
  BY <1>3 DEF PostSet, HttpGoto
<1>4. CASE MasterWake \/ MasterDecide \/ MasterScan \/ MasterSignal
  BY <1>4 DEF MasterWake, MasterDecide, MasterScan, MasterSignal, MasterGoto, StartAction
<1>5. CASE CommRead \/ CommWrite \/ CommBroadcast \/ CommOk \/ CommFail
  BY <1>5 DEF CommRead, CommWrite, CommBroadcast, CommOk, CommFail, MasterGoto
<1>6. CASE DoneReadLoad \/ DoneReadStore \/ DoneWriteLoad \/ DoneWriteStore \/ DoneDirtyLoad \/ DoneDirtyStore
  BY <1>6 DEF DoneReadLoad, DoneReadStore, DoneWriteLoad, DoneWriteStore, DoneDirtyLoad, DoneDirtyStore, MasterGoto
<1> QED
  BY <1>1, <1>2, <1>3, <1>4, <1>5, <1>6 DEF Next, HttpRequest, HttpStep, MasterStep

(* What a module takes in one step is the value last accepted for it: the  *)
(* wire holds that, and nothing else changes what the modules show.        *)
LEMMA ShownStep ==
  ASSUME IInv, OnlySettable, Next,
         NEW m \in Modules, NEW p \in Props \ disturbed, shown'[m][p] # shown[m][p]
  PROVE  shown'[m][p] = wanted[m][p]
<1> USE DEF IInv, TypeOK, flagVars, bitVars, httpVars, masterVars, postHistory
<1>1. ASSUME NEW S \in SUBSET OnWire, Delivered(S), mpc = "comm", mprop \in Props
      PROVE  shown'[m][p] = wanted[m][p]
  <2>1. m \in S /\ p = mprop /\ shown'[m][p] = wire[m]
    BY <1>1, DeliveredEffect
  <2>2. wire[m] # None
    BY <1>1, <2>1 DEF OnWire
  <2>3. p \in Clean
    BY <1>1, <2>1, <2>2 DEF OnlySettable, Clean
  <2> QED
    BY <1>1, <2>1, <2>2, <2>3 DEF WireIsWanted
<1>2. CASE CommOk \/ CommFail
  <2>1. mpc = "comm" /\ mprop \in Props
    BY <1>2 DEF CommOk, CommFail, MasterGoto, MasterTypeOK
  <2>2. \E S \in SUBSET OnWire : Delivered(S)
    BY <1>2 DEF CommOk, CommFail
  <2> QED
    BY <1>1, <2>1, <2>2
<1>3. CASE ~(CommOk \/ CommFail)
  <2>1. shown' = shown
    BY <1>3 DEF Next, HttpRequest, HttpStep, MasterStep, GetBegin, GetMarkLoad, GetMarkStore, GetReply, PostBegin,
      PostDirtyLoad, PostDirtyStore, PostWriteLoad, PostWriteStore, PostEnd, SynchronizeClear, SynchronizeSet,
      SynchronizeWoken, SynchronizeExpired, MasterWake, MasterDecide, MasterScan, MasterSignal, CommRead, CommWrite,
      CommBroadcast, DoneReadLoad, DoneReadStore, DoneWriteLoad, DoneWriteStore, DoneDirtyLoad, DoneDirtyStore,
      PostSet, PostRefused
  <2> QED
    BY <2>1
<1> QED
  BY <1>2, <1>3

(* No step makes a GET trusted but its own beginning, and none of a POST   *)
(* finds one trusted.                                                      *)
LEMMA TrustKept ==
  ASSUME Next, trusted'
  PROVE  trusted \/ GetBegin
<1> USE DEF flagVars, bitVars, httpVars, masterVars, postHistory
<1>1. CASE GetMarkLoad \/ GetMarkStore \/ PostBegin \/ PostRefused \/ PostDirtyLoad \/ PostDirtyStore
  BY <1>1 DEF GetMarkLoad, GetMarkStore, PostBegin, PostRefused, PostDirtyLoad, PostDirtyStore
<1>2. CASE PostWriteLoad \/ PostWriteStore \/ PostEnd \/ SynchronizeClear \/ SynchronizeSet
  BY <1>2 DEF PostWriteLoad, PostWriteStore, PostEnd, SynchronizeClear, SynchronizeSet
<1>3. CASE SynchronizeWoken \/ SynchronizeExpired \/ GetReply
  BY <1>3 DEF SynchronizeWoken, SynchronizeExpired, GetReply, RequestOver
<1>4. CASE \E m \in Modules, p \in Props, v \in Values : PostSet(m, p, v)
  BY <1>4 DEF PostSet
<1>5. CASE MasterWake \/ MasterDecide \/ MasterScan \/ MasterSignal \/ CommRead \/ CommWrite \/ CommBroadcast \/ CommOk
  BY <1>5 DEF MasterWake, MasterDecide, MasterScan, MasterSignal, CommRead, CommWrite, CommBroadcast, CommOk
<1>6. CASE CommFail
  BY <1>6 DEF CommFail
<1>7. CASE DoneReadLoad \/ DoneReadStore \/ DoneWriteLoad \/ DoneWriteStore \/ DoneDirtyLoad \/ DoneDirtyStore
  BY <1>7 DEF DoneReadLoad, DoneReadStore, DoneWriteLoad, DoneWriteStore, DoneDirtyLoad, DoneDirtyStore
<1> QED
  BY <1>1, <1>2, <1>3, <1>4, <1>5, <1>6, <1>7 DEF Next, HttpRequest, HttpStep, MasterStep

(* The event bits of a trusted GET: the SYNC bit it is woken by was set by *)
(* the round it started.                                                   *)
LEMMA BitsStep ==
  ASSUME TypeOK, TrustedRound, Next, trusted'
  PROVE  RoundBits'
<1>1. CASE GetBegin
  BY <1>1 DEF GetBegin, HttpGoto, RoundBits, bitVars
<1>2. CASE ~GetBegin
  <2>1. RoundBits /\ RoundOfGet
    BY <1>2, TrustKept DEF TrustedRound
  <2>2. hpc \notin {"idle", "post", "dirtyLoad", "dirtyStore", "writeLoad", "writeStore"} /\ hop = "get"
    BY <2>1 DEF RoundOfGet
  <2> USE DEF RoundBits, flagVars, bitVars, httpVars, masterVars, postHistory
  <2>3. CASE GetMarkLoad \/ GetMarkStore
    <3>1. hpc \in {"mark", "markStore"} /\ hpc' \in {"mark", "markStore", "clearSync"} /\ desyncBit' = desyncBit
      BY <2>3 DEF GetMarkLoad, GetMarkStore, HttpGoto
    <3> QED
      BY <2>1, <3>1
  <2>4. CASE PostBegin \/ PostRefused \/ PostDirtyLoad \/ PostDirtyStore \/ PostWriteLoad \/ PostWriteStore \/ PostEnd
    BY <2>2, <2>4 DEF PostBegin, PostRefused, PostDirtyLoad, PostDirtyStore, PostWriteLoad, PostWriteStore, PostEnd, HttpGoto
  <2>5. CASE SynchronizeClear
    BY <2>1, <2>5 DEF SynchronizeClear, HttpGoto
  <2>6. CASE SynchronizeSet
    <3>1. mpc = "parked"
      BY <2>1, <2>6 DEF RoundOfGet, SynchronizeSet, HttpGoto
    <3> QED
      BY <2>1, <2>6, <3>1 DEF SynchronizeSet, HttpGoto
  <2>7. CASE SynchronizeWoken \/ SynchronizeExpired \/ GetReply
    BY <2>1, <2>2, <2>7 DEF SynchronizeWoken, SynchronizeExpired, GetReply, RequestOver
  <2>8. CASE \E m \in Modules, p \in Props, v \in Values : PostSet(m, p, v)
    BY <2>2, <2>8 DEF PostSet, HttpGoto
  <2>9. CASE MasterWake
    BY <2>1, <2>9 DEF MasterWake, MasterGoto, RoundOfGet
  <2>10. CASE MasterSignal
    BY <2>1, <2>10 DEF MasterSignal, MasterGoto, RoundOfGet
  <2>11. CASE MasterDecide \/ MasterScan \/ CommRead \/ CommWrite \/ CommBroadcast \/ CommOk \/ CommFail
    <3>1. mpc # "parked" /\ UNCHANGED <<hpc, desyncBit, syncBit>>
      BY <2>11 DEF MasterDecide, MasterScan, CommRead, CommWrite, CommBroadcast, CommOk, CommFail, MasterGoto
    <3> QED
      BY <2>1, <3>1 DEF RoundOfGet
  <2>12. CASE DoneReadLoad \/ DoneReadStore \/ DoneWriteLoad \/ DoneWriteStore \/ DoneDirtyLoad \/ DoneDirtyStore
    <3>1. mpc # "parked" /\ UNCHANGED <<hpc, desyncBit, syncBit>>
      BY <2>12 DEF DoneReadLoad, DoneReadStore, DoneWriteLoad, DoneWriteStore, DoneDirtyLoad, DoneDirtyStore, MasterGoto
    <3> QED
      BY <2>1, <3>1 DEF RoundOfGet
  <2> HIDE DEF RoundBits
  <2> QED
    BY <1>2, <2>3, <2>4, <2>5, <2>6, <2>7, <2>8, <2>9, <2>10, <2>11, <2>12 DEF Next, HttpRequest, HttpStep, MasterStep
<1> QED
  BY <1>1, <1>2

(* The HTTP task's steps of a trusted GET: it flags what it is to read,    *)
(* and is answered when the master has parked again.                       *)
LEMMA GetStep ==
  ASSUME TypeOK, IndicesReset, RoundBits, RoundOfGet, HttpRequest \/ HttpStep, hpc' # "idle"
  PROVE  RoundOfGet'
<1>a. GetAlt \subseteq Props /\ PropCnt \in Nat /\ hprop \in 0 .. PropCnt
  BY DisplayAssumption DEF TypeOK, HttpTypeOK
<1> USE <1>a DEF Props, RoundOfGet, flagVars, bitVars, httpVars, masterVars, postHistory
<1>1. CASE GetMarkLoad
  BY <1>1 DEF GetMarkLoad
<1>2. CASE GetMarkStore
  BY <1>2 DEF GetMarkStore, HttpGoto
<1>3. CASE SynchronizeClear
  BY <1>3 DEF SynchronizeClear, HttpGoto
<1>4. CASE SynchronizeSet
  BY <1>4 DEF SynchronizeSet, HttpGoto
<1>5. CASE SynchronizeWoken
  <2>1. mpc = "parked" /\ ~desyncBit /\ hpc = "wait"
    BY <1>5 DEF SynchronizeWoken, RoundBits
  <2>2. \A p \in GetAlt : ReadBack(p)
    BY <2>1
  <2> QED
    BY <1>5, <2>1, <2>2 DEF SynchronizeWoken, ReadBack
<1>6. CASE SynchronizeExpired \/ GetReply
  BY <1>6 DEF SynchronizeExpired, GetReply, RequestOver
<1>7. CASE GetBegin \/ PostBegin \/ PostRefused \/ PostDirtyLoad \/ PostDirtyStore \/ PostWriteLoad \/
    PostWriteStore \/ PostEnd \/ \E m \in Modules, p \in Props, v \in Values : PostSet(m, p, v)
  BY <1>7 DEF GetBegin, PostBegin, PostRefused, PostDirtyLoad, PostDirtyStore, PostWriteLoad, PostWriteStore, PostEnd,
    PostSet, HttpGoto
<1> QED
  BY <1>1, <1>2, <1>3, <1>4, <1>5, <1>6, <1>7 DEF HttpRequest, HttpStep

(* A step of the master between waking and signalling keeps to the order   *)
(* of its loop: a property behind mprop stays read, one before it flagged. *)
LEMMA RoundStep ==
  ASSUME TypeOK, OnlySettable, MasterStep, hpc = "wait", mpc \notin {"parked", "signal"},
         mpc' = "signal" => mpc = "decide",
         NEW p \in GetAlt, RoundReads(p)
  PROVE  RoundReads(p)'
<1>a. /\ p \in Props /\ mprop \in 0 .. PropCnt /\ mmod \in 0 .. ModuleCount
      /\ PropCnt \in Nat \ {0} /\ ModuleCount \in Nat \ {0}
      /\ model \in [Modules -> [Props -> Values]] /\ shown \in [Modules -> [Props -> Values]]
  BY DisplayAssumption DEF TypeOK, DataTypeOK, MasterTypeOK
<1> USE <1>a DEF Props, Modules, RoundReads, ReadBack, Carried, flagVars, bitVars, httpVars, masterVars, postHistory
<1>1. CASE MasterDecide
  BY <1>1 DEF MasterDecide, StartAction
<1>2. CASE MasterScan
  BY <1>2 DEF MasterScan, StartAction
<1>3. CASE CommRead
  BY <1>3 DEF CommRead
<1>4. CASE CommWrite \/ CommBroadcast
  BY <1>4 DEF CommWrite, CommBroadcast
<1>5. CASE CommOk \/ CommFail
  <2>1. PICK S \in SUBSET OnWire : Delivered(S)
    BY <1>5 DEF CommOk, CommFail
  <2>2. mpc = "comm" /\ mprop \in Props /\ UNCHANGED <<model, readRequired>>
    BY <1>5 DEF CommOk, CommFail, MasterGoto, TypeOK, MasterTypeOK
  <2>3. \A m \in Modules : shown'[m][p] = IF m \in S /\ p = mprop THEN wire[m] ELSE shown[m][p]
    BY <1>a, <2>1, <2>2, DeliveredEffect
  <2>4. p = mprop => S = {}
    BY <2>1, <2>2 DEF OnlySettable, OnWire
  <2>5. \A m \in Modules : shown'[m][p] = shown[m][p]
    BY <2>3, <2>4
  <2>6. CASE CommOk
    BY <2>2, <2>5, <2>6 DEF CommOk, MasterGoto
  <2>7. CASE CommFail
    <3>1. mpc' = "comm" /\ mmod' = 0 /\ UNCHANGED <<mprop, mact>>
      BY <2>2, <2>7 DEF CommFail
    <3> QED
      BY <2>2, <2>5, <3>1
  <2> QED
    BY <1>5, <2>6, <2>7
<1>6. CASE DoneReadLoad \/ DoneReadStore
  BY <1>6 DEF DoneReadLoad, DoneReadStore, MasterGoto
<1>7. CASE DoneWriteLoad \/ DoneWriteStore \/ DoneDirtyLoad
  BY <1>7 DEF DoneWriteLoad, DoneWriteStore, DoneDirtyLoad, MasterGoto
<1>8. CASE DoneDirtyStore
  BY <1>8 DEF DoneDirtyStore
<1>9. CASE MasterWake \/ MasterSignal
  BY <1>9 DEF MasterWake, MasterSignal, MasterGoto
<1> QED
  BY <1>1, <1>2, <1>3, <1>4, <1>5, <1>6, <1>7, <1>8, <1>9 DEF MasterStep

(* The master's steps while a trusted GET waits for its round.             *)
LEMMA MasterServesGet ==
  ASSUME TypeOK, OnlySettable, IndicesReset, RoundBits, RoundOfGet, MasterStep, mpc' = "signal" => mpc = "decide"
  PROVE  RoundOfGet'
<1>1. UNCHANGED httpVars
  BY DEF MasterStep, MasterWake, MasterDecide, MasterScan, MasterSignal, CommRead, CommWrite, CommBroadcast, CommOk,
    CommFail, DoneReadLoad, DoneReadStore, DoneWriteLoad, DoneWriteStore, DoneDirtyLoad, DoneDirtyStore
<1>2. mpc = "parked" => MasterWake
  BY DEF MasterStep, MasterDecide, MasterScan, MasterSignal, CommRead, CommWrite, CommBroadcast, CommOk,
    CommFail, DoneReadLoad, DoneReadStore, DoneWriteLoad, DoneWriteStore, DoneDirtyLoad, DoneDirtyStore, MasterGoto
<1>3. hpc = "wait"
  BY <1>2 DEF RoundOfGet, RoundBits, MasterWake
<1>4. CASE mpc = "parked"
  <2>1. /\ mpc' = "decide" /\ mprop' = 0 /\ readRequired' = readRequired /\ GetAlt \subseteq readRequired
    BY <1>2, <1>3, <1>4 DEF MasterWake, MasterGoto, RoundOfGet, IndicesReset, flagVars
  <2>2. \A p \in GetAlt : RoundReads(p)'
    BY <2>1, DisplayAssumption DEF RoundReads, Props, Carried
  <2> QED
    BY <1>1, <1>3, <2>1, <2>2 DEF RoundOfGet, httpVars
<1>5. CASE mpc = "signal"
  <2>1. mpc' = "parked" /\ UNCHANGED <<desyncBit, model, shown, readRequired>> /\ ~desyncBit
    BY <1>3, <1>5 DEF MasterStep, MasterWake, MasterDecide, MasterScan, MasterSignal, CommRead, CommWrite, CommBroadcast,
      CommOk, CommFail, DoneReadLoad, DoneReadStore, DoneWriteLoad, DoneWriteStore, DoneDirtyLoad, DoneDirtyStore,
      MasterGoto, RoundBits, flagVars
  <2>2. \A p \in GetAlt : ReadBack(p)'
    BY <1>3, <1>5, <2>1 DEF RoundOfGet, RoundReads, ReadBack
  <2> QED
    BY <1>1, <1>3, <2>1, <2>2 DEF RoundOfGet, httpVars
<1>6. CASE mpc \notin {"parked", "signal"}
  <2>1. mpc' # "parked"
    BY <1>6 DEF MasterStep, MasterWake, MasterDecide, MasterScan, MasterSignal, CommRead, CommWrite, CommBroadcast,
      CommOk, CommFail, DoneReadLoad, DoneReadStore, DoneWriteLoad, DoneWriteStore, DoneDirtyLoad, DoneDirtyStore,
      MasterGoto, StartAction, masterVars
  <2>2. \A p \in GetAlt : RoundReads(p)'
    BY <1>3, <1>6, RoundStep DEF RoundOfGet
  <2> QED
    BY <1>1, <1>3, <2>1, <2>2 DEF RoundOfGet, httpVars
<1> QED
  BY <1>4, <1>5, <1>6

(* A step of either task that leaves the GET trusted keeps what is known   *)
(* of its round.                                                           *)
LEMMA TrustedStep ==
  ASSUME FreshInv, Next
  PROVE  TrustedRound'
<1> SUFFICES ASSUME trusted' PROVE RoundBits' /\ RoundOfGet'
  BY DEF TrustedRound
<1>1. TypeOK /\ OnlySettable /\ IndicesReset /\ TrustedRound
  BY DEF FreshInv
<1>2. RoundBits'
  BY <1>1, BitsStep
<1>3. CASE GetBegin
  <2>1. mpc = "parked" /\ mpc' = mpc /\ hop' = "get" /\ hpc' = "mark" /\ hprop' = 0 /\ hpc = "idle"
    BY <1>1, <1>3 DEF GetBegin, HttpGoto, IndicesReset, masterVars
  <2>2. \A p \in GetAlt : ~(p < 0)
    BY DisplayAssumption DEF Props
  <2> QED
    BY <1>2, <2>1, <2>2 DEF RoundOfGet
<1>4. CASE ~GetBegin
  <2>1. RoundBits /\ RoundOfGet
    BY <1>1, <1>4, TrustKept DEF TrustedRound
  <2>2. CASE HttpRequest \/ HttpStep
    <3>0. ~RequestOver
      BY DEF RequestOver
    <3>1. hpc' # "idle"
      BY <1>4, <2>1, <2>2, <3>0 DEF RoundOfGet, HttpRequest, HttpStep, PostBegin, PostRefused, PostSet, GetMarkLoad,
        GetMarkStore, GetReply, PostDirtyLoad, PostDirtyStore, PostWriteLoad, PostWriteStore, PostEnd, SynchronizeClear,
        SynchronizeSet, SynchronizeWoken, SynchronizeExpired, HttpGoto, httpVars
    <3> QED
      BY <1>1, <1>2, <2>1, <2>2, <3>1, GetStep
  <2>3. CASE MasterStep
    <3>1. mpc' = "signal" => mpc = "decide" \/ CommFail
      BY <2>3 DEF MasterStep, MasterWake, MasterDecide, MasterScan, MasterSignal, CommRead, CommWrite, CommBroadcast,
        CommOk, DoneReadLoad, DoneReadStore, DoneWriteLoad, DoneWriteStore, DoneDirtyLoad, DoneDirtyStore, MasterGoto,
        StartAction
    <3>2. CommFail => mpc' = mpc /\ mpc = "comm"
      BY DEF CommFail
    <3>3. mpc' = "signal" => mpc = "decide"
      BY <3>1, <3>2
    <3> QED
      BY <1>1, <1>2, <2>1, <2>3, <3>3, MasterServesGet
  <2> QED
    BY <1>2, <2>2, <2>3 DEF Next
<1> QED
  BY <1>2, <1>3, <1>4

(* FreshInv holds in every reachable state.                                *)
LEMMA FreshInvariant == Spec => []FreshInv
<1>1. Init => FreshInv
  <2> SUFFICES ASSUME Init PROVE FreshInv
    OBVIOUS
  <2>1. OnlySettable /\ IndicesReset
    BY DEF Init, MasterInit, OnlySettable, IndicesReset
  <2>2. TrustedRound
    BY DEF Init, TrustedRound
  <2> QED
    BY <2>1, <2>2, InitIInv DEF FreshInv, IInv
<1>2. FreshInv /\ IInv /\ IInv' /\ [Next]_vars => FreshInv'
  <2> SUFFICES ASSUME FreshInv, IInv', [Next]_vars PROVE FreshInv'
    OBVIOUS
  <2>1. TypeOK'
    BY DEF IInv
  <2>2. CASE Next
    BY <2>1, <2>2, SettableStep, IndicesStep, TrustedStep DEF FreshInv
  <2>3. CASE UNCHANGED vars
    <3> USE <2>3 DEF FreshInv, vars, flagVars, bitVars, httpVars, masterVars, postHistory
    <3>1. OnlySettable' /\ IndicesReset'
      BY DEF OnlySettable, IndicesReset
    <3>2. TrustedRound'
      BY DEF TrustedRound, RoundBits, RoundOfGet, RoundReads, ReadBack, Carried
    <3> QED
      BY <2>1, <3>1, <3>2
  <2> QED
    BY <2>2, <2>3
<1> QED
  BY <1>1, <1>2, InvariantHolds, PTL DEF Spec

(* A GET that met a parked master, and whose round gave nothing up, answers *)
(* with what the modules hold, for any number of modules and properties: no *)
(* order of the two event bits lets module_api_get_handler be woken by an  *)
(* earlier round, or before the last property has been read.               *)
THEOREM RepliesAreFresh == Spec => []FreshReply
<1>1. FreshInv => FreshReply
  BY DEF FreshInv, TrustedRound, RoundOfGet, ReadBack, FreshReply
<1> QED
  BY <1>1, FreshInvariant, PTL

(* A module takes only the value last accepted for it and that property,   *)
(* for any number of modules, properties, values and attempts, whatever is *)
(* broadcast and however often an attempt reaches part of the chain.       *)
THEOREM OnlyAcceptedIsShown == Spec => ShowsOnlyAccepted
<1> DEFINE Shows == \A m \in Modules, p \in Props \ disturbed :
                      shown'[m][p] # shown[m][p] => shown'[m][p] = wanted[m][p]
<1>1. IInv /\ FreshInv /\ [Next]_vars => [Shows]_vars
  BY ShownStep DEF FreshInv
<1> QED
  BY <1>1, InvariantHolds, FreshInvariant, PTL DEF Spec, ShowsOnlyAccepted
================================================================================
