---------------------------- MODULE StartupProofs ----------------------------
(***************************************************************************)
(* Proofs about Startup: LoadedFirst, in whatever order the processes are  *)
(* started, however often, and whatever earlier runs left behind.  The     *)
(* argument is about the set under SEMKEY3.  Once the engine has removed   *)
(* what it found there, what is there is of this run, and only the book    *)
(* publisher raises it, after its load.                                    *)
(*                                                                         *)
(* Then TypeOK, and for a start in order Connected and Fresh: who makes    *)
(* the object under a key, and at which step, is read off the programs     *)
(* (StepOf), and what a step makes of one key's object (Effect) is all     *)
(* that the invariants need (BoundInv, ConnectInv).                        *)
(***************************************************************************)
EXTENDS Startup, TLAPS

\* The set that the engine waits on.
Gate == object["SEMKEY3"]
GateOwned == "SEMKEY3" \notin foreign
EngineAt == pc["matcheng"]
PublisherAt == pc["bookpub"]

\* What counts of the engine's program, from the second step on the set.
LEMMA EngineProgram ==
  /\ Len(MatchEng) = 25
  /\ MatchEng[21] = Op("get", "SEMKEY3")
  /\ MatchEng[22] = Op("remove", "SEMKEY3")
  /\ MatchEng[23] = Op("get", "SEMKEY3")
  /\ MatchEng[24] = Op("load", "t1")
  /\ MatchEng[25] = Op("await", "SEMKEY3")
  BY DEF MatchEng, Renew, Get, Op

LEMMA PublisherProgram ==
  /\ Len(BookPub) = 5
  /\ BookPub[4] = Op("load", "t1")
  /\ BookPub[5] = Op("raise", "SEMKEY3")
  BY DEF BookPub, Get, Op

\* Nobody else raises it, nor does the publisher before its load.
LEMMA EngineRaisesOthers ==
  \A i \in 1 .. 25 : MatchEng[i].op = "raise" => MatchEng[i].key # "SEMKEY3"
  BY DEF MatchEng, Renew, Get, Op

LEMMA ManagerRaisesOthers ==
  \A i \in 1 .. Len(ConnMgr) :
     ConnMgr[i].op = "raise" => ConnMgr[i].key # "SEMKEY3"
  BY DEF ConnMgr, Renew, Get, Op

LEMMA RestRaiseNothing ==
  /\ \A i \in 1 .. Len(Acks) : Acks[i].op # "raise"
  /\ \A i \in 1 .. Len(TradePub) : TradePub[i].op # "raise"
  /\ \A i \in 1 .. Len(RptEng) : RptEng[i].op # "raise"
  /\ \A i \in 1 .. 4 : BookPub[i].op # "raise"
  BY DEF Acks, TradePub, RptEng, BookPub, Renew, Get, Op

LEMMA Distinct ==
  /\ Processes = {"connmgr", "matcheng", "tradepub", "bookpub", "rpteng", "acks"}
  /\ Program["matcheng"] = MatchEng /\ Program["bookpub"] = BookPub
  BY DEF Processes, Order, ToSet, Program

LEMMA OnlyPublisherRaises ==
  ASSUME NEW p \in Processes, NEW i \in 1 .. Len(Program[p]),
         Program[p][i].op = "raise", Program[p][i].key = "SEMKEY3"
  PROVE  p = "bookpub" /\ i = 5
<1>1. CASE p = "matcheng"
  BY <1>1, EngineProgram, EngineRaisesOthers, Distinct
<1>2. CASE p = "connmgr"
  BY <1>2, ManagerRaisesOthers DEF Program
<1>3. CASE p \in {"acks", "tradepub", "rpteng"}
  BY <1>3, RestRaiseNothing DEF Program, Op
<1>4. CASE p = "bookpub"
  <2>1. Program[p] = BookPub /\ i \in 1 .. 5
    BY <1>4, PublisherProgram, Distinct
  <2>2. i \notin 1 .. 4
    BY <2>1, RestRaiseNothing
  <2>3. QED
    BY <1>4, <2>1, <2>2
<1>5. QED
  BY <1>1, <1>2, <1>3, <1>4, Distinct

LEMMA ProgramLengths == \A p \in Processes : Len(Program[p]) \in Nat
  BY Distinct, EngineProgram, PublisherProgram
  DEF Program, ConnMgr, Acks, TradePub, RptEng, Renew, Get
-----------------------------------------------------------------------------
(* The inductive invariant *)

Object == [n : Nat, there : BOOLEAN, new : BOOLEAN, value : Nat]

Places == {at \in [Processes -> Nat] :
             \A p \in Processes : at[p] <= Len(Program[p]) + 1}

StateType ==
  /\ object \in [Keys -> Object]
  /\ id \in [Processes -> [Keys -> Nat]]
  /\ pc \in Places

\* Once the engine has looked the set up, it is the engine's or of this run;
\* once it has removed it, what is there is of this run.
GateIsNew ==
  /\ EngineAt = 22 /\ Gate.there => Gate.new \/ Gate.n = id["matcheng"]["SEMKEY3"]
  /\ EngineAt > 22 /\ Gate.there => Gate.new

\* A set of this run is up only after the publisher's load.
GateOpensLate == Gate.there /\ Gate.new /\ Gate.value > 0 => "bookpub" \in loaded

LoadInv ==
  /\ StateType
  /\ GateOwned => GateIsNew /\ GateOpensLate
  /\ PublisherAt > 4 => "bookpub" \in loaded
  /\ EngineAt > 24 => "matcheng" \in loaded
  /\ GateOwned /\ EngineAt > 25 => "bookpub" \in loaded

LEMMA NamedExist ==
  /\ "matcheng" \in Processes /\ "bookpub" \in Processes
  /\ "acks" \in Processes /\ "SEMKEY3" \in Keys
  BY Distinct DEF Keys

LEMMA PlaceSet ==
  ASSUME NEW at \in Places, NEW p, NEW new \in Nat,
         p \in Processes => new <= Len(Program[p]) + 1
  PROVE  [at EXCEPT ![p] = new] \in Places
<1>1. [at EXCEPT ![p] = new] \in [Processes -> Nat]
  BY DEF Places
<1>2. ASSUME NEW q \in Processes
      PROVE  [at EXCEPT ![p] = new][q] <= Len(Program[q]) + 1
  BY DEF Places
<1>3. QED
  BY <1>1, <1>2 DEF Places

\* An object that an operation may leave.
LEMMA ObjectSet ==
  ASSUME NEW o \in [Keys -> Object], NEW k \in Keys
  PROVE  /\ [o EXCEPT ![k].there = FALSE] \in [Keys -> Object]
         /\ [o EXCEPT ![k].value = @ + 1] \in [Keys -> Object]
         /\ [o EXCEPT ![k].value = @ - 1] \in [Keys -> Object] \/ o[k].value = 0
         /\ [o EXCEPT ![k] = [n |-> o[k].n + 1, there |-> TRUE, new |-> TRUE,
                              value |-> 0]] \in [Keys -> Object]
<1>1. o[k] \in Object
  OBVIOUS
<1>2. [o[k] EXCEPT !.there = FALSE] \in Object
  BY <1>1 DEF Object
<1>3. [o[k] EXCEPT !.value = o[k].value + 1] \in Object
  BY <1>1 DEF Object
<1>4. [o[k] EXCEPT !.value = o[k].value - 1] \in Object \/ o[k].value = 0
  <2>1. o[k].value \in Nat
    BY <1>1 DEF Object
  <2>2. o[k].value # 0 => o[k].value - 1 \in Nat
    BY <2>1
  <2>3. QED
    BY <1>1, <2>2 DEF Object
<1>5. [n |-> o[k].n + 1, there |-> TRUE, new |-> TRUE, value |-> 0] \in Object
  BY <1>1 DEF Object
<1>6. \A x \in Object : [o EXCEPT ![k] = x] \in [Keys -> Object]
  OBVIOUS
<1>7. QED
  BY <1>2, <1>3, <1>4, <1>5, <1>6

\* A key that is none changes nothing.
LEMMA OutsideSet ==
  ASSUME NEW o \in [Keys -> Object], NEW k, k \notin Keys, NEW x
  PROVE  [o EXCEPT ![k] = x] = o
  OBVIOUS

LEMMA InitLoad == Init => LoadInv
<1> SUFFICES ASSUME Init PROVE LoadInv
  OBVIOUS
<1>1. StateType
  BY ProgramLengths DEF Init, StateType, Object, Places, Old, Nothing, NothingHeld
<1>2. EngineAt = 0 /\ PublisherAt = 0
  BY NamedExist DEF Init, EngineAt, PublisherAt
<1>3. ~Gate.new
  BY NamedExist DEF Init, Gate, Old, Nothing
<1>4. QED
  BY <1>1, <1>2, <1>3 DEF LoadInv, GateIsNew, GateOpensLate

\* After a start of one process nothing else is different.
LEMMA StartKeeps ==
  ASSUME LoadInv, Start
  PROVE  LoadInv'
<1>1. PICK i \in 1 .. Len(Order) :
        /\ ~Started(Order[i]) /\ pc' = [pc EXCEPT ![Order[i]] = 1]
        /\ UNCHANGED <<object, id, loaded, round, foreign, astray>>
  BY DEF Start
<1>2. StateType'
  <2>1. pc' \in Places
    <3>1. Order[i] \in Processes => 1 <= Len(Program[Order[i]]) + 1
      BY ProgramLengths
    <3>2. pc \in Places
      BY DEF LoadInv, StateType
    <3>3. [pc EXCEPT ![Order[i]] = 1] \in Places
      BY <3>1, <3>2, PlaceSet
    <3>4. QED
      BY <1>1, <3>3
  <2>2. QED
    BY <1>1, <2>1 DEF LoadInv, StateType
<1>3. /\ EngineAt' \in {EngineAt, 1}
      /\ PublisherAt' \in {PublisherAt, 1}
  BY <1>1, NamedExist DEF LoadInv, StateType, Places, EngineAt, PublisherAt
<1>4. EngineAt \in Nat /\ PublisherAt \in Nat
  BY NamedExist DEF LoadInv, StateType, Places, EngineAt, PublisherAt
<1>5. UNCHANGED <<Gate, GateOwned, loaded, id>>
  BY <1>1 DEF Gate, GateOwned
<1>6. QED
  BY <1>2, <1>3, <1>4, <1>5 DEF LoadInv, GateIsNew, GateOpensLate

LEMMA StopKeeps ==
  ASSUME LoadInv, StopAll
  PROVE  LoadInv'
<1>1. PICK clean \in {{}, {p \in ToSet(Order) : Ready(p) \/ (p = "connmgr" /\ Started(p))}} :
        LET by == clean \cup (IF "connmgr" \in clean THEN {"acks"} ELSE {})
            Gone(k) == k \notin foreign
                       /\ \E p \in by : k \in HandlerRemoves[p] /\ Holds(p, k)
        IN  object' = [k \in Keys |-> IF ~object[k].there \/ Gone(k) THEN Nothing
                                      ELSE Old(object[k].value)]
  BY DEF StopAll
<1>2. \A k \in Keys : object'[k] \in {Nothing, Old(object[k].value)}
  BY <1>1
<1>3. DOMAIN object' = Keys /\ object' = [k \in Keys |-> object'[k]]
  BY <1>1
<1>4. StateType'
  <2>1. ASSUME NEW k \in Keys PROVE object'[k] \in Object
    <3>1. object[k].value \in Nat
      BY DEF LoadInv, StateType, Object
    <3>2. Nothing \in Object /\ Old(object[k].value) \in Object
      BY <3>1 DEF Nothing, Old, Object
    <3>3. QED
      BY <1>2, <3>2
  <2>2. object' \in [Keys -> Object]
    BY <1>3, <2>1
  <2>3. QED
    BY <2>2, ProgramLengths DEF StopAll, StateType, Places, NothingHeld
<1>5. EngineAt' = 0 /\ PublisherAt' = 0
  BY NamedExist DEF StopAll, EngineAt, PublisherAt
<1>6. ~Gate'.new
  BY <1>2, NamedExist DEF Gate, Nothing, Old
<1>7. QED
  BY <1>4, <1>5, <1>6 DEF LoadInv, GateIsNew, GateOpensLate
-----------------------------------------------------------------------------
(* The steps of the processes *)

\* A process that does something is within its program.
LEMMA AtAStep ==
  ASSUME StateType, NEW p \in Processes, NEW op, Does(p, op)
  PROVE  /\ pc[p] \in 1 .. Len(Program[p])
         /\ op = Program[p][pc[p]].op
  BY ProgramLengths DEF StateType, Places, Does, Started, Ready

\* Where the engine and the publisher are after a step of p.
Moves(p) ==
  /\ EngineAt' = IF p = "matcheng" THEN EngineAt + 1 ELSE EngineAt
  /\ PublisherAt' = IF p = "bookpub" THEN PublisherAt + 1 ELSE PublisherAt
  /\ foreign' = foreign /\ pc' \in Places

LEMMA StepMoves ==
  ASSUME StateType, NEW p \in Processes, Step(p)
  PROVE  Moves(p)
<1>1. pc[p] \in 1 .. Len(Program[p])
  BY AtAStep DEF Step, Lookup, RemoveId, Raise, Await, Load, Spawn
<1>2. pc[p] + 1 \in Nat /\ pc[p] + 1 <= Len(Program[p]) + 1
  BY <1>1, ProgramLengths DEF StateType, Places
<1>3. [pc EXCEPT ![p] = pc[p] + 1] \in Places
  BY <1>2, PlaceSet DEF StateType
<1>4. CASE Goes(p)
  BY <1>3, <1>4, NamedExist DEF Goes, Moves, EngineAt, PublisherAt, StateType, Places
<1>5. CASE Spawn(p)
  <2>1. pc' = [[pc EXCEPT ![p] = pc[p] + 1] EXCEPT !["acks"] = 1] /\ foreign' = foreign
    BY <1>5 DEF Spawn
  <2>2. pc' \in Places
    <3>1. "acks" \in Processes => 1 <= Len(Program["acks"]) + 1
      BY ProgramLengths
    <3>2. QED
      BY <1>3, <2>1, <3>1, PlaceSet
  <2>3. QED
    BY <2>1, <2>2, NamedExist DEF Moves, EngineAt, PublisherAt, StateType, Places
<1>6. QED
  BY <1>4, <1>5 DEF Step, Lookup, RemoveId, Raise, Await, Load

\* What a process at a step of its program does.
LEMMA EngineDoes ==
  ASSUME NEW op, Does("matcheng", op), StateType
  PROVE  /\ EngineAt \in 1 .. 25
         /\ op = MatchEng[EngineAt].op /\ KeyOf("matcheng") = MatchEng[EngineAt].key
  BY AtAStep, EngineProgram, Distinct, NamedExist DEF KeyOf, EngineAt

LEMMA PublisherDoes ==
  ASSUME NEW op, Does("bookpub", op), StateType
  PROVE  /\ PublisherAt \in 1 .. 5
         /\ op = BookPub[PublisherAt].op /\ KeyOf("bookpub") = BookPub[PublisherAt].key
  BY AtAStep, PublisherProgram, Distinct, NamedExist DEF KeyOf, PublisherAt

LEMMA LookupKeeps ==
  ASSUME LoadInv, NEW p \in Processes, Lookup(p), Moves(p)
  PROVE  LoadInv'
<1> DEFINE k == KeyOf(p)
<1> DEFINE made == [n |-> object[k].n + 1, there |-> TRUE, new |-> TRUE, value |-> 0]
<1>1. /\ object' = IF object[k].there THEN object ELSE [object EXCEPT ![k] = made]
      /\ id' = [id EXCEPT ![p][k] = object'[k].n]
      /\ UNCHANGED loaded
  BY DEF Lookup
<1>2. StateType'
  <2>1. object \in [Keys -> Object] /\ id \in [Processes -> [Keys -> Nat]]
    BY DEF LoadInv, StateType
  <2>2. [object EXCEPT ![k] = made] \in [Keys -> Object]
    BY <2>1, ObjectSet, OutsideSet
  <2>3. object' \in [Keys -> Object]
    BY <1>1, <2>1, <2>2
  <2>4. k \in Keys => object'[k].n \in Nat
    BY <2>3 DEF Object
  <2>5. id' \in [Processes -> [Keys -> Nat]]
    BY <1>1, <2>1, <2>4
  <2>6. QED
    BY <2>3, <2>5 DEF StateType, Moves
<1>3. \/ Gate' = Gate
      \/ Gate'.there /\ Gate'.new /\ Gate'.value = 0
  BY <1>1, NamedExist DEF Gate, LoadInv, StateType
<1>4. id'["matcheng"]["SEMKEY3"] =
        IF p = "matcheng" /\ k = "SEMKEY3" THEN Gate'.n ELSE id["matcheng"]["SEMKEY3"]
  BY <1>1, NamedExist DEF Gate, LoadInv, StateType
<1>5. p = "matcheng" => /\ EngineAt \in 1 .. 25 /\ MatchEng[EngineAt].op = "get"
                        /\ k = MatchEng[EngineAt].key
  BY EngineDoes DEF Lookup, LoadInv
<1>6. p = "bookpub" => /\ PublisherAt \in 1 .. 5 /\ BookPub[PublisherAt].op = "get"
  BY PublisherDoes DEF Lookup, LoadInv
<1>7. p = "matcheng" => EngineAt \notin {22, 24, 25}
  BY <1>5, EngineProgram DEF Op
<1>8. EngineAt = 21 /\ p = "matcheng" => k = "SEMKEY3"
  BY <1>5, EngineProgram DEF Op
<1>9. p = "bookpub" => PublisherAt \notin {4, 5}
  BY <1>6, PublisherProgram DEF Op
<1>10. EngineAt \in Nat /\ PublisherAt \in Nat
  BY NamedExist DEF LoadInv, StateType, Places, EngineAt, PublisherAt
<1>11. GateOwned' = GateOwned
  BY DEF Moves, GateOwned
<1>12. GateOwned => GateIsNew'
  BY <1>3, <1>4, <1>7, <1>8, <1>10 DEF LoadInv, GateIsNew, Moves
<1>13. QED
  BY <1>1, <1>2, <1>3, <1>7, <1>9, <1>10, <1>11, <1>12 DEF LoadInv, GateOpensLate, Moves

LEMMA RemoveKeeps ==
  ASSUME LoadInv, NEW p \in Processes, RemoveId(p), Moves(p)
  PROVE  LoadInv'
<1> DEFINE k == KeyOf(p)
<1>1. /\ object' = IF Holds(p, k) /\ k \notin foreign
                   THEN [object EXCEPT ![k].there = FALSE] ELSE object
      /\ UNCHANGED <<id, loaded>>
  BY DEF RemoveId
<1>2. StateType'
  BY <1>1, ObjectSet, OutsideSet DEF LoadInv, StateType, Moves
<1>3. Gate' = Gate \/ ~Gate'.there
  BY <1>1, NamedExist DEF Gate, LoadInv, StateType
<1>4. GateOwned /\ k = "SEMKEY3" /\ Gate'.there =>
        Gate' = Gate /\ Gate.n # id[p]["SEMKEY3"]
  BY <1>1, NamedExist DEF Gate, GateOwned, Holds, LoadInv, StateType
<1>5. p = "matcheng" => /\ EngineAt \in 1 .. 25 /\ MatchEng[EngineAt].op = "remove"
                        /\ k = MatchEng[EngineAt].key
  BY EngineDoes DEF RemoveId, LoadInv
<1>6. p = "bookpub" => PublisherAt \in 1 .. 5 /\ BookPub[PublisherAt].op = "remove"
  BY PublisherDoes DEF RemoveId, LoadInv
<1>7. p = "matcheng" => /\ EngineAt \notin {21, 24, 25}
                        /\ EngineAt = 22 => k = "SEMKEY3"
  BY <1>5, EngineProgram DEF Op
<1>8. p = "bookpub" => PublisherAt \notin {4, 5}
  BY <1>6, PublisherProgram DEF Op
<1>9. EngineAt \in Nat /\ PublisherAt \in Nat
  BY NamedExist DEF LoadInv, StateType, Places, EngineAt, PublisherAt
<1>10. GateOwned' = GateOwned
  BY DEF Moves, GateOwned
<1>11. GateOwned => GateIsNew'
  BY <1>1, <1>3, <1>4, <1>7, <1>9 DEF LoadInv, GateIsNew, Moves
<1>12. QED
  BY <1>1, <1>2, <1>3, <1>7, <1>8, <1>9, <1>10, <1>11 DEF LoadInv, GateOpensLate, Moves

LEMMA RaiseKeeps ==
  ASSUME LoadInv, NEW p \in Processes, Raise(p), Moves(p)
  PROVE  LoadInv'
<1> DEFINE k == KeyOf(p)
<1>1. /\ object' = IF Holds(p, k) THEN [object EXCEPT ![k].value = @ + 1] ELSE object
      /\ UNCHANGED <<id, loaded>>
  BY DEF Raise
<1>2. StateType'
  BY <1>1, ObjectSet, OutsideSet DEF LoadInv, StateType, Moves
<1>3. /\ Gate'.there = Gate.there /\ Gate'.new = Gate.new /\ Gate'.n = Gate.n
      /\ k # "SEMKEY3" => Gate'.value = Gate.value
  BY <1>1, NamedExist DEF Gate, LoadInv, StateType
<1>4. k = "SEMKEY3" => p = "bookpub" /\ PublisherAt = 5
  <2>1. /\ pc[p] \in 1 .. Len(Program[p])
        /\ Program[p][pc[p]].op = "raise" /\ k = Program[p][pc[p]].key
    BY AtAStep DEF Raise, KeyOf, LoadInv
  <2>2. QED
    BY <2>1, OnlyPublisherRaises DEF PublisherAt
<1>5. p = "matcheng" => EngineAt \in 1 .. 25 /\ MatchEng[EngineAt].op = "raise"
  BY EngineDoes DEF Raise, LoadInv
<1>6. p = "bookpub" => PublisherAt \in 1 .. 5 /\ BookPub[PublisherAt].op = "raise"
  BY PublisherDoes DEF Raise, LoadInv
<1>7. p = "matcheng" => EngineAt \notin {21, 22, 24, 25}
  BY <1>5, EngineProgram DEF Op
<1>8. p = "bookpub" => PublisherAt # 4
  BY <1>6, PublisherProgram DEF Op
<1>9. EngineAt \in Nat /\ PublisherAt \in Nat
  BY NamedExist DEF LoadInv, StateType, Places, EngineAt, PublisherAt
<1>10. GateOwned' = GateOwned
  BY DEF Moves, GateOwned
<1>11. GateOwned => GateIsNew'
  BY <1>1, <1>3, <1>7, <1>9 DEF LoadInv, GateIsNew, Moves
<1>12. GateOwned => GateOpensLate'
  BY <1>1, <1>3, <1>4 DEF LoadInv, GateOpensLate
<1>13. QED
  BY <1>1, <1>2, <1>7, <1>8, <1>9, <1>10, <1>11, <1>12 DEF LoadInv, Moves

LEMMA AwaitKeeps ==
  ASSUME LoadInv, NEW p \in Processes, Await(p), Moves(p)
  PROVE  LoadInv'
<1> DEFINE k == KeyOf(p)
<1>1. /\ Holds(p, k) /\ object[k].value > 0
      /\ object' = [object EXCEPT ![k].value = @ - 1]
      /\ UNCHANGED <<id, loaded>>
  BY DEF Await
<1>2. StateType'
  <2>1. object \in [Keys -> Object]
    BY DEF LoadInv, StateType
  <2>2. k \in Keys => object' \in [Keys -> Object]
    <3>1. k \in Keys => object[k].value \in Nat
      BY <2>1 DEF Object
    <3>2. k \in Keys => object[k].value # 0
      BY <1>1, <3>1
    <3>3. QED
      BY <1>1, <2>1, <3>2, ObjectSet
  <2>3. k \notin Keys => object' = object
    BY <1>1, <2>1
  <2>4. QED
    BY <1>1, <2>1, <2>2, <2>3 DEF LoadInv, StateType, Moves
<1>3. /\ Gate'.there = Gate.there /\ Gate'.new = Gate.new /\ Gate'.n = Gate.n
      /\ Gate'.value > 0 => Gate.value > 0
  BY <1>1, NamedExist DEF Gate, LoadInv, StateType, Object
<1>4. p = "matcheng" => /\ EngineAt \in 1 .. 25 /\ MatchEng[EngineAt].op = "await"
                        /\ k = MatchEng[EngineAt].key
  BY EngineDoes DEF Await, LoadInv
<1>5. p = "bookpub" => PublisherAt \in 1 .. 5 /\ BookPub[PublisherAt].op = "await"
  BY PublisherDoes DEF Await, LoadInv
<1>6. p = "matcheng" => /\ EngineAt \notin {21, 22, 24}
                        /\ EngineAt = 25 => k = "SEMKEY3"
  BY <1>4, EngineProgram DEF Op
<1>7. p = "bookpub" => PublisherAt \notin {4, 5}
  BY <1>5, PublisherProgram DEF Op
<1>8. EngineAt \in Nat /\ PublisherAt \in Nat
  BY NamedExist DEF LoadInv, StateType, Places, EngineAt, PublisherAt
<1>9. GateOwned' = GateOwned
  BY DEF Moves, GateOwned
<1>10. GateOwned => GateIsNew' /\ GateOpensLate'
  BY <1>1, <1>3, <1>6, <1>8 DEF LoadInv, GateIsNew, GateOpensLate, Moves
<1>11. GateOwned /\ p = "matcheng" /\ EngineAt = 25 => "bookpub" \in loaded
  BY <1>1, <1>6 DEF LoadInv, GateIsNew, GateOpensLate, Gate, Holds
<1>12. QED
  BY <1>1, <1>2, <1>6, <1>7, <1>8, <1>9, <1>10, <1>11 DEF LoadInv, Moves

\* A load, and the start of the thread, do not touch the set.
LEMMA LoadKeeps ==
  ASSUME LoadInv, NEW p \in Processes, Load(p) \/ Spawn(p), Moves(p)
  PROVE  LoadInv'
<1>1. /\ UNCHANGED <<object, id>>
      /\ loaded \subseteq loaded'
      /\ Load(p) => p \in loaded'
  BY DEF Load, Spawn
<1>2. StateType'
  BY <1>1 DEF LoadInv, StateType, Moves
<1>3. PICK op \in {"load", "spawn"} : Does(p, op) /\ (op = "load" => Load(p))
  BY DEF Load, Spawn
<1>4. p = "matcheng" => EngineAt \in 1 .. 25 /\ op = MatchEng[EngineAt].op
  BY <1>3, EngineDoes DEF LoadInv
<1>5. p = "bookpub" => PublisherAt \in 1 .. 5 /\ op = BookPub[PublisherAt].op
  BY <1>3, PublisherDoes DEF LoadInv
<1>6. p = "matcheng" => /\ EngineAt \notin {21, 22, 25}
                        /\ EngineAt = 24 => "matcheng" \in loaded'
  BY <1>1, <1>3, <1>4, EngineProgram DEF Op
<1>7. p = "bookpub" /\ PublisherAt = 4 => "bookpub" \in loaded'
  BY <1>1, <1>3, <1>5, PublisherProgram DEF Op
<1>8. EngineAt \in Nat /\ PublisherAt \in Nat
  BY NamedExist DEF LoadInv, StateType, Places, EngineAt, PublisherAt
<1>9. GateOwned' = GateOwned /\ Gate' = Gate
  BY <1>1 DEF Moves, GateOwned, Gate
<1>10. QED
  BY <1>1, <1>2, <1>6, <1>7, <1>8, <1>9 DEF LoadInv, GateIsNew, GateOpensLate, Moves

LEMMA StepLoad == LoadInv /\ [Next]_vars => LoadInv'
<1> SUFFICES ASSUME LoadInv, [Next]_vars PROVE LoadInv'
  OBVIOUS
<1>1. ASSUME NEW p \in Processes, Step(p) PROVE LoadInv'
  <2>1. Moves(p)
    BY <1>1, StepMoves DEF LoadInv
  <2>2. QED
    BY <1>1, <2>1, LookupKeeps, RemoveKeeps, RaiseKeeps, AwaitKeeps, LoadKeeps DEF Step
<1>2. CASE UNCHANGED vars
  BY <1>2 DEF vars, LoadInv, StateType, GateIsNew, GateOpensLate, Gate, GateOwned,
              EngineAt, PublisherAt
<1>3. QED
  BY <1>1, <1>2, StartKeeps, StopKeeps DEF Next

LEMMA LoadIsFirst == LoadInv => LoadedFirst
<1> SUFFICES ASSUME LoadInv, Ready("matcheng"), GateOwned
             PROVE  {"matcheng", "bookpub"} \subseteq loaded
  BY DEF LoadedFirst, GateOwned
<1>1. EngineAt = 26
  <2>1. EngineAt = Len(MatchEng) + 1
    BY Distinct DEF Ready, EngineAt
  <2>2. QED
    BY <2>1, EngineProgram
<1>2. QED
  BY <1>1 DEF LoadInv

\* In whatever order and however often the processes are started, the engine
\* (matcheng.cpp) handles no request before it and bookpub.cpp have read t1,
\* unless another user owns the set under SEMKEY3.
THEOREM BooksLoadFirst == FairSpec => []LoadedFirst
<1>1. FairSpec => []LoadInv
  BY InitLoad, StepLoad, PTL DEF FairSpec
<1>2. QED
  BY <1>1, LoadIsFirst, PTL
-----------------------------------------------------------------------------
(* Who makes what, and when *)

\* Who makes the object under a key anew, and at which step: the two before it
\* look up what is there and remove it.
Maker == [CMTOBP |-> "connmgr", SEMKEY2 |-> "connmgr", CMTOME |-> "connmgr",
          METOCM |-> "acks", METOTP |-> "matcheng", SEMKEY1 |-> "matcheng",
          METORE |-> "matcheng", METORESEM |-> "matcheng", SEMDB |-> "matcheng",
          SEMKEY3 |-> "matcheng"]

MadeAt == [CMTOBP |-> 3, SEMKEY2 |-> 6, CMTOME |-> 11, METOCM |-> 3, METOTP |-> 5,
           SEMKEY1 |-> 8, METORE |-> 11, METORESEM |-> 14, SEMDB |-> 17, SEMKEY3 |-> 23]

\* Who raises the first semaphore of a set, and at which step.
Sets == {"SEMKEY1", "SEMKEY2", "SEMKEY3", "METORESEM", "SEMDB"}

RaisedBy == [SEMKEY1 |-> "matcheng", SEMKEY2 |-> "connmgr", SEMKEY3 |-> "bookpub",
             METORESEM |-> "matcheng", SEMDB |-> "matcheng"]

RaisedAt == [SEMKEY1 |-> 18, SEMKEY2 |-> 7, SEMKEY3 |-> 5, METORESEM |-> 19, SEMDB |-> 20]

\* p looks up under k what another made.
Uses(p, k) ==
  \/ p = "matcheng" /\ Maker[k] \in {"connmgr", "acks"}
  \/ p \in {"tradepub", "bookpub", "rpteng"}

\* What the ith step of p does to the object under k.
Gets(p, i, k) ==
  \/ p = Maker[k] /\ i \in {MadeAt[k] - 2, MadeAt[k]}
  \/ p # Maker[k] /\ Uses(p, k)
Removes(p, i, k) == p = Maker[k] /\ i = MadeAt[k] - 1
Raises(p, i, k) == k \in Sets /\ p = RaisedBy[k] /\ i = RaisedAt[k]

\* The step s of p is one of those, and when it is time for one it is that.
StepOf(p, i, s) ==
  /\ s.op = "get" => s.key \in Keys /\ Gets(p, i, s.key)
  /\ s.op = "remove" => s.key \in Keys /\ Removes(p, i, s.key)
  /\ s.op = "raise" => s.key \in Keys /\ Raises(p, i, s.key)
  /\ s.op = "await" => s.key = "SEMKEY3" /\ p = "matcheng" /\ i = 25
  /\ s.op = "spawn" => p = "connmgr" /\ i = 8
  /\ \A k \in Keys :
       /\ p = Maker[k] /\ i \in {MadeAt[k] - 2, MadeAt[k]} => s.op = "get" /\ s.key = k
       /\ Removes(p, i, k) => s.op = "remove" /\ s.key = k
       /\ Raises(p, i, k) => s.op = "raise" /\ s.key = k
  /\ p = "matcheng" /\ i = 25 => s.op = "await" /\ s.key = "SEMKEY3"
  /\ p = "connmgr" /\ i = 8 => s.op = "spawn"
  /\ p = "bookpub" /\ i = 3 => s.op = "get" /\ s.key = "SEMKEY3"

LEMMA EngineTable ==
  /\ MatchEng[1] = Op("get", "CMTOME")
  /\ MatchEng[2] = Op("get", "METOCM")
  /\ MatchEng[3] = Op("get", "METOTP")
  /\ MatchEng[4] = Op("remove", "METOTP")
  /\ MatchEng[5] = Op("get", "METOTP")
  /\ MatchEng[6] = Op("get", "SEMKEY1")
  /\ MatchEng[7] = Op("remove", "SEMKEY1")
  /\ MatchEng[8] = Op("get", "SEMKEY1")
  /\ MatchEng[9] = Op("get", "METORE")
  /\ MatchEng[10] = Op("remove", "METORE")
  /\ MatchEng[11] = Op("get", "METORE")
  /\ MatchEng[12] = Op("get", "METORESEM")
  /\ MatchEng[13] = Op("remove", "METORESEM")
  /\ MatchEng[14] = Op("get", "METORESEM")
  /\ MatchEng[15] = Op("get", "SEMDB")
  /\ MatchEng[16] = Op("remove", "SEMDB")
  /\ MatchEng[17] = Op("get", "SEMDB")
  /\ MatchEng[18] = Op("raise", "SEMKEY1")
  /\ MatchEng[19] = Op("raise", "METORESEM")
  /\ MatchEng[20] = Op("raise", "SEMDB")
  /\ MatchEng[21] = Op("get", "SEMKEY3")
  /\ MatchEng[22] = Op("remove", "SEMKEY3")
  /\ MatchEng[23] = Op("get", "SEMKEY3")
  /\ MatchEng[24] = Op("load", "t1")
  /\ MatchEng[25] = Op("await", "SEMKEY3")
  BY DEF MatchEng, Renew, Get, Op

LEMMA EngineSteps == \A i \in 1 .. 25 : StepOf("matcheng", i, MatchEng[i])
<1> SUFFICES ASSUME NEW i \in 1 .. 25, NEW s, s = MatchEng[i]
             PROVE  StepOf("matcheng", i, s)
  OBVIOUS
<1>1. CASE i \in 1 .. 8
  BY <1>1, EngineTable DEF Op, StepOf, Gets, Removes, Raises, Uses, Maker, MadeAt,
                           Sets, RaisedBy, RaisedAt, Keys
<1>2. CASE i \in 9 .. 17
  BY <1>2, EngineTable DEF Op, StepOf, Gets, Removes, Raises, Uses, Maker, MadeAt,
                           Sets, RaisedBy, RaisedAt, Keys
<1>3. CASE i \in 18 .. 25
  BY <1>3, EngineTable DEF Op, StepOf, Gets, Removes, Raises, Uses, Maker, MadeAt,
                           Sets, RaisedBy, RaisedAt, Keys
<1>4. QED
  BY <1>1, <1>2, <1>3

LEMMA ManagerSteps ==
  Len(ConnMgr) = 11 /\ \A i \in 1 .. 11 : StepOf("connmgr", i, ConnMgr[i])
  BY DEF ConnMgr, Renew, Get, Op, StepOf, Gets, Removes, Raises, Uses, Maker, MadeAt,
         Sets, RaisedBy, RaisedAt, Keys

LEMMA OtherSteps ==
  /\ Len(Acks) = 3 /\ \A i \in 1 .. 3 : StepOf("acks", i, Acks[i])
  /\ \A i \in 1 .. 5 : StepOf("bookpub", i, BookPub[i])
  /\ Len(TradePub) = 2 /\ \A i \in 1 .. 2 : StepOf("tradepub", i, TradePub[i])
  /\ Len(RptEng) = 3 /\ \A i \in 1 .. 3 : StepOf("rpteng", i, RptEng[i])
  BY DEF Acks, BookPub, TradePub, RptEng, Renew, Get, Op, StepOf, Gets, Removes, Raises,
         Uses, Maker, MadeAt, Sets, RaisedBy, RaisedAt, Keys

LEMMA ProgramSteps ==
  /\ \A p \in Processes :
       /\ Len(Program[p]) \in Nat
       /\ \A i \in 1 .. Len(Program[p]) : StepOf(p, i, Program[p][i])
  /\ Len(Program["connmgr"]) = 11 /\ Len(Program["acks"]) = 3
  /\ Len(Program["matcheng"]) = 25 /\ Len(Program["bookpub"]) = 5
<1>1. /\ Program["connmgr"] = ConnMgr /\ Program["acks"] = Acks
      /\ Program["matcheng"] = MatchEng /\ Program["bookpub"] = BookPub
      /\ Program["tradepub"] = TradePub /\ Program["rpteng"] = RptEng
  BY Distinct DEF Program
<1>2. /\ Len(ConnMgr) = 11 /\ Len(Acks) = 3 /\ Len(MatchEng) = 25 /\ Len(BookPub) = 5
      /\ Len(TradePub) = 2 /\ Len(RptEng) = 3
  BY EngineProgram, PublisherProgram, ManagerSteps, OtherSteps
<1>3. ASSUME NEW p \in Processes, NEW i \in 1 .. Len(Program[p])
      PROVE  StepOf(p, i, Program[p][i])
  BY <1>1, <1>2, <1>3, Distinct, EngineSteps, ManagerSteps, OtherSteps
<1>4. \A p \in Processes : Len(Program[p]) \in Nat
  BY <1>1, <1>2, Distinct
<1>5. QED
  BY <1>1, <1>2, <1>3, <1>4

LEMMA Makers ==
  \A k \in Keys :
    /\ Maker[k] \in {"connmgr", "acks", "matcheng"} /\ Maker[k] \in Processes
    /\ MadeAt[k] \in 3 .. 23
    /\ Maker[k] = "connmgr" => MadeAt[k] < 12
    /\ Maker[k] = "acks" => MadeAt[k] < 4
    /\ k \in Sets => /\ RaisedBy[k] \in Processes \ {"acks"} /\ RaisedAt[k] \in 1 .. 25
                     /\ \/ RaisedBy[k] = Maker[k] /\ RaisedAt[k] > MadeAt[k]
                        \/ RaisedBy[k] = "bookpub" /\ k = "SEMKEY3" /\ RaisedAt[k] = 5
    /\ k = "SEMKEY3" => Maker[k] = "matcheng" /\ MadeAt[k] < 25
  BY Distinct DEF Keys, Maker, MadeAt, Sets, RaisedBy, RaisedAt
-----------------------------------------------------------------------------
(* What a step of a process makes of the object under a key *)

SameId(k) == \A q \in Processes : id'[q][k] = id[q][k]

\* It is not touched, and it is not time for p to touch it.
Untouched(p, k) ==
  /\ object'[k] = object[k] /\ SameId(k)
  /\ ~(p = Maker[k] /\ pc[p] \in {MadeAt[k] - 2, MadeAt[k]})
  /\ Removes(p, pc[p], k) => ~Holds(p, k) \/ k \in foreign
  /\ Raises(p, pc[p], k) => ~Holds(p, k)
  /\ ~(k = "SEMKEY3" /\ p = "matcheng" /\ pc[p] = 25)
  /\ ~(k = "SEMKEY3" /\ p = "bookpub" /\ pc[p] = 3)

Found(p, k) ==
  /\ Gets(p, pc[p], k) /\ ~Raises(p, pc[p], k)
  /\ IF object[k].there
     THEN object'[k] = object[k]
     ELSE /\ object'[k].n = object[k].n + 1 /\ object'[k].value = 0
          /\ object'[k].there /\ object'[k].new
  /\ id'[p][k] = object'[k].n
  /\ \A q \in Processes : q # p => id'[q][k] = id[q][k]

Removed(p, k) ==
  /\ Removes(p, pc[p], k) /\ Holds(p, k) /\ k \notin foreign
  /\ object'[k].n = object[k].n /\ object'[k].value = object[k].value
  /\ object'[k].new = object[k].new /\ ~object'[k].there
  /\ SameId(k)

\* It is as before but for its semaphore, which is by d higher.
Moved(k, d) ==
  /\ object'[k].n = object[k].n /\ object'[k].value = object[k].value + d
  /\ object'[k].new = object[k].new /\ object'[k].there = object[k].there
  /\ SameId(k)

Lifted(p, k) == Raises(p, pc[p], k) /\ Holds(p, k) /\ Moved(k, 1)

Passed(p, k) ==
  /\ p = "matcheng" /\ pc[p] = 25 /\ k = "SEMKEY3"
  /\ Holds(p, k) /\ object[k].value > 0 /\ Moved(k, -1)

Effect(p, k) ==
  Untouched(p, k) \/ Found(p, k) \/ Removed(p, k) \/ Lifted(p, k) \/ Passed(p, k)

\* Where the processes are after a step of p.
Advance(p) ==
  /\ pc[p] \in 1 .. Len(Program[p])
  /\ pc'[p] = pc[p] + 1
  /\ \A q \in Processes : q # p =>
       IF q = "acks" /\ p = "connmgr" /\ pc[p] = 8 THEN pc'[q] = 1 ELSE pc'[q] = pc[q]
  /\ UNCHANGED <<round, foreign, astray>>

LEMMA StepAdvances ==
  ASSUME StateType, NEW p \in Processes, Step(p)
  PROVE  Advance(p) /\ StepOf(p, pc[p], Program[p][pc[p]])
<1>1. pc[p] \in 1 .. Len(Program[p])
  BY AtAStep DEF Step, Lookup, RemoveId, Raise, Await, Load, Spawn
<1>2. StepOf(p, pc[p], Program[p][pc[p]])
  BY <1>1, ProgramSteps
<1>3. pc \in [Processes -> Nat]
  BY DEF StateType, Places
<1>4. CASE Goes(p) /\ Program[p][pc[p]].op # "spawn"
  <2>1. ~(p = "connmgr" /\ pc[p] = 8)
    BY <1>2, <1>4 DEF StepOf
  <2>2. QED
    BY <1>1, <1>2, <1>3, <1>4, <2>1 DEF Goes, Advance
<1>5. CASE Spawn(p)
  <2>1. p = "connmgr" /\ pc[p] = 8
    BY <1>2, <1>5 DEF Spawn, Does, StepOf
  <2>2. /\ pc' = [pc EXCEPT ![p] = pc[p] + 1, !["acks"] = 1]
        /\ UNCHANGED <<round, foreign, astray>>
    BY <1>5 DEF Spawn
  <2>3. QED
    BY <1>1, <1>2, <1>3, <2>1, <2>2, NamedExist DEF Advance
<1>6. QED
  BY <1>4, <1>5 DEF Step, Lookup, RemoveId, Raise, Await, Load, Does

\* What the step is about is the one thing it touches.
LEMMA ElseUntouched ==
  ASSUME NEW p \in Processes, NEW k \in Keys, StepOf(p, pc[p], Program[p][pc[p]]),
         Program[p][pc[p]].op \in {"load", "spawn"} \/ KeyOf(p) # k,
         object'[k] = object[k], SameId(k)
  PROVE  Untouched(p, k)
<1> DEFINE s == Program[p][pc[p]]
<1>1. s.op \in {"load", "spawn"} \/ s.key # k
  BY DEF KeyOf
<1>2. StepOf(p, pc[p], s)
  OBVIOUS
<1> HIDE DEF s
<1>3. /\ ~(p = Maker[k] /\ pc[p] \in {MadeAt[k] - 2, MadeAt[k]})
      /\ ~Removes(p, pc[p], k) /\ ~Raises(p, pc[p], k)
      /\ ~(k = "SEMKEY3" /\ p = "bookpub" /\ pc[p] = 3)
  BY <1>1, <1>2 DEF StepOf
<1>4. ~(k = "SEMKEY3" /\ p = "matcheng" /\ pc[p] = 25)
  BY <1>1, <1>2 DEF StepOf
<1>5. QED
  BY <1>3, <1>4 DEF Untouched

LEMMA StepEffect ==
  ASSUME StateType, NEW p \in Processes, Step(p), NEW k \in Keys
  PROVE  Effect(p, k)
<1> DEFINE i == pc[p]
           j == KeyOf(p)
           op == Program[p][pc[p]].op
<1>1. StepOf(p, pc[p], Program[p][pc[p]])
  BY StepAdvances
<1>2. /\ object \in [Keys -> Object] /\ id \in [Processes -> [Keys -> Nat]]
      /\ object[k] \in Object
  BY DEF StateType
<1>3. CASE Lookup(p)
  <2> DEFINE made == [n |-> object[j].n + 1, there |-> TRUE, new |-> TRUE, value |-> 0]
  <2>1. /\ op = "get"
        /\ object' = IF object[j].there THEN object ELSE [object EXCEPT ![j] = made]
        /\ id' = [id EXCEPT ![p][j] = object'[j].n]
    BY <1>3 DEF Lookup, Does
  <2>2. j \in Keys /\ Gets(p, pc[p], j) /\ ~Raises(p, pc[p], j)
    BY <1>1, <2>1 DEF StepOf, KeyOf
  <2> HIDE DEF j
  <2>3. CASE j = k
    <3>1. IF object[k].there THEN object' = object ELSE object'[k] = made
      BY <1>2, <2>1, <2>3
    <3>2. id'[p][k] = object'[k].n /\ \A q \in Processes : q # p => id'[q][k] = id[q][k]
      BY <1>2, <2>1, <2>3
    <3>3. QED
      BY <2>2, <2>3, <3>1, <3>2 DEF Effect, Found
  <2>4. CASE j # k
    <3>1. object'[k] = object[k] /\ SameId(k)
      BY <1>2, <2>1, <2>4 DEF SameId
    <3>2. QED
      BY <1>1, <2>4, <3>1, ElseUntouched DEF Effect, j
  <2>5. QED
    BY <2>3, <2>4
<1>4. CASE RemoveId(p)
  <2>1. /\ op = "remove" /\ id' = id
        /\ object' = IF Holds(p, j) /\ j \notin foreign
                     THEN [object EXCEPT ![j].there = FALSE] ELSE object
    BY <1>4 DEF RemoveId, Does
  <2>2. j \in Keys /\ Removes(p, pc[p], j)
    BY <1>1, <2>1 DEF StepOf, KeyOf
  <2>3. \A q \in Processes : id'[q][k] = id[q][k]
    BY <2>1
  <2> HIDE DEF j
  <2>4. CASE j = k /\ Holds(p, k) /\ k \notin foreign
    <3>1. /\ object'[k].n = object[k].n /\ object'[k].value = object[k].value
          /\ object'[k].new = object[k].new /\ ~object'[k].there
      BY <1>2, <2>1, <2>4 DEF Object
    <3>2. QED
      BY <2>2, <2>3, <2>4, <3>1 DEF Effect, Removed, SameId
  <2>5. CASE j = k /\ ~(Holds(p, k) /\ k \notin foreign)
    <3>1. object' = object
      BY <2>1, <2>5
    <3>2. Untouched(p, k)
      BY <1>1, <2>1, <2>3, <2>5, <3>1 DEF Untouched, SameId, StepOf
    <3>3. QED
      BY <3>2 DEF Effect
  <2>6. CASE j # k
    <3>1. object'[k] = object[k]
      BY <1>2, <2>1, <2>6
    <3>2. QED
      BY <1>1, <2>3, <2>6, <3>1, ElseUntouched DEF Effect, SameId, j
  <2>7. QED
    BY <2>4, <2>5, <2>6
<1>5. CASE Raise(p)
  <2>1. /\ op = "raise" /\ id' = id
        /\ object' = IF Holds(p, j) THEN [object EXCEPT ![j].value = @ + 1] ELSE object
    BY <1>5 DEF Raise, Does
  <2>2. j \in Keys /\ Raises(p, pc[p], j)
    BY <1>1, <2>1 DEF StepOf, KeyOf
  <2>3. \A q \in Processes : id'[q][k] = id[q][k]
    BY <2>1
  <2> HIDE DEF j
  <2>4. CASE j = k /\ Holds(p, k)
    <3>1. /\ object'[k].n = object[k].n /\ object'[k].value = object[k].value + 1
          /\ object'[k].new = object[k].new /\ object'[k].there = object[k].there
      BY <1>2, <2>1, <2>4 DEF Object
    <3>2. QED
      BY <2>2, <2>3, <2>4, <3>1 DEF Effect, Lifted, Moved, SameId
  <2>5. CASE j = k /\ ~Holds(p, k)
    <3>1. object' = object
      BY <2>1, <2>5
    <3>2. Untouched(p, k)
      BY <1>1, <2>1, <2>3, <2>5, <3>1 DEF Untouched, SameId, StepOf
    <3>3. QED
      BY <3>2 DEF Effect
  <2>6. CASE j # k
    <3>1. object'[k] = object[k]
      BY <1>2, <2>1, <2>6
    <3>2. QED
      BY <1>1, <2>3, <2>6, <3>1, ElseUntouched DEF Effect, SameId, j
  <2>7. QED
    BY <2>4, <2>5, <2>6
<1>6. CASE Await(p)
  <2>1. /\ op = "await" /\ id' = id /\ Holds(p, j) /\ object[j].value > 0
        /\ object' = [object EXCEPT ![j].value = @ - 1]
    BY <1>6 DEF Await, Does
  <2>2. j = "SEMKEY3" /\ p = "matcheng" /\ pc[p] = 25
    BY <1>1, <2>1 DEF StepOf, KeyOf
  <2>3. \A q \in Processes : id'[q][k] = id[q][k]
    BY <2>1
  <2> HIDE DEF j
  <2>4. CASE j = k
    <3>1. /\ object'[k].n = object[k].n /\ object'[k].value = object[k].value - 1
          /\ object'[k].new = object[k].new /\ object'[k].there = object[k].there
      BY <1>2, <2>1, <2>4 DEF Object
    <3>2. object'[k].value = object[k].value + (-1)
      BY <1>2, <3>1 DEF Object
    <3>3. QED
      BY <2>1, <2>2, <2>3, <2>4, <3>1, <3>2 DEF Effect, Passed, Moved, SameId
  <2>5. CASE j # k
    <3>1. object'[k] = object[k]
      BY <1>2, <2>1, <2>5
    <3>2. QED
      BY <1>1, <2>3, <2>5, <3>1, ElseUntouched DEF Effect, SameId, j
  <2>6. QED
    BY <2>4, <2>5
<1>7. CASE Load(p) \/ Spawn(p)
  <2>1. op \in {"load", "spawn"} /\ object' = object /\ id' = id
    BY <1>7 DEF Load, Spawn, Does
  <2>2. QED
    BY <1>1, <2>1, ElseUntouched DEF Effect, SameId
<1>8. QED
  BY <1>3, <1>4, <1>5, <1>6, <1>7 DEF Step
-----------------------------------------------------------------------------
(* What is bounded, in whatever order the processes are started *)

Raised(k) == k \in Sets /\ pc[RaisedBy[k]] > RaisedAt[k]
Lift(k) == IF Raised(k) THEN 1 ELSE 0

\* An object is made at most twice a run, once before the one that was there is
\* removed; it is raised at most once.
CountInv(k) ==
  /\ object[k].there => object[k].n >= 1
  /\ object[k].n <= (IF object[k].there THEN 1 ELSE 0) +
                    (IF pc[Maker[k]] >= MadeAt[k] THEN 1 ELSE 0)
  /\ object[k].value <= round + Lift(k)
  /\ \A p \in Processes : id[p][k] <= object[k].n

BoundInv ==
  /\ StateType
  /\ pc["connmgr"] <= 8 => pc["acks"] = 0
  /\ loaded \subseteq Processes /\ round \in 1 .. Rounds
  /\ foreign \in ForeignSets /\ astray \in Astray
  /\ \A k \in Keys : CountInv(k)

LEMMA ObjectFields ==
  ASSUME StateType, NEW k \in Keys
  PROVE  /\ object[k].n \in Nat /\ object[k].value \in Nat
         /\ object[k].there \in BOOLEAN /\ object[k].new \in BOOLEAN
         /\ \A p \in Processes : id[p][k] \in Nat
  BY DEF StateType, Object

LEMMA StepTyped ==
  ASSUME LoadInv, NEW p \in Processes, Step(p)
  PROVE  StateType'
<1>1. LoadInv'
  BY StepLoad DEF Next
<1>2. QED
  BY <1>1 DEF LoadInv

\* Further on, nothing is taken back but by the start of the thread.
LEMMA StepCounts ==
  ASSUME StateType, StateType', NEW p \in Processes, Advance(p), NEW k \in Keys,
         Effect(p, k), CountInv(k), pc["connmgr"] <= 8 => pc["acks"] = 0,
         round \in Nat
  PROVE  CountInv(k)'
<1>1. /\ object[k].n \in Nat /\ object[k].value \in Nat
      /\ object[k].there \in BOOLEAN
      /\ \A q \in Processes : id[q][k] \in Nat
  BY ObjectFields
<1>2. \A q \in Processes : pc[q] \in Nat /\ pc'[q] \in Nat
  BY DEF StateType, Places
<1>3. \A q \in Processes : pc'[q] >= pc[q]
  BY <1>2, Distinct DEF Advance
<1>4. /\ Maker[k] \in Processes /\ MadeAt[k] \in Nat
      /\ k \in Sets => RaisedBy[k] \in Processes /\ RaisedAt[k] \in Nat
  BY Makers, Distinct
<1>5. /\ pc[Maker[k]] >= MadeAt[k] => pc'[Maker[k]] >= MadeAt[k]
      /\ Raised(k) => Raised(k)'
  BY <1>2, <1>3, <1>4 DEF Raised
<1>6. Lift(k) \in {0, 1} /\ Lift(k)' \in {0, 1} /\ Lift(k)' >= Lift(k)
  BY <1>5 DEF Lift
<1>7. round' = round
  BY DEF Advance
<1>8. CASE Untouched(p, k)
  BY <1>1, <1>2, <1>4, <1>5, <1>6, <1>7, <1>8 DEF Untouched, SameId, CountInv
<1>9. CASE Found(p, k)
  BY <1>1, <1>2, <1>4, <1>5, <1>6, <1>7, <1>9 DEF Found, CountInv
<1>10. CASE Removed(p, k)
  <2>1. /\ object'[k].n = object[k].n /\ ~object'[k].there /\ object[k].there
        /\ object'[k].value = object[k].value
    BY <1>10 DEF Removed, Holds
  <2>2. pc'[Maker[k]] >= MadeAt[k] /\ pc[Maker[k]] < MadeAt[k]
    BY <1>2, <1>4, <1>10 DEF Removed, Removes, Advance
  <2>3. QED
    BY <1>1, <1>2, <1>4, <1>6, <1>7, <1>10, <2>1, <2>2 DEF Removed, SameId, CountInv
<1>11. CASE Lifted(p, k)
  <2>1. Lift(k) = 0 /\ Lift(k)' = 1
    BY <1>2, <1>4, <1>11 DEF Lifted, Raises, Raised, Lift, Advance
  <2>2. QED
    BY <1>1, <1>2, <1>4, <1>5, <1>7, <1>11, <2>1 DEF Lifted, Moved, SameId, CountInv
<1>12. CASE Passed(p, k)
  BY <1>1, <1>2, <1>4, <1>5, <1>6, <1>7, <1>12 DEF Passed, Moved, SameId, CountInv
<1>13. QED
  BY <1>8, <1>9, <1>10, <1>11, <1>12 DEF Effect

LEMMA StepBound ==
  ASSUME LoadInv, BoundInv, NEW p \in Processes, Step(p)
  PROVE  BoundInv'
<1>1. Advance(p) /\ StateType' /\ \A k \in Keys : Effect(p, k)
  BY StepAdvances, StepEffect, StepTyped DEF BoundInv
<1>2. \A k \in Keys : CountInv(k)'
  BY <1>1, StepCounts, StartupAssumption DEF BoundInv
<1>3. (pc["connmgr"] <= 8 => pc["acks"] = 0)'
  <2>1. /\ "connmgr" \in Processes /\ "acks" \in Processes
        /\ pc["connmgr"] \in Nat /\ pc["acks"] \in Nat
    BY Distinct DEF BoundInv, StateType, Places
  <2>2. pc["acks"] # 0 => pc["connmgr"] > 8
    BY <2>1 DEF BoundInv
  <2>3. CASE p = "acks"
    BY <1>1, <2>1, <2>2, <2>3 DEF Advance
  <2>4. CASE p = "connmgr"
    BY <1>1, <2>1, <2>2, <2>4 DEF Advance
  <2>5. CASE p # "acks" /\ p # "connmgr"
    BY <1>1, <2>1, <2>2, <2>5 DEF Advance
  <2>6. QED
    BY <2>3, <2>4, <2>5
<1>4. loaded' \subseteq Processes
  BY DEF Step, Lookup, RemoveId, Raise, Await, Load, Spawn, BoundInv
<1>5. QED
  BY <1>1, <1>2, <1>3, <1>4 DEF BoundInv, Advance

LEMMA InitBound == Init => BoundInv
<1> SUFFICES ASSUME Init PROVE BoundInv
  OBVIOUS
<1>1. StateType
  BY InitLoad DEF LoadInv
<1>2. ASSUME NEW k \in Keys PROVE CountInv(k)
  <2>1. object[k] = Old(1) \/ object[k] = Nothing
    BY DEF Init
  <2>2. pc[Maker[k]] = 0 /\ MadeAt[k] \in 3 .. 23
        /\ (k \in Sets => pc[RaisedBy[k]] = 0 /\ RaisedAt[k] \in 1 .. 25)
    BY Makers, Distinct DEF Init
  <2>3. ~Raised(k)
    BY <2>2 DEF Raised
  <2>4. \A p \in Processes : id[p][k] = 0
    BY DEF Init, NothingHeld
  <2>5. round = 1
    BY DEF Init
  <2>6. QED
    BY <2>1, <2>2, <2>3, <2>4, <2>5 DEF CountInv, Lift, Old, Nothing
<1>3. QED
  BY <1>1, <1>2, Distinct, StartupAssumption DEF Init, BoundInv, Astray

\* The first step is before all that is counted here.
FromFirst(a, b) ==
  \A n \in 1 .. 25 : (b > n <=> a > n) /\ (n > 1 => (b >= n <=> a >= n))

LEMMA FirstOnly ==
  ASSUME NEW a \in Nat, NEW b, b = a \/ (a = 0 /\ b = 1)
  PROVE  FromFirst(a, b)
  BY DEF FromFirst

LEMMA StartBound ==
  ASSUME LoadInv, BoundInv, Start
  PROVE  BoundInv'
<1>1. StateType'
  BY StartKeeps DEF LoadInv
<1>2. PICK i \in 1 .. Len(Order) :
        /\ ~Started(Order[i]) /\ pc' = [pc EXCEPT ![Order[i]] = 1]
        /\ UNCHANGED <<object, id, loaded, round, foreign, astray>>
  BY DEF Start
<1>3. Order[i] \in {"connmgr", "matcheng", "tradepub", "bookpub", "rpteng"}
  BY DEF Order
<1>4. /\ pc \in [Processes -> Nat] /\ Order[i] \in Processes
      /\ pc[Order[i]] = 0
  BY <1>2, <1>3, Distinct DEF BoundInv, StateType, Places, Started
<1>5. \A q \in Processes : pc[q] \in Nat /\ (pc'[q] = pc[q] \/ (pc[q] = 0 /\ pc'[q] = 1))
  BY <1>2, <1>4
<1>6. ASSUME NEW k \in Keys PROVE CountInv(k)'
  <2>1. \A q \in Processes : FromFirst(pc[q], pc'[q])
    BY <1>5, FirstOnly
  <2>2. pc[Maker[k]] >= MadeAt[k] <=> pc'[Maker[k]] >= MadeAt[k]
    <3>1. ASSUME NEW a \in Nat, NEW b \in Nat, FromFirst(a, b), NEW n \in 3 .. 23
          PROVE  a >= n <=> b >= n
      BY <3>1 DEF FromFirst
    <3>2. /\ FromFirst(pc[Maker[k]], pc'[Maker[k]]) /\ MadeAt[k] \in 3 .. 23
          /\ pc[Maker[k]] \in Nat /\ pc'[Maker[k]] \in Nat
      BY <1>5, <2>1, Makers
    <3>3. QED
      BY <3>1, <3>2
  <2>3. Raised(k)' <=> Raised(k)
    <3>1. k \in Sets => /\ FromFirst(pc[RaisedBy[k]], pc'[RaisedBy[k]])
                        /\ RaisedAt[k] \in 1 .. 25
      BY <2>1, Makers
    <3>2. QED
      BY <3>1 DEF FromFirst, Raised
  <2>4. Lift(k)' = Lift(k)
    BY <2>3 DEF Lift
  <2>5. QED
    BY <1>2, <2>2, <2>4 DEF CountInv, BoundInv
<1>7. (pc["connmgr"] <= 8 => pc["acks"] = 0)'
  <2>1. pc'["acks"] = pc["acks"]
    BY <1>2, <1>3, <1>4, Distinct
  <2>2. pc'["connmgr"] <= 8 => pc["connmgr"] <= 8
    BY <1>5, Distinct
  <2>3. QED
    BY <2>1, <2>2 DEF BoundInv
<1>8. QED
  BY <1>1, <1>2, <1>6, <1>7 DEF BoundInv

LEMMA StopBound ==
  ASSUME LoadInv, BoundInv, StopAll
  PROVE  BoundInv'
<1>1. StateType'
  BY StopKeeps DEF LoadInv
<1>2. /\ round' = round + 1 /\ round < Rounds /\ loaded' = {} /\ foreign' = foreign
      /\ astray' \in Astray /\ id' = NothingHeld
      /\ pc' = [q \in Processes |-> 0]
  BY DEF StopAll
<1>3. \A k \in Keys : object'[k] = Old(object[k].value) \/ object'[k] = Nothing
  <2>1. PICK clean \in {{}, {p \in ToSet(Order) :
                                Ready(p) \/ (p = "connmgr" /\ Started(p))}} :
        LET by == clean \cup (IF "connmgr" \in clean THEN {"acks"} ELSE {})
            Gone(k) == k \notin foreign
                       /\ \E p \in by : k \in HandlerRemoves[p] /\ Holds(p, k)
        IN  object' = [k \in Keys |-> IF ~object[k].there \/ Gone(k) THEN Nothing
                                      ELSE Old(object[k].value)]
    BY DEF StopAll
  <2>2. QED
    BY <2>1
<1>4. ASSUME NEW k \in Keys PROVE CountInv(k)'
  <2>1. object'[k] = Old(object[k].value) \/ object'[k] = Nothing
    BY <1>3
  <2>2. pc'[Maker[k]] = 0 /\ MadeAt[k] \in 3 .. 23
        /\ (k \in Sets => pc'[RaisedBy[k]] = 0 /\ RaisedAt[k] \in 1 .. 25)
    BY <1>2, Makers, Distinct
  <2>3. ~Raised(k)'
    BY <2>2 DEF Raised
  <2>4. Lift(k)' = 0 /\ Lift(k) \in {0, 1}
    BY <2>3 DEF Lift
  <2>5. \A p \in Processes : id'[p][k] = 0
    BY <1>2 DEF NothingHeld
  <2>6. object[k].value \in Nat /\ object[k].value <= round + Lift(k) /\ round \in Nat
    BY ObjectFields, StartupAssumption DEF BoundInv, CountInv
  <2>7. /\ \/ object'[k].n = 1 /\ object'[k].there
           \/ object'[k].n = 0 /\ ~object'[k].there
        /\ object'[k].value <= round + 1
    <3>1. CASE object'[k] = Old(object[k].value)
      <4>1. object'[k].n = 1 /\ object'[k].there = TRUE /\ object'[k].value = object[k].value
        BY <3>1 DEF Old
      <4>2. QED
        BY <2>4, <2>6, <4>1
    <3>2. CASE object'[k] = Nothing
      <4>1. object'[k].n = 0 /\ object'[k].there = FALSE /\ object'[k].value = 0
        BY <3>2 DEF Nothing
      <4>2. QED
        BY <2>6, <4>1
    <3>3. QED
      BY <2>1, <3>1, <3>2
  <2>8. QED
    BY <1>2, <2>2, <2>4, <2>5, <2>6, <2>7 DEF CountInv
<1>5. pc'["acks"] = 0
  BY <1>2, Distinct
<1>6. round' \in 1 .. Rounds
  BY <1>2, StartupAssumption DEF BoundInv
<1>7. QED
  BY <1>1, <1>2, <1>4, <1>5, <1>6 DEF BoundInv

LEMMA BoundIsType == BoundInv => TypeOK
<1> SUFFICES ASSUME BoundInv PROVE TypeOK
  OBVIOUS
<1>1. ASSUME NEW k \in Keys
      PROVE  object[k] \in [n : 0 .. 3, there : BOOLEAN, new : BOOLEAN,
                            value : 0 .. Rounds + 1]
  <2>1. object[k] \in Object /\ CountInv(k) /\ round \in 1 .. Rounds /\ Rounds \in Nat
    BY StartupAssumption DEF BoundInv, StateType
  <2>2. object[k].n \in 0 .. 3 /\ object[k].value \in 0 .. Rounds + 1
    BY <2>1 DEF CountInv, Lift, Object
  <2>3. QED
    BY <2>1, <2>2 DEF Object
<1>2. object \in [Keys -> [n : 0 .. 3, there : BOOLEAN, new : BOOLEAN,
                           value : 0 .. Rounds + 1]]
  BY <1>1 DEF BoundInv, StateType
<1>3. \A p \in Processes, k \in Keys : id[p][k] \in 0 .. object[k].n
  BY ObjectFields DEF BoundInv, CountInv
<1>4. \A p \in Processes : pc[p] \in 0 .. Len(Program[p]) + 1
  BY ProgramLengths DEF BoundInv, StateType, Places
<1>5. QED
  BY <1>2, <1>3, <1>4 DEF TypeOK, BoundInv

LEMMA NextBound == LoadInv /\ BoundInv /\ [Next]_vars => BoundInv'
<1> SUFFICES ASSUME LoadInv, BoundInv, [Next]_vars PROVE BoundInv'
  OBVIOUS
<1>1. CASE UNCHANGED vars
  BY <1>1 DEF vars, BoundInv, StateType, CountInv, Lift, Raised
<1>2. QED
  BY <1>1, StartBound, StopBound, StepBound DEF Next

\* The numbers of objects and the values of semaphores stay within the model's
\* bounds, whatever is started when and however the runs before ended.
THEOREM TypeCorrect == FairSpec => []TypeOK
  BY InitLoad, StepLoad, InitBound, NextBound, BoundIsType, PTL DEF FairSpec
-----------------------------------------------------------------------------
(* What is found, if each process is started when the one before waits *)

\* How high the semaphore is that was made in this run.
Level(k) == Lift(k) - (IF k = "SEMKEY3" /\ pc["matcheng"] > 25 THEN 1 ELSE 0)

\* The process that makes the object holds what it found until it removes it;
\* then nothing is there, unless it is another user's; then it holds the new
\* one, and whoever holds any holds that one.
MadeInv(k) ==
  /\ pc[Maker[k]] = MadeAt[k] - 1 => Holds(Maker[k], k)
  /\ pc[Maker[k]] = MadeAt[k] /\ k \notin foreign => ~object[k].there
  /\ pc[Maker[k]] > MadeAt[k] =>
       /\ Holds(Maker[k], k)
       /\ k \notin foreign => object[k].new /\ object[k].value = Level(k)
  /\ \A q \in Processes : q # Maker[k] /\ id[q][k] # 0 =>
       pc[Maker[k]] > MadeAt[k] /\ id[q][k] = id[Maker[k]][k]

\* Who has been started finds the ones before past what they make.
InOrder ==
  /\ pc["matcheng"] > 0 => pc["connmgr"] = 12 /\ pc["acks"] = 4
  /\ \A p \in {"tradepub", "bookpub", "rpteng"} : pc[p] > 0 => pc["matcheng"] >= 25

OrderedInv ==
  /\ InOrder
  /\ \A k \in Keys : MadeInv(k)
  /\ pc["bookpub"] > 3 => id["bookpub"]["SEMKEY3"] # 0

ConnectInv == astray = "none" => OrderedInv

LEMMA Counts ==
  ASSUME StateType
  PROVE  /\ \A q \in Processes : pc[q] \in Nat
         /\ pc["connmgr"] \in 0 .. 12 /\ pc["acks"] \in 0 .. 4
         /\ pc["matcheng"] \in 0 .. 26 /\ pc["bookpub"] \in 0 .. 6
         /\ pc["tradepub"] \in Nat /\ pc["rpteng"] \in Nat
<1>1. \A q \in Processes : pc[q] \in Nat /\ pc[q] <= Len(Program[q]) + 1
  BY DEF StateType, Places
<1>2. Len(Program["connmgr"]) = 11 /\ Len(Program["acks"]) = 3
      /\ Len(Program["matcheng"]) = 25 /\ Len(Program["bookpub"]) = 5
  BY ProgramSteps
<1>3. /\ "connmgr" \in Processes /\ "acks" \in Processes /\ "matcheng" \in Processes
      /\ "bookpub" \in Processes /\ "tradepub" \in Processes /\ "rpteng" \in Processes
  BY Distinct
<1>4. ASSUME NEW q \in Processes, NEW n \in Nat, Len(Program[q]) = n
      PROVE  pc[q] \in 0 .. n + 1
  BY <1>1, <1>4
<1>5. pc["connmgr"] \in 0 .. 11 + 1 /\ pc["acks"] \in 0 .. 3 + 1
  BY <1>2, <1>3, <1>4
<1>6. pc["matcheng"] \in 0 .. 25 + 1 /\ pc["bookpub"] \in 0 .. 5 + 1
  BY <1>2, <1>3, <1>4
<1>7. QED
  BY <1>1, <1>3, <1>5, <1>6

\* A user comes after the maker is done.
LEMMA MakerIsDone ==
  ASSUME StateType, InOrder, NEW k \in Keys, NEW p \in Processes, p # Maker[k],
         Uses(p, k), pc[p] > 0
  PROVE  pc[Maker[k]] > MadeAt[k]
<1>1. /\ Maker[k] \in {"connmgr", "acks", "matcheng"}
      /\ MadeAt[k] \in 3 .. 23
      /\ Maker[k] = "connmgr" => MadeAt[k] < 12
      /\ Maker[k] = "acks" => MadeAt[k] < 4
  BY Makers
<1>2. p \in {"tradepub", "bookpub", "rpteng"} => pc["matcheng"] >= 25
  BY DEF InOrder
<1>3. pc["connmgr"] = 12 /\ pc["acks"] = 4
  BY <1>2, Counts DEF InOrder, Uses
<1>4. CASE Maker[k] = "matcheng"
  BY <1>1, <1>2, <1>4, Counts DEF Uses
<1>5. CASE Maker[k] = "connmgr"
  BY <1>1, <1>3, <1>5
<1>6. CASE Maker[k] = "acks"
  BY <1>1, <1>3, <1>6
<1>7. QED
  BY <1>1, <1>4, <1>5, <1>6

LEMMA StepInOrder ==
  ASSUME BoundInv, InOrder, NEW p \in Processes, Advance(p)
  PROVE  InOrder'
<1>1. /\ pc[p] \in Nat /\ pc[p] >= 1 /\ pc'[p] = pc[p] + 1
      /\ p = "connmgr" => pc[p] <= 11
      /\ p = "acks" => pc[p] <= 3
  <2>1. pc[p] \in 1 .. Len(Program[p]) /\ pc'[p] = pc[p] + 1 /\ Len(Program[p]) \in Nat
    BY ProgramSteps DEF Advance
  <2>2. Len(Program["connmgr"]) = 11 /\ Len(Program["acks"]) = 3
    BY ProgramSteps
  <2>3. p = "connmgr" => pc[p] \in 1 .. 11
    BY <2>1, <2>2
  <2>4. p = "acks" => pc[p] \in 1 .. 3
    BY <2>1, <2>2
  <2>5. QED
    BY <2>1, <2>3, <2>4
<1>2. p = "connmgr" \/ p = "acks" => pc["matcheng"] = 0
  BY <1>1, Counts DEF InOrder, BoundInv
<1>3. \A q \in Processes : q # p /\ q # "acks" => pc'[q] = pc[q]
  BY DEF Advance
<1>4. p # "connmgr" /\ p # "acks" => pc'["acks"] = pc["acks"]
  BY Distinct DEF Advance
<1>5. pc["matcheng"] \in Nat /\ \A q \in {"tradepub", "bookpub", "rpteng"} : pc[q] \in Nat
  BY Counts DEF BoundInv
<1>6. CASE p = "matcheng"
  BY <1>1, <1>3, <1>4, <1>5, <1>6, Distinct DEF InOrder
<1>7. CASE p \in {"connmgr", "acks"}
  BY <1>1, <1>2, <1>3, <1>5, <1>7, Distinct DEF InOrder
<1>8. CASE p \in {"tradepub", "bookpub", "rpteng"}
  BY <1>1, <1>3, <1>4, <1>5, <1>8, Distinct DEF InOrder
<1>9. QED
  BY <1>6, <1>7, <1>8, Distinct

LEMMA StepMade ==
  ASSUME BoundInv, StateType', OrderedInv, NEW p \in Processes, Advance(p),
         NEW k \in Keys, Effect(p, k)
  PROVE  MadeInv(k)'
<1> DEFINE m == Maker[k]
           at == MadeAt[k]
<1>1. /\ m \in Processes /\ at \in Nat /\ at >= 3
      /\ k \in Sets => /\ RaisedBy[k] \in Processes /\ RaisedAt[k] \in Nat
                       /\ RaisedBy[k] # "acks"
                       /\ \/ RaisedBy[k] = m /\ RaisedAt[k] > at
                          \/ RaisedBy[k] = "bookpub" /\ k = "SEMKEY3" /\ RaisedAt[k] = 5
      /\ k = "SEMKEY3" => m = "matcheng" /\ at = 23
  BY Makers DEF MadeAt
<1>2. /\ object[k].n \in Nat /\ object[k].value \in Nat
      /\ object[k].there \in BOOLEAN /\ object[k].new \in BOOLEAN
      /\ \A q \in Processes : id[q][k] \in Nat
      /\ object'[k].value \in Nat
      /\ foreign' = foreign
  BY ObjectFields DEF BoundInv, Advance, StateType, Object
<1>3. \A q \in Processes : pc[q] \in Nat /\ pc'[q] \in Nat /\ pc'[q] >= pc[q]
  <2>1. \A q \in Processes : pc[q] \in Nat /\ pc'[q] \in Nat
    BY DEF BoundInv, StateType, Places
  <2>2. pc["connmgr"] <= 8 => pc["acks"] = 0
    BY DEF BoundInv
  <2>3. pc["connmgr"] = 8 => pc["acks"] = 0
    BY <2>2
  <2>4. ASSUME NEW q \in Processes PROVE pc'[q] >= pc[q]
    BY <2>1, <2>3 DEF Advance
  <2>5. QED
    BY <2>1, <2>4
<1>4. m # p => pc'[m] = pc[m] \/ (pc[m] = 0 /\ pc'[m] = 1)
  BY <1>1, Distinct DEF Advance, BoundInv
<1>5. p = m => pc'[m] = pc[m] + 1
  BY DEF Advance
<1>6. p # m /\ Gets(p, pc[p], k) => pc[m] > at
  BY MakerIsDone DEF Gets, BoundInv, OrderedInv, Advance
<1>7. IF Raises(p, pc[p], k) THEN Lift(k) = 0 /\ Lift(k)' = 1 ELSE Lift(k)' = Lift(k)
  <2>1. k \in Sets => IF p = RaisedBy[k] THEN pc'[RaisedBy[k]] = pc[p] + 1
                      ELSE pc'[RaisedBy[k]] = pc[RaisedBy[k]]
    BY <1>1 DEF Advance
  <2>2. Raises(p, pc[p], k) => ~Raised(k) /\ Raised(k)'
    BY <1>1, <1>3, <2>1 DEF Raised, Raises
  <2>3. ~Raises(p, pc[p], k) => (Raised(k)' <=> Raised(k))
    BY <1>1, <1>3, <2>1 DEF Raised, Raises
  <2>4. QED
    BY <2>2, <2>3 DEF Lift
<1>8. k = "SEMKEY3" /\ ~(p = "matcheng" /\ pc[p] = 25) =>
        (pc["matcheng"] > 25 <=> pc'["matcheng"] > 25)
  <2>1. pc["matcheng"] \in Nat
    BY Counts DEF BoundInv
  <2>2. QED
    BY <2>1, NamedExist DEF Advance
<1>9. ~Raises(p, pc[p], k) /\ ~(k = "SEMKEY3" /\ p = "matcheng" /\ pc[p] = 25) =>
        Level(k)' = Level(k)
  BY <1>7, <1>8 DEF Level
<1>10. /\ pc[m] = at - 1 => Holds(m, k)
       /\ pc[m] = at /\ k \notin foreign => ~object[k].there
       /\ pc[m] > at => /\ Holds(m, k)
                        /\ k \notin foreign => object[k].new /\ object[k].value = Level(k)
       /\ \A q \in Processes : q # m /\ id[q][k] # 0 =>
             pc[m] > at /\ id[q][k] = id[m][k]
  BY DEF OrderedInv, MadeInv
<1>11. Raises(p, pc[p], k) => pc[m] > at /\ Holds(p, k)
  <2>1. CASE p = m
    BY <1>1, <1>3, <1>10, <2>1 DEF Raises
  <2>2. CASE p # m /\ Raises(p, pc[p], k)
    <3>1. p = "bookpub" /\ k = "SEMKEY3" /\ pc[p] = 5 /\ m = "matcheng" /\ at = 23
      BY <1>1, <2>2 DEF Raises
    <3>2. pc["matcheng"] >= 25 /\ id[p][k] # 0
      BY <3>1, Counts DEF OrderedInv, InOrder
    <3>3. pc[m] > at /\ id[p][k] = id[m][k] /\ Holds(m, k)
      BY <1>10, <3>1, <3>2
    <3>4. QED
      BY <3>3 DEF Holds
  <2>3. QED
    BY <2>1, <2>2
<1> HIDE DEF m, at
<1>12. pc[m] \in Nat /\ pc'[m] \in Nat
  BY <1>1, <1>3
<1> DEFINE held == \A q \in Processes : q # m /\ id'[q][k] # 0 =>
                      pc'[m] > at /\ id'[q][k] = id'[m][k]
           there == /\ pc'[m] = at - 1 => Holds(m, k)'
                    /\ pc'[m] = at /\ k \notin foreign => ~object'[k].there
                    /\ pc'[m] > at =>
                         /\ Holds(m, k)'
                         /\ k \notin foreign =>
                              object'[k].new /\ object'[k].value = Level(k)'
<1>13. CASE Untouched(p, k)
  <2>1. object'[k] = object[k] /\ (Holds(m, k)' <=> Holds(m, k))
        /\ \A q \in Processes : id'[q][k] = id[q][k]
    BY <1>1, <1>13 DEF Untouched, SameId, Holds
  <2>2. Level(k)' = Level(k)
    BY <1>9, <1>11, <1>13 DEF Untouched
  <2>3. pc[m] > at => pc'[m] > at
    BY <1>1, <1>3, <1>12
  <2>4. held
    BY <1>10, <1>1, <2>1, <2>3
  <2>5. CASE p = m
    <3>1. pc[m] # at - 2 /\ pc[m] # at /\ (pc[m] = at - 1 => ~Holds(m, k) \/ k \in foreign)
      BY <1>13, <2>5 DEF Untouched, Removes, m, at
    <3>2. pc'[m] = pc[m] + 1
      BY <1>5, <2>5
    <3>3. there
      BY <1>1, <1>10, <1>12, <2>1, <2>2, <3>1, <3>2
    <3>4. QED
      BY <1>2, <2>4, <3>3 DEF MadeInv, m, at
  <2>6. CASE p # m
    <3>1. pc'[m] = pc[m] \/ (pc[m] = 0 /\ pc'[m] = 1)
      BY <1>4, <2>6
    <3>2. there
      BY <1>1, <1>10, <1>12, <2>1, <2>2, <3>1
    <3>3. QED
      BY <1>2, <2>4, <3>2 DEF MadeInv, m, at
  <2>7. QED
    BY <2>5, <2>6
<1>14. CASE Found(p, k)
  <2>1. CASE p = m
    <3>1. pc[m] = at - 2 \/ pc[m] = at
      BY <1>14, <2>1 DEF Found, Gets, m, at
    <3>2. pc'[m] = pc[m] + 1
      BY <1>5, <2>1
    <3>3. Holds(m, k)'
      BY <1>14, <2>1 DEF Found, Holds
    <3>4. \A q \in Processes : q # m => id'[q][k] = 0
      BY <1>10, <1>14, <1>1, <2>1, <3>1 DEF Found
    <3>5. ASSUME pc'[m] > at, k \notin foreign
          PROVE  object'[k].new /\ object'[k].value = Level(k)'
      <4>1. pc[m] = at /\ ~object[k].there
        BY <1>10, <1>1, <3>1, <3>2, <3>5
      <4>2. object'[k].new /\ object'[k].value = 0
        BY <1>14, <4>1 DEF Found
      <4>3. ~Raised(k)'
        <5>1. CASE k \in Sets /\ RaisedBy[k] = m
          BY <1>1, <3>2, <4>1, <5>1 DEF Raised
        <5>2. CASE k \in Sets /\ RaisedBy[k] # m
          <6>1. RaisedBy[k] = "bookpub" /\ m = "matcheng" /\ at = 23 /\ RaisedAt[k] \in Nat
            BY <1>1, <5>2
          <6>2. pc["bookpub"] = 0
            BY <4>1, <6>1, Counts DEF OrderedInv, InOrder, BoundInv
          <6>3. pc'["bookpub"] = 0
            BY <2>1, <6>1, <6>2, Distinct DEF Advance
          <6>4. QED
            BY <6>1, <6>3 DEF Raised
        <5>3. QED
          BY <5>1, <5>2 DEF Raised
      <4>4. k = "SEMKEY3" => pc'["matcheng"] = 24
        BY <1>1, <3>2, <4>1
      <4>5. QED
        BY <4>2, <4>3, <4>4 DEF Level, Lift
    <3>6. there
      BY <1>1, <1>12, <3>1, <3>2, <3>3, <3>5
    <3>7. QED
      BY <1>2, <3>4, <3>6 DEF MadeInv, m, at
  <2>2. CASE p # m
    <3>1. pc[m] > at /\ pc'[m] > at
      BY <1>1, <1>3, <1>6, <1>12, <1>14, <2>2 DEF Found
    <3>2. Holds(m, k) /\ object[k].there
      BY <1>10, <3>1 DEF Holds
    <3>3. object'[k] = object[k] /\ id'[p][k] = object[k].n
          /\ \A q \in Processes : q # p => id'[q][k] = id[q][k]
      BY <1>14, <3>2 DEF Found
    <3>4. Holds(m, k)' /\ id'[p][k] = id'[m][k]
      BY <1>1, <2>2, <3>2, <3>3 DEF Holds
    <3>5. held
      BY <1>1, <1>10, <2>2, <3>1, <3>3, <3>4
    <3>6. Level(k)' = Level(k)
      <4>1. ~(k = "SEMKEY3" /\ p = "matcheng" /\ pc[p] = 25)
        BY <1>1, <2>2
      <4>2. QED
        BY <1>9, <1>14, <4>1 DEF Found
    <3>7. there
      BY <1>1, <1>10, <1>12, <3>1, <3>3, <3>4, <3>6
    <3>8. QED
      BY <1>2, <3>5, <3>7 DEF MadeInv, m, at
  <2>3. QED
    BY <2>1, <2>2
<1>15. CASE Removed(p, k)
  <2>1. p = m /\ pc[m] = at - 1 /\ pc'[m] = at
    BY <1>1, <1>5, <1>12, <1>15 DEF Removed, Removes, m, at
  <2>2. ~object'[k].there /\ \A q \in Processes : id'[q][k] = id[q][k]
    BY <1>15 DEF Removed, SameId
  <2>3. \A q \in Processes : q # m => id'[q][k] = 0
    BY <1>1, <1>10, <2>1, <2>2
  <2>4. there
    BY <1>1, <2>1, <2>2
  <2>5. QED
    BY <1>2, <2>3, <2>4 DEF MadeInv, m, at
<1>16. ASSUME NEW d \in {1, -1}, Moved(k, d), pc[m] > at, Level(k)' = Level(k) + d
       PROVE  MadeInv(k)'
  <2>1. /\ object'[k].n = object[k].n /\ object'[k].value = object[k].value + d
        /\ object'[k].new = object[k].new /\ object'[k].there = object[k].there
        /\ \A q \in Processes : id'[q][k] = id[q][k]
    BY <1>16 DEF Moved, SameId
  <2>2. pc'[m] > at
    BY <1>1, <1>3, <1>12, <1>16
  <2>3. Holds(m, k)'
    BY <1>1, <1>10, <1>16, <2>1 DEF Holds
  <2>4. held
    BY <1>1, <1>10, <2>1, <2>2
  <2>5. there
    BY <1>1, <1>10, <1>12, <1>16, <2>1, <2>2, <2>3
  <2>6. QED
    BY <1>2, <2>4, <2>5 DEF MadeInv, m, at
<1>17. CASE Lifted(p, k)
  <2>1. Raises(p, pc[p], k) /\ Moved(k, 1)
    BY <1>17 DEF Lifted
  <2>2. ~(k = "SEMKEY3" /\ p = "matcheng" /\ pc[p] = 25)
    BY <1>1, <2>1 DEF Raises, RaisedBy
  <2>3. Level(k)' = Level(k) + 1
    BY <1>7, <1>8, <2>1, <2>2 DEF Level
  <2>4. QED
    BY <1>11, <1>16, <2>1, <2>3
<1>18. CASE Passed(p, k)
  <2>1. p = "matcheng" /\ pc[p] = 25 /\ k = "SEMKEY3" /\ Moved(k, -1)
    BY <1>18 DEF Passed
  <2>2. ~Raises(p, pc[p], k)
    BY <2>1 DEF Raises, RaisedBy
  <2>3. pc'["matcheng"] = 26
    BY <2>1 DEF Advance
  <2>4. Level(k)' = Level(k) + (-1) /\ pc[m] > at
    BY <1>1, <1>7, <2>1, <2>2, <2>3 DEF Level, Lift
  <2>5. QED
    BY <1>16, <2>1, <2>4
<1>19. QED
  BY <1>13, <1>14, <1>15, <1>17, <1>18 DEF Effect

LEMMA StepConnects ==
  ASSUME LoadInv, BoundInv, ConnectInv, NEW p \in Processes, Step(p)
  PROVE  ConnectInv'
<1>1. /\ Advance(p) /\ StateType' /\ BoundInv'
      /\ \A k \in Keys : Effect(p, k)
  BY StepAdvances, StepEffect, StepTyped, StepBound DEF BoundInv
<1> SUFFICES ASSUME astray' = "none" PROVE OrderedInv'
  BY DEF ConnectInv
<1>2. OrderedInv
  BY <1>1 DEF ConnectInv, Advance
<1>3. InOrder'
  BY <1>1, <1>2, StepInOrder DEF OrderedInv
<1>4. \A k \in Keys : MadeInv(k)'
  BY <1>1, <1>2, StepMade
<1>5. (pc["bookpub"] > 3 => id["bookpub"]["SEMKEY3"] # 0)'
  <2> DEFINE k == "SEMKEY3"
  <2>1. k \in Keys /\ "bookpub" \in Processes /\ CountInv(k)' /\ Effect(p, k)
    BY <1>1, NamedExist DEF BoundInv
  <2>2. /\ object'[k].n \in Nat /\ pc["bookpub"] \in Nat
    BY <1>1, <2>1, Counts DEF BoundInv, StateType, Object
  <2>3. CASE id'["bookpub"][k] = id["bookpub"][k] /\ ~(p = "bookpub" /\ pc[p] = 3)
    <3>1. pc'["bookpub"] > 3 => pc["bookpub"] > 3
      BY <1>1, <2>1, <2>2, <2>3 DEF Advance
    <3>2. QED
      BY <1>2, <2>3, <3>1 DEF OrderedInv
  <2>4. CASE Found(p, k) /\ p = "bookpub"
    <3>1. object'[k].there
      BY <2>4 DEF Found
    <3>2. QED
      BY <2>1, <2>2, <2>4, <3>1 DEF Found, CountInv
  <2>5. Maker[k] = "matcheng" /\ RaisedAt[k] = 5
    BY DEF Maker, RaisedAt
  <2>6. CASE Found(p, k) /\ p # "bookpub"
    BY <2>1, <2>3, <2>6 DEF Found
  <2>7. CASE Untouched(p, k)
    BY <2>1, <2>3, <2>7 DEF Untouched, SameId
  <2>8. CASE Removed(p, k) \/ Lifted(p, k) \/ Passed(p, k)
    BY <2>1, <2>3, <2>5, <2>8 DEF Removed, Removes, Lifted, Raises, Passed, Moved, SameId
  <2>9. QED
    BY <2>1, <2>4, <2>6, <2>7, <2>8 DEF Effect
<1>6. QED
  BY <1>3, <1>4, <1>5 DEF OrderedInv

\* Nothing has been started: the operator starts again, in order or not.
LEMMA AtRestConnects ==
  ASSUME \A q \in Processes : pc[q] = 0, id = NothingHeld
  PROVE  OrderedInv
<1>1. ASSUME NEW k \in Keys PROVE MadeInv(k)
  <2>1. pc[Maker[k]] = 0 /\ MadeAt[k] \in 3 .. 23
    BY Makers, Distinct
  <2>2. \A q \in Processes : id[q][k] = 0
    BY DEF NothingHeld
  <2>3. QED
    BY <2>1, <2>2 DEF MadeInv
<1>2. QED
  BY <1>1, Distinct DEF OrderedInv, InOrder

LEMMA StopConnects ==
  ASSUME StopAll
  PROVE  ConnectInv'
<1>1. (\A q \in Processes : pc[q] = 0 /\ id = NothingHeld)'
  BY DEF StopAll
<1>2. ASSUME NEW k \in Keys PROVE MadeInv(k)'
  <2>1. pc'[Maker[k]] = 0 /\ MadeAt[k] \in 3 .. 23
    BY <1>1, Makers, Distinct
  <2>2. \A q \in Processes : id'[q][k] = 0
    BY <1>1, Distinct DEF NothingHeld
  <2>3. QED
    BY <2>1, <2>2 DEF MadeInv
<1>3. QED
  BY <1>1, <1>2, Distinct DEF ConnectInv, OrderedInv, InOrder

\* Only the engine waits for a semaphore, at the end.
LEMMA EngineAwaits ==
  ASSUME StateType, NEW p \in Processes, Does(p, "await")
  PROVE  p = "matcheng" /\ pc[p] = 25
<1>1. pc[p] \in 1 .. Len(Program[p]) /\ Program[p][pc[p]].op = "await"
  BY AtAStep DEF Does
<1>2. StepOf(p, pc[p], Program[p][pc[p]])
  BY <1>1, ProgramSteps
<1>3. QED
  BY <1>1, <1>2 DEF StepOf

LEMMA StartConnects ==
  ASSUME LoadInv, BoundInv, ConnectInv, Start
  PROVE  ConnectInv'
<1> SUFFICES ASSUME astray' = "none" PROVE OrderedInv'
  BY DEF ConnectInv
<1>1. PICK i \in 1 .. Len(Order) :
        /\ ~Started(Order[i])
        /\ Order[i] = astray \/ \A j \in 1 .. i - 1 : Order[j] = astray \/ Waits(Order[j])
        /\ pc' = [pc EXCEPT ![Order[i]] = 1]
        /\ UNCHANGED <<object, id, loaded, round, foreign, astray>>
  BY DEF Start
<1>2. /\ i \in 1 .. 5 /\ Len(Order) = 5
      /\ Order[1] = "connmgr" /\ Order[2] = "matcheng"
      /\ Order[3] = "tradepub" /\ Order[4] = "bookpub" /\ Order[5] = "rpteng"
  BY DEF Order
<1>3. astray = "none" /\ OrderedInv
  BY <1>1 DEF ConnectInv
<1>4. \A j \in 1 .. i - 1 : Waits(Order[j])
  <2>1. \A j \in 1 .. 5 : Order[j] # "none"
    BY <1>2
  <2>2. Order[i] # astray /\ \A j \in 1 .. i - 1 : Order[j] # astray
    BY <1>2, <1>3, <2>1
  <2>3. ASSUME NEW j \in 1 .. i - 1 PROVE Waits(Order[j])
    BY <1>1, <1>2, <2>2
  <2>4. QED
    BY <2>3
<1>5. pc \in [Processes -> Nat] /\ Order[i] \in Processes /\ pc[Order[i]] = 0
  <2>1. Order[i] \in {"connmgr", "matcheng", "tradepub", "bookpub", "rpteng"}
    BY <1>2
  <2>2. QED
    BY <1>1, <2>1, Distinct DEF BoundInv, StateType, Places, Started
<1>6. \A q \in Processes : pc'[q] = IF q = Order[i] THEN 1 ELSE pc[q]
  BY <1>1, <1>5
<1>7. ASSUME NEW k \in Keys PROVE MadeInv(k)'
  <2>1. Maker[k] \in Processes /\ MadeAt[k] \in 3 .. 23
    BY Makers, Distinct
  <2>2. \A q \in Processes :
           pc[q] \in Nat /\ (pc'[q] = pc[q] \/ (pc[q] = 0 /\ pc'[q] = 1))
    BY <1>5, <1>6
  <2>3. MadeInv(k)
    BY <1>3 DEF OrderedInv
  <2>4. \A m \in Processes : Holds(m, k)' <=> Holds(m, k)
    BY <1>1 DEF Holds
  <2>5. pc[Maker[k]] > MadeAt[k] => Level(k)' = Level(k)
    <3>1. Raised(k)' <=> Raised(k)
      <4>1. \A q \in Processes : FromFirst(pc[q], pc'[q])
        BY <2>2, FirstOnly
      <4>2. k \in Sets => /\ FromFirst(pc[RaisedBy[k]], pc'[RaisedBy[k]])
                          /\ RaisedAt[k] \in 1 .. 25
        BY <4>1, Makers
      <4>3. QED
        BY <4>2 DEF FromFirst, Raised
    <3>2. pc'["matcheng"] > 25 <=> pc["matcheng"] > 25
      BY <1>5, <1>6, Distinct
    <3>3. QED
      BY <3>1, <3>2 DEF Level, Lift
  <2>6. object' = object /\ id' = id /\ foreign' = foreign
    BY <1>1
  <2> DEFINE m == Maker[k]
             at == MadeAt[k]
  <2>7. /\ m \in Processes /\ at \in 3 .. 23
        /\ pc'[m] = pc[m] \/ (pc[m] = 0 /\ pc'[m] = 1)
        /\ pc[m] > at => Level(k)' = Level(k)
        /\ pc[m] = at - 1 => Holds(m, k)
        /\ pc[m] = at /\ k \notin foreign => ~object[k].there
        /\ pc[m] > at => /\ Holds(m, k)
                         /\ k \notin foreign => object[k].new /\ object[k].value = Level(k)
        /\ \A q \in Processes : q # m /\ id[q][k] # 0 =>
              pc[m] > at /\ id[q][k] = id[m][k]
    BY <2>1, <2>2, <2>3, <2>5 DEF MadeInv
  <2>8. Holds(m, k)' <=> Holds(m, k)
    BY <2>4, <2>7
  <2> HIDE DEF m, at
  <2>9. /\ pc'[m] = at - 1 => Holds(m, k)'
        /\ pc'[m] = at /\ k \notin foreign' => ~object'[k].there
        /\ pc'[m] > at => /\ Holds(m, k)'
                          /\ k \notin foreign' =>
                               object'[k].new /\ object'[k].value = Level(k)'
        /\ \A q \in Processes : q # m /\ id'[q][k] # 0 =>
              pc'[m] > at /\ id'[q][k] = id'[m][k]
    BY <2>6, <2>7, <2>8
  <2>10. QED
    BY <2>9 DEF MadeInv, m, at
<1>8. InOrder'
  <2>1. 2 <= i => pc["connmgr"] = 12 /\ pc["acks"] = 4
    <3>1. ASSUME 2 <= i PROVE Waits("connmgr")
      BY <1>2, <1>4, <3>1
    <3>2. ~Does("connmgr", "await")
      BY EngineAwaits, Distinct DEF BoundInv
    <3>3. QED
      BY <3>1, <3>2, ProgramSteps DEF Waits, Ready
  <2>2. 3 <= i => pc["matcheng"] >= 25
    <3>1. ASSUME 3 <= i PROVE Waits("matcheng")
      BY <1>2, <1>4, <3>1
    <3>2. Does("matcheng", "await") => pc["matcheng"] = 25
      BY EngineAwaits, Distinct DEF BoundInv
    <3>3. QED
      BY <3>1, <3>2, ProgramSteps DEF Waits, Ready
  <2>3. InOrder
    BY <1>3 DEF OrderedInv
  <2>4. CASE i = 1
    BY <1>2, <1>5, <1>6, <2>3, <2>4, Distinct DEF InOrder
  <2>5. CASE i = 2
    BY <1>2, <1>5, <1>6, <2>1, <2>3, <2>5, Distinct DEF InOrder
  <2>6. CASE i >= 3
    BY <1>2, <1>5, <1>6, <2>2, <2>3, <2>6, Distinct DEF InOrder
  <2>7. QED
    BY <1>2, <2>4, <2>5, <2>6
<1>9. (pc["bookpub"] > 3 => id["bookpub"]["SEMKEY3"] # 0)'
  BY <1>1, <1>3, <1>5, <1>6, Distinct DEF OrderedInv
<1>10. QED
  BY <1>7, <1>8, <1>9 DEF OrderedInv

LEMMA InitConnects == Init => ConnectInv
  BY AtRestConnects DEF Init, ConnectInv

LEMMA NextConnects == LoadInv /\ BoundInv /\ ConnectInv /\ [Next]_vars => ConnectInv'
<1> SUFFICES ASSUME LoadInv, BoundInv, ConnectInv, [Next]_vars PROVE ConnectInv'
  OBVIOUS
<1>1. CASE UNCHANGED vars
  BY <1>1 DEF vars, ConnectInv, OrderedInv, InOrder, MadeInv, Level, Lift, Raised, Holds
<1>2. QED
  BY <1>1, StartConnects, StopConnects, StepConnects DEF Next

LEMMA ReadyMeansMade ==
  ASSUME StateType, AllReady
  PROVE  /\ \A k \in Keys : pc[Maker[k]] > MadeAt[k]
         /\ \A k \in Sets : Raised(k)
         /\ pc["matcheng"] > 25
<1>1. pc["connmgr"] = 12 /\ pc["acks"] = 4 /\ pc["matcheng"] = 26 /\ pc["bookpub"] = 6
  <2>1. /\ Len(Program["connmgr"]) = 11 /\ Len(Program["acks"]) = 3
        /\ Len(Program["matcheng"]) = 25 /\ Len(Program["bookpub"]) = 5
    BY ProgramSteps
  <2>2. /\ "connmgr" \in Processes /\ "acks" \in Processes /\ "matcheng" \in Processes
        /\ "bookpub" \in Processes
    BY Distinct
  <2>3. \A q \in Processes : pc[q] = Len(Program[q]) + 1
    BY DEF AllReady, Ready
  <2>4. pc["connmgr"] = 11 + 1 /\ pc["acks"] = 3 + 1
    BY <2>1, <2>2, <2>3
  <2>5. pc["matcheng"] = 25 + 1 /\ pc["bookpub"] = 5 + 1
    BY <2>1, <2>2, <2>3
  <2>6. QED
    BY <2>4, <2>5
<1>2. QED
  BY <1>1 DEF Keys, Sets, Maker, MadeAt, Raised, RaisedBy, RaisedAt

\* Started one after the other, each when the one before waits, all the processes
\* hold the same queue, segment or set under each key, and it has not been removed.
\* The argument is about who makes what and when (src/README.txt's order against
\* the keys of keys.h), for any state that earlier runs left behind.
THEOREM OneObjectEach == FairSpec => []Connected
<1>1. LoadInv /\ BoundInv /\ ConnectInv => Connected
  <2> SUFFICES ASSUME BoundInv, OrderedInv, AllReady, NEW p \in Processes, NEW k \in Keys,
                      id[p][k] # 0
               PROVE  Holds(p, k)
    BY DEF Connected, ConnectInv
  <2>1. MadeInv(k) /\ pc[Maker[k]] > MadeAt[k]
    BY ReadyMeansMade DEF OrderedInv, BoundInv
  <2>2. QED
    BY <2>1 DEF MadeInv, Holds
<1>2. QED
  BY InitLoad, StepLoad, InitBound, NextBound, InitConnects, NextConnects, <1>1, PTL
  DEF FairSpec

\* They also are of this run, without an old message, and each first semaphore was
\* raised once, the engine's by the book publisher and taken again; except for
\* objects of another user.
THEOREM NothingOld == FairSpec => []Fresh
<1>1. LoadInv /\ BoundInv /\ ConnectInv => Fresh
  <2> SUFFICES ASSUME BoundInv, OrderedInv, AllReady, NEW k \in Keys \ foreign
               PROVE  /\ object[k].new
                      /\ object[k].value =
                           IF k \in {"SEMKEY1", "SEMKEY2", "METORESEM", "SEMDB"}
                           THEN 1 ELSE 0
    BY DEF Fresh, ConnectInv
  <2>1. /\ MadeInv(k) /\ pc[Maker[k]] > MadeAt[k] /\ pc["matcheng"] > 25
        /\ Raised(k) <=> k \in Sets
    BY ReadyMeansMade DEF OrderedInv, BoundInv, Raised
  <2>2. object[k].new /\ object[k].value = Level(k)
    BY <2>1 DEF MadeInv
  <2>3. QED
    BY <2>1, <2>2 DEF Level, Lift, Sets
<1>2. QED
  BY InitLoad, StepLoad, InitBound, NextBound, InitConnects, NextConnects, <1>1, PTL
  DEF FairSpec
=============================================================================
