------------------------------ MODULE Startup -------------------------------
(***************************************************************************)
(* How the processes find each other.  Queues, segments and semaphore sets *)
(* are looked up under a key and made when there are none.  The process    *)
(* that owns a key looks it up, removes what it found, perhaps of an       *)
(* earlier run, and makes it anew; the other end looks it up and keeps the *)
(* id.  Nothing but the order in which they are started (src/README.txt)   *)
(* makes the other end come later.  Segments whose use comes after this    *)
(* are SharedSlot.                                                         *)
(*                                                                         *)
(* An object of another user cannot be removed: then the removal fails     *)
(* (src/RESULTS/connmgr.txt:42) and the object found is used on.           *)
(***************************************************************************)
EXTENDS Integers, Sequences, FiniteSets, SequencesExt

CONSTANTS
  Rounds,      \* bound: how often the exchange is started
  ForeignSets  \* which keys another user may have objects under

Keys == {"CMTOME", "METOCM", "METOTP", "CMTOBP", "METORE",
         "SEMKEY1", "SEMKEY2", "SEMKEY3", "METORESEM", "SEMDB"}

ASSUME StartupAssumption == Rounds \in Nat \ {0} /\ ForeignSets \subseteq SUBSET Keys

\* In the order in which they are started; acks is a thread of connmgr.
Order == <<"connmgr", "matcheng", "tradepub", "bookpub", "rpteng">>
Processes == ToSet(Order) \cup {"acks"}
-----------------------------------------------------------------------------
(* What each does before its loop *)

Op(op, key) == [op |-> op, key |-> key]
Get(key) == <<Op("get", key)>>

\* Mutant: what is there is used on.
GetOnly(key) == Get(key)

Renew(key) == Get(key) \o <<Op("remove", key)>> \o Get(key)

ConnMgr ==
  Renew("CMTOBP") \o Renew("SEMKEY2") \o
  <<Op("raise", "SEMKEY2"), Op("spawn", "acks")>> \o Renew("CMTOME")

Acks == Renew("METOCM")

\* Mutant: the engine makes its outgoing queue anew, too.
MatchEngRenewsQueue ==
  Get("CMTOME") \o Renew("METOCM") \o
  Renew("METOTP") \o Renew("SEMKEY1") \o
  Renew("METORE") \o Renew("METORESEM") \o Renew("SEMDB") \o
  <<Op("raise", "SEMKEY1"), Op("raise", "METORESEM"), Op("raise", "SEMDB")>> \o
  Renew("SEMKEY3") \o <<Op("load", "t1"), Op("await", "SEMKEY3")>>

MatchEng ==
  Get("CMTOME") \o Get("METOCM") \o
  Renew("METOTP") \o Renew("SEMKEY1") \o
  Renew("METORE") \o Renew("METORESEM") \o Renew("SEMDB") \o
  <<Op("raise", "SEMKEY1"), Op("raise", "METORESEM"), Op("raise", "SEMDB")>> \o
  Renew("SEMKEY3") \o <<Op("load", "t1"), Op("await", "SEMKEY3")>>

TradePub == Get("METOTP") \o Get("SEMKEY1")

\* Mutants: the engine is let go before the load, or never.
BookPubRaisesFirst ==
  Get("CMTOBP") \o Get("SEMKEY2") \o Get("SEMKEY3") \o
  <<Op("raise", "SEMKEY3"), Op("load", "t1")>>

BookPubRaisesOther ==
  Get("CMTOBP") \o Get("SEMKEY2") \o Get("SEMKEY3") \o
  <<Op("load", "t1"), Op("raise", "SEMKEY2")>>

BookPub ==
  Get("CMTOBP") \o Get("SEMKEY2") \o Get("SEMKEY3") \o
  <<Op("load", "t1"), Op("raise", "SEMKEY3")>>

RptEng == Get("METORE") \o Get("SEMDB") \o Get("METORESEM")

Program ==
  [p \in Processes |->
     CASE p = "connmgr" -> ConnMgr [] p = "acks" -> Acks
       [] p = "matcheng" -> MatchEng [] p = "tradepub" -> TradePub
       [] p = "bookpub" -> BookPub [] OTHER -> RptEng]

\* What the handler of a process removes; connmgr's also knows the
\* thread's id.
HandlerRemoves ==
  [p \in Processes |->
     CASE p = "connmgr" -> {"SEMKEY2", "CMTOBP", "CMTOME"}
       [] p = "acks" -> {"METOCM"}
       [] p = "matcheng" -> {"METOTP", "SEMKEY1", "SEMKEY3", "METORE",
                             "METORESEM", "SEMDB", "CMTOME", "METOCM"}
       [] p = "tradepub" -> {"METOTP", "SEMKEY1"}
       [] p = "bookpub" -> {"CMTOBP", "SEMKEY2", "SEMKEY3"}
       [] OTHER -> {"METORE", "SEMDB", "METORESEM"}]
-----------------------------------------------------------------------------
VARIABLES
  object,  \* key |-> what is found under it: its number, whether it is there,
           \* whether it was made in this run, its first semaphore
  id,      \* process, key |-> the number of the object it holds, or 0
  pc,      \* process |-> its next operation, 0 before it is started
  loaded,  \* who has read t1
  round,
  foreign, \* the keys of another user's objects
  astray   \* the process that is started without regard to the order, or none

Astray == ToSet(Order) \cup {"none"}

vars == <<object, id, pc, loaded, round, foreign, astray>>

TypeOK ==
  /\ object \in [Keys -> [n : 0 .. 3, there : BOOLEAN, new : BOOLEAN,
                          value : 0 .. Rounds + 1]]
  /\ \A p \in Processes, k \in Keys : id[p][k] \in 0 .. object[k].n
  /\ \A p \in Processes : pc[p] \in 0 .. Len(Program[p]) + 1
  /\ loaded \subseteq Processes /\ round \in 1 .. Rounds
  /\ foreign \in ForeignSets /\ astray \in Astray

NothingHeld == [p \in Processes |-> [k \in Keys |-> 0]]

Nothing == [n |-> 0, there |-> FALSE, new |-> FALSE, value |-> 0]
Old(value) == [n |-> 1, there |-> TRUE, new |-> FALSE, value |-> value]

Init ==
  /\ foreign \in ForeignSets
  /\ object = [k \in Keys |-> IF k \in foreign THEN Old(1) ELSE Nothing]
  /\ id = NothingHeld
  /\ pc = [p \in Processes |-> 0]
  /\ loaded = {} /\ round = 1
  /\ astray = "none"
-----------------------------------------------------------------------------
Started(p) == pc[p] > 0
Ready(p) == pc[p] = Len(Program[p]) + 1

\* p has op to do.
Does(p, op) ==
  /\ Started(p) /\ ~Ready(p)
  /\ Program[p][pc[p]].op = op

KeyOf(p) == Program[p][pc[p]].key

Holds(p, k) == object[k].there /\ object[k].n = id[p][k]

Goes(p) == pc' = [pc EXCEPT ![p] = @ + 1] /\ UNCHANGED <<round, foreign, astray>>

\* Mutant: IPC_PRIVATE, each process makes one of its own.
LookupMakes(p) ==
  /\ Does(p, "get")
  /\ LET k == KeyOf(p)
         new == [n |-> object[k].n + 1, there |-> TRUE, new |-> TRUE, value |-> 0]
     IN  /\ object' = [object EXCEPT ![k] = new]
         /\ id' = [id EXCEPT ![p][k] = object'[k].n]
  /\ Goes(p) /\ UNCHANGED loaded

Lookup(p) ==
  /\ Does(p, "get")
  /\ LET k == KeyOf(p)
         new == [n |-> object[k].n + 1, there |-> TRUE, new |-> TRUE, value |-> 0]
     IN  /\ object' = IF object[k].there THEN object ELSE [object EXCEPT ![k] = new]
         /\ id' = [id EXCEPT ![p][k] = object'[k].n]
  /\ Goes(p) /\ UNCHANGED loaded

RemoveId(p) ==
  /\ Does(p, "remove")
  /\ LET k == KeyOf(p)
     IN  object' = IF Holds(p, k) /\ k \notin foreign
                   THEN [object EXCEPT ![k].there = FALSE] ELSE object
  /\ Goes(p) /\ UNCHANGED <<id, loaded>>

\* semop on an id that is gone fails, which bookpub does not notice.
Raise(p) ==
  /\ Does(p, "raise")
  /\ LET k == KeyOf(p)
     IN  object' = IF Holds(p, k) THEN [object EXCEPT ![k].value = @ + 1] ELSE object
  /\ Goes(p) /\ UNCHANGED <<id, loaded>>

Await(p) ==
  /\ Does(p, "await")
  /\ LET k == KeyOf(p)
     IN  /\ Holds(p, k) /\ object[k].value > 0
         /\ object' = [object EXCEPT ![k].value = @ - 1]
  /\ Goes(p) /\ UNCHANGED <<id, loaded>>

\* t1 is read; nobody writes it before the engine handles requests.
Load(p) ==
  /\ Does(p, "load")
  /\ loaded' = loaded \cup {p}
  /\ Goes(p) /\ UNCHANGED <<object, id>>

Spawn(p) ==
  /\ Does(p, "spawn")
  /\ pc' = [pc EXCEPT ![p] = @ + 1, !["acks"] = 1]
  /\ UNCHANGED <<object, id, loaded, round, foreign, astray>>
-----------------------------------------------------------------------------
(* The operator *)

\* A process waits for requests, or for bookpub, and says so.
Waits(p) ==
  /\ Ready(p) \/ Does(p, "await")
  /\ p = "connmgr" => Ready("acks")

\* A process is started when those before it wait; the one astray at any time.
Start ==
  \E i \in 1 .. Len(Order) :
    /\ ~Started(Order[i])
    /\ Order[i] = astray \/ \A j \in 1 .. i - 1 : Order[j] = astray \/ Waits(Order[j])
    /\ pc' = [pc EXCEPT ![Order[i]] = 1]
    /\ UNCHANGED <<object, id, loaded, round, foreign, astray>>

\* Everything is stopped: all killed, or all by SIGINT, when the handlers that
\* are in place remove what their processes hold; connmgr's is from the start.
\* Then it is all started again.  (Stopping at once makes a first start astray.)
StopAll ==
  /\ round < Rounds
  /\ \E clean \in {{}, {p \in ToSet(Order) : Ready(p) \/ (p = "connmgr" /\ Started(p))}} :
       LET by == clean \cup (IF "connmgr" \in clean THEN {"acks"} ELSE {})
           Gone(k) == k \notin foreign
                      /\ \E p \in by : k \in HandlerRemoves[p] /\ Holds(p, k)
       IN  object' = [k \in Keys |-> IF ~object[k].there \/ Gone(k) THEN Nothing
                                     ELSE Old(object[k].value)]
  /\ id' = NothingHeld
  /\ pc' = [p \in Processes |-> 0]
  /\ loaded' = {} /\ round' = round + 1 /\ astray' \in Astray
  /\ UNCHANGED foreign

Step(p) == Lookup(p) \/ RemoveId(p) \/ Raise(p) \/ Await(p) \/ Load(p) \/ Spawn(p)

Next == Start \/ StopAll \/ \E p \in Processes : Step(p)

\* Processes run, and the operator goes on to start them.
FairSpec ==
  /\ Init /\ [][Next]_vars
  /\ WF_vars(Start)
  /\ \A p \in Processes : WF_vars(Step(p))
-----------------------------------------------------------------------------
(* Properties *)

AllReady == \A p \in Processes : Ready(p)

\* If each process is started when the one before waits, all hold the same
\* objects, and none that has been removed.
Connected ==
  astray = "none" /\ AllReady =>
    \A p \in Processes, k \in Keys : id[p][k] # 0 => Holds(p, k)

\* They also are of this run, whatever the runs before left behind: no old
\* message is in them, and each first semaphore is up once.  Only what another
\* user owns stays.
Fresh ==
  astray = "none" /\ AllReady =>
    \A k \in Keys \ foreign :
      /\ object[k].new
      /\ object[k].value = IF k \in {"SEMKEY1", "SEMKEY2", "METORESEM", "SEMDB"}
                           THEN 1 ELSE 0

\* However they are started, the engine handles no request before both it and
\* the book publisher have read t1: their books begin alike.
LoadedFirst ==
  Ready("matcheng") /\ "SEMKEY3" \notin foreign => {"matcheng", "bookpub"} \subseteq loaded

\* In that order the exchange gets up.  (Not so in another: bookpub may raise a
\* semaphore that the engine is about to remove.)
EveryoneReady == <>[](astray = "none" => AllReady)
=============================================================================
