------------------------------ MODULE SharedSlot -----------------------------
(***************************************************************************)
(* A shared-memory segment that holds one message, and the set of two      *)
(* semaphores that hands it back and forth between one writer and one      *)
(* reader.  The program has three:                                         *)
(*                                                                         *)
(*   connection manager -> book publisher    connmgr.cpp, bookpub.cpp      *)
(*   matching engine    -> trade publisher   matcheng.h,  tradepub.cpp     *)
(*   matching engine    -> reporting engine  matcheng.h,  rpteng.cpp       *)
(*                                                                         *)
(* Semaphore 0 counts the free slots, semaphore 1 the filled ones.  The    *)
(* writer fills the fields one after the other, the reader works on the    *)
(* segment itself.  The handler of SIGINT of either removes the segment    *)
(* and the set: from then on every semop fails, while the memory lives on  *)
(* in the processes that have it attached.                                 *)
(***************************************************************************)
EXTENDS Integers, Sequences, SequencesExt

CONSTANTS
  Messages,       \* the messages
  NoMessage,      \* what a fresh segment holds
  MaxSends,       \* bound: messages the writer tries to send
  Converts,       \* does the reader swap the bytes of the quantity in place?
                  \*   (the trade publisher)
  ReaderLeaves,   \* may the reader get SIGINT?
  WriterLeaves,   \* may the writer get SIGINT?
  HandlerExits,   \* does the reader's handler end the process?  (not the book publisher's)
  WriterEnds,     \* does a failed semop end the writer?  (the connection manager)
  WriterAttached  \* has the writer attached the segment when it starts?
                  \*   (the connection manager; the matching engine attaches
                  \*   it again for each message and never detaches)

ASSUME SlotAssumption ==
  /\ NoMessage \notin Messages
  /\ MaxSends \in Nat
  /\ {Converts, ReaderLeaves, WriterLeaves, HandlerExits, WriterEnds,
      WriterAttached} \subseteq BOOLEAN

VARIABLES
  exists,     \* the set and the segment have not been removed
  sem0, sem1, \* the semaphores
  slot,       \* the segment
  wpc, msg,   \* the writer and the message it has in hand
  attached,   \* has the writer the segment in its memory?
  rpc,        \* the reader
  sent,       \* messages announced by semaphore 1, in order
  received,   \* messages the reader published, in order
  dropped     \* messages the writer gave up

writerVars == <<wpc, msg, attached>>
vars == <<exists, sem0, sem1, slot, writerVars, rpc, sent, received, dropped>>

\* A message as it should arrive.
Whole(m) == [text |-> m, quantity |-> m,
             order |-> IF Converts THEN "network" ELSE "host"]

\* order: the byte order of the quantity.
Segment == [text : Messages \cup {NoMessage},
            quantity : Messages \cup {NoMessage}, order : {"host", "network"}]

WriterHolds == wpc \in {"attach", "text", "quantity", "post"}
ReaderHolds == rpc \in {"convert", "publish", "release"}

TypeOK ==
  /\ exists \in BOOLEAN
  /\ sem0 \in Nat /\ sem1 \in Nat
  /\ slot \in Segment
  /\ wpc \in {"idle", "wait", "attach", "text", "quantity", "post", "ended", "dead"}
  /\ msg \in Messages \cup {NoMessage}
  /\ attached \in BOOLEAN
  /\ rpc \in {"wait", "convert", "publish", "release", "gone"}
  /\ sent \in Seq(Segment) /\ received \in Seq(Segment)
  /\ dropped \in Nat

Init ==
  /\ exists = TRUE /\ sem0 = 1 /\ sem1 = 0
  /\ slot = [text |-> NoMessage, quantity |-> NoMessage, order |-> "host"]
  /\ wpc = "idle" /\ msg = NoMessage /\ attached = WriterAttached
  /\ rpc = "wait"
  /\ sent = << >> /\ received = << >> /\ dropped = 0
-----------------------------------------------------------------------------
(* The writer *)

Call(m) ==
  /\ wpc = "idle" /\ Len(sent) + dropped < MaxSends
  /\ wpc' = "wait" /\ msg' = m
  /\ UNCHANGED <<exists, sem0, sem1, slot, attached, rpc, sent, received, dropped>>

\* semop on semaphore 0 returns.
Acquire ==
  /\ wpc = "wait" /\ exists /\ sem0 > 0
  /\ sem0' = sem0 - 1
  /\ wpc' = "attach"
  /\ UNCHANGED <<exists, sem1, slot, msg, attached, rpc, sent, received, dropped>>

\* semop fails: the message is not sent.
GiveUp ==
  /\ wpc' = IF WriterEnds THEN "ended" ELSE "idle"
  /\ dropped' = dropped + 1

AcquireFails ==
  /\ wpc = "wait" /\ ~exists
  /\ GiveUp
  /\ UNCHANGED <<exists, sem0, sem1, slot, msg, attached, rpc, sent, received>>

\* A removed segment goes away with the last process that has it attached.
SegmentGone == ~exists /\ rpc = "gone" /\ ~attached

Attach ==
  /\ wpc = "attach" /\ ~SegmentGone
  /\ attached' = TRUE
  /\ wpc' = "text"
  /\ UNCHANGED <<exists, sem0, sem1, slot, msg, rpc, sent, received, dropped>>

\* shmat fails, its result is not checked, and writing through it is fatal.
AttachFails ==
  /\ wpc = "attach" /\ SegmentGone
  /\ wpc' = "dead"
  /\ UNCHANGED <<exists, sem0, sem1, slot, msg, attached, rpc,
                 sent, received, dropped>>

WriteText ==
  /\ wpc = "text"
  /\ slot' = [slot EXCEPT !.text = msg]
  /\ wpc' = "quantity"
  /\ UNCHANGED <<exists, sem0, sem1, msg, attached, rpc, sent, received, dropped>>

WriteQuantity ==
  /\ wpc = "quantity"
  /\ slot' = [slot EXCEPT !.quantity = msg, !.order = "host"]
  /\ wpc' = "post"
  /\ UNCHANGED <<exists, sem0, sem1, msg, attached, rpc, sent, received, dropped>>

\* Mutant: sem_num is still 0.
PostZero ==
  /\ wpc = "post" /\ exists
  /\ sem0' = sem0 + 1
  /\ sent' = Append(sent, Whole(msg))
  /\ wpc' = "idle"
  /\ UNCHANGED <<exists, sem1, slot, msg, attached, rpc, received, dropped>>

\* semop on semaphore 1.
Post ==
  /\ wpc = "post" /\ exists
  /\ sem1' = sem1 + 1
  /\ sent' = Append(sent, Whole(msg))
  /\ wpc' = "idle"
  /\ UNCHANGED <<exists, sem0, slot, msg, attached, rpc, received, dropped>>

PostFails ==
  /\ wpc = "post" /\ ~exists
  /\ GiveUp
  /\ UNCHANGED <<exists, sem0, sem1, slot, msg, attached, rpc, sent, received>>

\* SIGINT: the handler removes the set and ends the process, wherever it was.
WriterLeave ==
  /\ WriterLeaves /\ wpc \notin {"ended", "dead"}
  /\ exists' = FALSE
  /\ wpc' = "ended"
  /\ UNCHANGED <<sem0, sem1, slot, msg, attached, rpc, sent, received, dropped>>
-----------------------------------------------------------------------------
(* The reader *)

\* Mutant: the reader does not wait for semaphore 1.
TakeAnyway ==
  /\ rpc = "wait" /\ exists
  /\ sem1' = sem1 - 1
  /\ rpc' = "convert"
  /\ UNCHANGED <<exists, sem0, slot, writerVars, sent, received, dropped>>

\* semop on semaphore 1 returns.
Take ==
  /\ rpc = "wait" /\ exists /\ sem1 > 0
  /\ sem1' = sem1 - 1
  /\ rpc' = "convert"
  /\ UNCHANGED <<exists, sem0, slot, writerVars, sent, received, dropped>>

\* It fails, and the loop ends.
TakeFails ==
  /\ rpc = "wait" /\ ~exists
  /\ rpc' = "gone"
  /\ UNCHANGED <<exists, sem0, sem1, slot, writerVars, sent, received, dropped>>

Swapped(order) == IF order = "host" THEN "network" ELSE "host"

\* Mutant: semaphore 0 is raised before the message is read.
ConvertAndRelease ==
  /\ rpc = "convert"
  /\ slot' = IF Converts THEN [slot EXCEPT !.order = Swapped(@)] ELSE slot
  /\ sem0' = IF exists THEN sem0 + 1 ELSE sem0
  /\ rpc' = "publish"
  /\ UNCHANGED <<exists, sem1, writerVars, sent, received, dropped>>

\* tm->quantity = htobe64(tm->quantity), in the segment.
Convert ==
  /\ rpc = "convert"
  /\ slot' = IF Converts THEN [slot EXCEPT !.order = Swapped(@)] ELSE slot
  /\ rpc' = "publish"
  /\ UNCHANGED <<exists, sem0, sem1, writerVars, sent, received, dropped>>

\* The message is multicast, copied or given to a thread.
Publish ==
  /\ rpc = "publish"
  /\ received' = Append(received, slot)
  /\ rpc' = "release"
  /\ UNCHANGED <<exists, sem0, sem1, slot, writerVars, sent, dropped>>

\* semop on semaphore 0; it fails unnoticed when the set is gone.
Release ==
  /\ rpc = "release"
  /\ sem0' = IF exists THEN sem0 + 1 ELSE sem0
  /\ rpc' = "wait"
  /\ UNCHANGED <<exists, sem1, slot, writerVars, sent, received, dropped>>

\* Mutant: the set of semaphores is left behind.
LeaveSet ==
  /\ ReaderLeaves /\ exists /\ rpc # "gone"
  /\ rpc' = "gone"
  /\ UNCHANGED <<exists, sem0, sem1, slot, writerVars, sent, received, dropped>>

\* SIGINT: intHandler removes the segment and the set.
ReaderLeave ==
  /\ ReaderLeaves /\ exists /\ rpc # "gone"
  /\ exists' = FALSE
  /\ rpc' = IF HandlerExits THEN "gone" ELSE rpc
  /\ UNCHANGED <<sem0, sem1, slot, writerVars, sent, received, dropped>>
-----------------------------------------------------------------------------
Writer ==
  \/ Acquire \/ AcquireFails \/ Attach \/ AttachFails
  \/ WriteText \/ WriteQuantity \/ Post \/ PostFails

Reader == Take \/ TakeFails \/ Convert \/ Publish \/ Release

Next ==
  \/ \E m \in Messages : Call(m)
  \/ Writer \/ Reader
  \/ WriterLeave \/ ReaderLeave

Spec == Init /\ [][Next]_vars
-----------------------------------------------------------------------------
(* Properties *)

\* Writer and reader are never both at work on the segment, the removal of
\* the set included: no message is torn.
Exclusion == ~(WriterHolds /\ ReaderHolds)

\* A message that semaphore 1 announced and the reader has not published.
InFlight == sem1 > 0 \/ rpc \in {"convert", "publish"}

\* The slot implements a channel of capacity one: what is published is what
\* was sent, whole, in order, once, its quantity swapped exactly once.  Nothing
\* is skipped, unless the reader exits with a message in hand.
Channel == INSTANCE Handoff
  WITH Items <- {Whole(m) : m \in Messages},
       MayLose <- ReaderLeaves /\ HandlerExits,
       chan <- IF InFlight THEN <<Last(sent)>> ELSE << >>

IsChannel == Channel!Spec
=============================================================================
