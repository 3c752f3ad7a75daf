----------------------------- MODULE DelayRing -----------------------------
(***************************************************************************)
(* The delay ring of delay_ring.cc: examples whose prediction is complete  *)
(* wait in it for the threads that still have to train on them and for the *)
(* message relay, which has to get the answer of the master node.  With it *)
(* come the routines of gd.cc that end the life of an example              *)
(* (finish_example, output_and_account_example) and the relay thread of    *)
(* message_relay.cc.                                                       *)
(*                                                                         *)
(* A thread that calls several of these routines in a row does so step by  *)
(* step: `pc` tells where it is.  A step is a critical section, or the     *)
(* unlocked accesses to shared state between two of them; the locks that   *)
(* are held across steps are variables (ex_lock, delay_lock).  Unlocked    *)
(* accesses are taken to happen in program order.                          *)
(***************************************************************************)
EXTENDS ExampleRing, FiniteSets

CONSTANTS
  Training,         \* global.training
  Globals           \* the other settings a run may have, see Settings

\* "backprop" stands for --backprop and --corrective, which differ in the
\* values they compute only.
GlobalUpdates == {"none", "backprop", "delayed_global"}

\* The fields of `global` that say who trains on what: a socket to a master
\* (--predictto, --sendto), the number of this node, the kind of update.
Settings == [local_prediction : BOOLEAN, unique_id_zero : BOOLEAN,
             global_update : GlobalUpdates]

ASSUME DelayAssumption == Training \in BOOLEAN /\ Globals \subseteq Settings

VARIABLE global    \* what parse_args left behind; never changes

LocalPrediction == global.local_prediction
UniqueIdZero == global.unique_id_zero
GlobalUpdate == global.global_update

\* mesg of initialize_delay_ring: the relay takes part.
Mesg == IF LocalPrediction /\ (UniqueIdZero \/ GlobalUpdate # "none")
          THEN 1 ELSE 0

Relay == NumThreads                    \* its index in delay_indices
GlobalTaker(t) == t + Mesg + NumThreads
GlobalTraining == GlobalUpdate # "none" /\ LocalPrediction
NumTakers == NumThreads + Mesg + (IF GlobalUpdate # "none" THEN NumThreads ELSE 0)
Takers == 0 .. NumTakers - 1
Actors == Threads \cup (IF Mesg = 1 THEN {Relay} ELSE {})

Null == -1    \* a null pointer, a free lock

VARIABLES
  delay_indices, delay_ring, threads_to_use, local_index, global_index,
  \* condition variables: the actors that wait
  delay_empty, delay_nonempty, global_delay_nonempty,
  \* who holds ex->lock of each slot, and the mutex delay across two steps
  ex_lock, delay_lock,
  \* accounting: sd->example_number, and global.local_example_number
  sd_example_number, local_example_number,
  \* a null pointer was dereferenced: the process is gone
  crashed,
  \* per actor: where it is, and the locals of the routine it is in: the slot
  \* of the example at hand, an index of the delay ring, the delay index in
  \* use, the number of threads to delay for, a value read and not yet written
  pc, held, index, taker, count, reg,
  \* the connection to the master: predictions sent, answers read, and
  \* whether the sending side is shut down
  sent, answered, shut

delayVars == <<delay_indices, delay_ring, threads_to_use, local_index,
               global_index, delay_empty, delay_nonempty,
               global_delay_nonempty, delay_lock>>
countVars == <<sd_example_number, local_example_number>>
locals == <<held, index, taker, count, reg>>
netVars == <<sent, answered, shut>>

DelayInit ==
  /\ global \in Globals
  /\ delay_indices = [i \in Takers |-> 0]
  /\ delay_ring = [s \in Slots |-> Null]
  /\ threads_to_use = [s \in Slots |-> 0]
  /\ local_index = 0
  /\ global_index = 0
  /\ delay_empty = {} /\ delay_nonempty = {} /\ global_delay_nonempty = {}
  /\ ex_lock = [s \in Slots |-> Null]
  /\ delay_lock = Null
  /\ sd_example_number = 0 /\ local_example_number = 0
  /\ crashed = FALSE
  /\ held = [a \in Actors |-> 0]
  /\ index = [a \in Actors |-> 0]
  /\ taker = [a \in Actors |-> a]
  /\ count = [a \in Actors |-> 0]
  /\ reg = [a \in Actors |-> 0]
  /\ sent = 0 /\ answered = 0 /\ shut = FALSE

Goto(a, label) == pc' = [pc EXCEPT ![a] = label]

\* Where an actor goes on when it is through with an example: the top of
\* gd_thread's loop, or of mesg_relay's.
Top(a) == IF a = Relay THEN "relay" ELSE "peek"

Locked(s) == ex_lock[s] # Null
DelayFree == delay_lock = Null

-----------------------------------------------------------------------------
(* Slips one could make in the operators below, to be put in their place.  *)

SameIndex(i) == i                                  \* NextIndex
NoUser(i) == threads_to_use[i] = 0                 \* LastUser
AnyToFinish(s) == TRUE                             \* LastToFinish
CountWithoutRelay(n) == n                          \* DelayCount
SignalNobody(waiters) == {waiters}                 \* SignalOne
DrainedLocally(t) == delay_indices[t] = local_index    \* Drained

-----------------------------------------------------------------------------
(* return_example                                                          *)

\* Before any lock: which slot of the delay ring, and what is in it.
ReturnExample(a) ==
  LET i == SlotOf(delay_indices[taker[a]])
  IN  /\ pc[a] = "return"
      /\ index' = [index EXCEPT ![a] = i]
      /\ held' = [held EXCEPT ![a] = delay_ring[i]]
      /\ Goto(a, "advance")
      /\ UNCHANGED <<ringVars, delayVars, ex_lock, countVars, crashed, netVars,
                     taker, count, reg>>

NextIndex(i) == i + 1

\* delay_indices[thread]++, under the mutex delay.
Advance(a) ==
  /\ pc[a] = "advance"
  /\ DelayFree
  /\ delay_indices' = [delay_indices EXCEPT ![taker[a]] = NextIndex(@)]
  /\ Goto(a, "use")
  /\ UNCHANGED <<ringVars, delay_ring, threads_to_use, local_index,
                 global_index, delay_empty, delay_nonempty,
                 global_delay_nonempty, delay_lock, ex_lock, countVars,
                 crashed, netVars, locals>>

\* The last of the threads an example was delayed for.
LastUser(i) == threads_to_use[i] = 1

\* What comes after return_example: the relay hands the example on, a learner
\* trains on it.
AfterReturn(a) == IF a = Relay THEN "hand_on" ELSE "train"

\* --threads_to_use[index], under ret->lock; the last one keeps the lock
\* until it has cleared the slot.  If the slot was empty there is no lock to
\* take: the process dies.
UseReturned(a) ==
  /\ pc[a] = "use"
  /\ IF held[a] = Null
       THEN /\ crashed' = TRUE
            /\ UNCHANGED <<threads_to_use, ex_lock, pc>>
       ELSE /\ ~Locked(held[a])
            /\ threads_to_use' = [threads_to_use EXCEPT ![index[a]] = @ - 1]
            /\ IF LastUser(index[a])
                 THEN /\ ex_lock' = [ex_lock EXCEPT ![held[a]] = a]
                      /\ Goto(a, "clear")
                 ELSE /\ Goto(a, AfterReturn(a))
                      /\ UNCHANGED ex_lock
            /\ UNCHANGED crashed
  /\ UNCHANGED <<ringVars, delay_indices, delay_ring, local_index,
                 global_index, delay_empty, delay_nonempty,
                 global_delay_nonempty, delay_lock, countVars, netVars,
                 locals>>

\* delay_ring[index] = NULL and broadcast, under delay inside ret->lock.
ClearSlot(a) ==
  /\ pc[a] = "clear"
  /\ DelayFree
  /\ delay_ring' = [delay_ring EXCEPT ![index[a]] = Null]
  /\ delay_empty' = {}
  /\ ex_lock' = [ex_lock EXCEPT ![held[a]] = Null]
  /\ Goto(a, AfterReturn(a))
  /\ UNCHANGED <<ringVars, delay_indices, threads_to_use, local_index,
                 global_index, delay_nonempty, global_delay_nonempty,
                 delay_lock, countVars, crashed, netVars, locals>>

-----------------------------------------------------------------------------
(* delay_example                                                           *)

\* delay_count: how many will take the example out of the delay ring.
DelayCount(n) ==
  n + Mesg + (IF GlobalUpdate = "backprop" /\ LocalPrediction THEN n ELSE 0)

\* Nobody will: the example is accounted for and freed at once.  Otherwise
\* the slot of the delay ring is chosen, before any lock.
DelayExample(a) ==
  /\ pc[a] = "delay"
  /\ IF DelayCount(count[a]) = 0
       THEN Goto(a, "account") /\ UNCHANGED index
       ELSE /\ index' = [index EXCEPT ![a] = SlotOf(local_index)]
            /\ Goto(a, "insert")
  /\ UNCHANGED <<ringVars, delayVars, ex_lock, countVars, crashed, netVars,
                 held, taker, count, reg>>

\* After delay_example, predict still has to unlock the example.
AfterDelay(a) == IF ex_lock[held[a]] = a THEN "unlock" ELSE Top(a)

SlotBusy(a) == delay_ring[index[a]] # Null

\* while (delay_ring[index] != NULL) wait on delay_empty: a caller that comes
\* from predict holds ex->lock all the while.  Then the example is entered
\* and local_index moves on.  When nobody is to train on it (count = 0) the
\* mutex stays taken for one more step.
InsertExample(a) ==
  LET n == DelayCount(count[a])
  IN  /\ pc[a] = "insert"
      /\ DelayFree
      /\ a \notin delay_empty
      /\ IF SlotBusy(a)
           THEN /\ delay_empty' = delay_empty \cup {a}
                /\ UNCHANGED <<delay_ring, threads_to_use, threads_to_finish,
                               local_index, delay_lock, delay_nonempty, pc>>
           ELSE /\ delay_ring' = [delay_ring EXCEPT ![index[a]] = held[a]]
                /\ threads_to_use' = [threads_to_use EXCEPT ![index[a]] = n]
                /\ threads_to_finish' =
                     [threads_to_finish EXCEPT ![held[a]] = n]
                /\ local_index' = local_index + 1
                /\ IF count[a] = 0
                     THEN /\ delay_lock' = a
                          /\ Goto(a, "skip")
                          /\ UNCHANGED delay_nonempty
                     ELSE /\ delay_nonempty' = {}
                          /\ Goto(a, AfterDelay(a))
                          /\ UNCHANGED delay_lock
                /\ UNCHANGED delay_empty
      /\ UNCHANGED <<in_use, contents, parsed_examples, used_index, done,
                     example_available, aborted, parser_pc, source,
                     delay_indices, global_index, global_delay_nonempty,
                     ex_lock, countVars, crashed, netVars, locals>>

\* count = 0: the learners pass over the example.
SkipForAll(a) ==
  /\ pc[a] = "skip"
  /\ delay_indices' = [i \in Takers |-> IF i \in Threads
                                          THEN delay_indices[i] + 1
                                          ELSE delay_indices[i]]
  /\ delay_nonempty' = {}
  /\ delay_lock' = Null
  /\ Goto(a, AfterDelay(a))
  /\ UNCHANGED <<ringVars, delay_ring, threads_to_use, local_index,
                 global_index, delay_empty, global_delay_nonempty, ex_lock,
                 countVars, crashed, netVars, locals>>

-----------------------------------------------------------------------------
(* finish_example, output_and_account_example, free_example                *)

\* The thread that brings threads_to_finish to zero ends the example.
LastToFinish(s) == threads_to_finish[s] = 1

FinishExample(a) ==
  LET s == held[a]
  IN  /\ pc[a] = "finish"
      /\ ~Locked(s)
      /\ threads_to_finish' = [threads_to_finish EXCEPT ![s] = @ - 1]
      /\ Goto(a, IF LastToFinish(s) THEN "account" ELSE Top(a))
      /\ UNCHANGED <<in_use, contents, parsed_examples, used_index, done,
                     example_available, aborted, parser_pc, source, delayVars,
                     ex_lock, countVars, crashed, netVars, locals>>

\* output_and_account_example adds to the statistics of *sd with no lock;
\* example_number, which it increments twice, stands for all of them.
AccountBegin(a) ==
  /\ pc[a] = "account"
  /\ reg' = [reg EXCEPT ![a] = sd_example_number]
  /\ Goto(a, "account_end")
  /\ UNCHANGED <<ringVars, delayVars, ex_lock, countVars, crashed, netVars,
                 held, index, taker, count>>

AccountEnd(a) ==
  /\ pc[a] = "account_end"
  /\ sd_example_number' = reg[a] + 2
  /\ local_example_number' = local_example_number + 1
  /\ reg' = [reg EXCEPT ![a] = 0]
  /\ Goto(a, "free")
  /\ UNCHANGED <<ringVars, delayVars, ex_lock, crashed, netVars, held, index,
                 taker, count>>

Free(a) ==
  /\ pc[a] = "free"
  /\ FreeExample(held[a])
  /\ Goto(a, AfterDelay(a))
  /\ UNCHANGED <<delayVars, ex_lock, countVars, crashed, netVars, locals>>

-----------------------------------------------------------------------------
(* thread_done                                                             *)

\* The part of thread_done under the mutex delay: nothing is left to train on.
Drained(t) ==
  /\ delay_indices[t] = local_index \/ GlobalUpdate = "delayed_global"
  /\ GlobalTraining =>
       /\ delay_indices[GlobalTaker(t)] = global_index
       /\ global_index = local_index

-----------------------------------------------------------------------------
(* The relay thread                                                        *)

\* The next answer of the master has been read.  The master (external)
\* answers the predictions in the order they were sent.
ReadAnswer ==
  /\ pc[Relay] = "relay"
  /\ answered < sent
  /\ answered' = answered + 1
  /\ Goto(Relay, "blocking_get")
  /\ UNCHANGED <<ringVars, delayVars, ex_lock, countVars, crashed, sent, shut,
                 locals>>

\* The master closes the connection after its last answer.
MasterCloses ==
  /\ pc[Relay] = "relay"
  /\ shut /\ answered = sent
  /\ Goto(Relay, "exit")
  /\ UNCHANGED <<ringVars, delayVars, ex_lock, countVars, crashed, netVars,
                 locals>>

\* blocking_get_delay_example: the slot the relay's own index points to.
RelaySlot == SlotOf(delay_indices[Relay])

AwaitNonempty ==
  /\ pc[Relay] = "blocking_get"
  /\ DelayFree
  /\ Relay \notin delay_nonempty
  /\ delay_ring[RelaySlot] = Null
  /\ delay_nonempty' = delay_nonempty \cup {Relay}
  /\ UNCHANGED <<ringVars, delay_indices, delay_ring, threads_to_use,
                 local_index, global_index, delay_empty,
                 global_delay_nonempty, delay_lock, ex_lock, countVars,
                 crashed, netVars, locals, pc>>

FoundNonempty ==
  /\ pc[Relay] = "blocking_get"
  /\ DelayFree
  /\ Relay \notin delay_nonempty
  /\ delay_ring[RelaySlot] # Null
  /\ taker' = [taker EXCEPT ![Relay] = Relay]
  /\ Goto(Relay, "return")
  /\ UNCHANGED <<ringVars, delayVars, ex_lock, countVars, crashed, netVars,
                 held, index, count, reg>>

\* pthread_cond_signal(&global_delay_nonempty): one waiter, if any, goes on.
SignalOne(waiters) ==
  IF waiters = {} THEN {{}} ELSE {waiters \ {a} : a \in waiters}

\* delay_global_example, in the modes that train on the global prediction.
HandOn ==
  /\ pc[Relay] = "hand_on"
  /\ GlobalUpdate = "none" \/ DelayFree
  /\ IF GlobalUpdate = "none"
       THEN UNCHANGED <<global_index, global_delay_nonempty>>
       ELSE /\ global_index' = global_index + 1
            /\ global_delay_nonempty' \in SignalOne(global_delay_nonempty)
  /\ Goto(Relay, "finish")
  /\ UNCHANGED <<ringVars, delay_indices, delay_ring, threads_to_use,
                 local_index, delay_empty, delay_nonempty, delay_lock,
                 ex_lock, countVars, crashed, netVars, locals>>

RelayStep ==
  /\ Mesg = 1
  /\ \/ ReadAnswer
     \/ MasterCloses
     \/ AwaitNonempty
     \/ FoundNonempty
     \/ HandOn

\* The routines every actor may be in.
RoutineStep(a) ==
  \/ ReturnExample(a)
  \/ Advance(a)
  \/ UseReturned(a)
  \/ ClearSlot(a)
  \/ DelayExample(a)
  \/ InsertExample(a)
  \/ SkipForAll(a)
  \/ FinishExample(a)
  \/ AccountBegin(a)
  \/ AccountEnd(a)
  \/ Free(a)
=============================================================================
