----------------------------- MODULE ProducerHash -----------------------------
(***************************************************************************)
(* How a thread that pushes to an inbox finds its queue in it              *)
(* (get_or_add_implicit_producer in concurrentqueue.h): a hash table from  *)
(* thread ids to producers, replaced by a larger one when it is half full, *)
(* by one thread while the others go on.  Tables are never freed; a thread *)
(* that is only in an old one adds itself to the new one when it comes by. *)
(* A new producer is linked into the list that the consumer walks.         *)
(*                                                                         *)
(* One action per access to what is shared; memory is sequentially         *)
(* consistent.  The reactor threads that push never end, so no producer is *)
(* ever inactive: recycling one and the marks that a thread's exit leaves  *)
(* in the tables are not modelled.                                         *)
(***************************************************************************)
EXTENDS Naturals, Sequences, FiniteSets

CONSTANTS
  Thread,                             \* the reactors that push
  INITIAL_IMPLICIT_PRODUCER_HASH_SIZE,
  hash_thread_id,                     \* what the function returns for each thread
  MallocMayFail,                      \* whether there may be no memory
  invalid                             \* invalid_thread_id, the null pointer

ASSUME HashAssumption ==
  /\ IsFiniteSet(Thread)
  /\ INITIAL_IMPLICIT_PRODUCER_HASH_SIZE \in Nat \ {0, 1}   \* a power of two in the code
  /\ hash_thread_id \in [Thread -> Nat]
  /\ MallocMayFail \in BOOLEAN
  /\ invalid \notin Thread /\ invalid \notin Nat

VARIABLES
  hashes,            \* the tables; the prev of each is the one before it
  count,             \* implicitProducerHashCount
  resizeInProgress,
  producers,         \* the producers that were created: the thread of each
  nextProducer,      \* the link of each in the list
  producerListTail,
  pc, mainHash, hash, index, newCount, producer, prevTail, \* the locals of each thread
  result             \* what each call returned last, and never another

shared == <<hashes, count, resizeInProgress>>
list == <<producers, nextProducer, producerListTail>>
locals == <<mainHash, hash, index, newCount, producer, prevTail>>
vars == <<shared, list, pc, locals, result>>

EmptyTable(n) == [i \in 0 .. n - 1 |-> [key |-> invalid, value |-> invalid]]

Init ==
  /\ hashes = <<EmptyTable(INITIAL_IMPLICIT_PRODUCER_HASH_SIZE)>>
  /\ count = 0
  /\ resizeInProgress = FALSE
  /\ producers = <<>>
  /\ nextProducer = <<>>
  /\ producerListTail = 0
  /\ pc = [t \in Thread |-> "idle"]
  /\ mainHash = [t \in Thread |-> 0]
  /\ hash = [t \in Thread |-> 0]
  /\ index = [t \in Thread |-> 0]
  /\ newCount = [t \in Thread |-> 0]
  /\ producer = [t \in Thread |-> 0]
  /\ prevTail = [t \in Thread |-> 0]
  /\ result = [t \in Thread |-> 0]

Capacity(k) == Cardinality(DOMAIN hashes[k])

\* The slot a thread is at in table k.
At(t, k) == index[t] % Capacity(k)

Transition(t, from, to) == pc[t] = from /\ pc' = [pc EXCEPT ![t] = to]
Go(t, to) == pc' = [pc EXCEPT ![t] = to]

\* The call ends; locals are gone.
Forget(t) ==
  /\ mainHash' = [mainHash EXCEPT ![t] = 0]
  /\ hash' = [hash EXCEPT ![t] = 0]
  /\ index' = [index EXCEPT ![t] = 0]
  /\ newCount' = [newCount EXCEPT ![t] = 0]
  /\ producer' = [producer EXCEPT ![t] = 0]
  /\ prevTail' = [prevTail EXCEPT ![t] = 0]

Return(t, value) ==
  /\ Go(t, "idle")
  /\ Forget(t)
  /\ result' = [result EXCEPT ![t] = value]

\* implicitProducerHashCount when a call fails.  Mutant: not undone.
CountedStill == count
CountedOut == count - 1

Fail(t) ==
  /\ MallocMayFail
  /\ count' = CountedOut
  /\ Go(t, "idle")
  /\ Forget(t)
  /\ UNCHANGED result

-----------------------------------------------------------------------------
\* Looking for the thread in the current table and in those before it

Call(t) ==
  /\ Transition(t, "idle", "probe")
  /\ mainHash' = [mainHash EXCEPT ![t] = Len(hashes)]
  /\ hash' = [hash EXCEPT ![t] = Len(hashes)]
  /\ index' = [index EXCEPT ![t] = hash_thread_id[t]]
  /\ UNCHANGED <<shared, list, newCount, producer, prevTail, result>>

Probed(t) == hashes[hash[t]][At(t, hash[t])]

Found(t) ==
  /\ pc[t] = "probe" /\ Probed(t).key = t
  /\ IF hash[t] = mainHash[t]
     THEN Return(t, Probed(t).value)
     ELSE /\ Go(t, "readd")
          /\ index' = [index EXCEPT ![t] = hash_thread_id[t]]
          /\ UNCHANGED <<mainHash, hash, newCount, producer, prevTail, result>>
  /\ UNCHANGED <<shared, list>>

\* The value stays in the table it was found in; index moves on.
FoundValue(t) ==
  (CHOOSE s \in {hashes[hash[t]][i] : i \in DOMAIN hashes[hash[t]]} : s.key = t).value

PassOver(t) ==
  /\ pc[t] = "probe" /\ Probed(t).key \notin {t, invalid}
  /\ index' = [index EXCEPT ![t] = At(t, hash[t]) + 1]
  /\ UNCHANGED <<shared, list, pc, mainHash, hash, newCount, producer, prevTail, result>>

\* There is no table before the one that was probed.  Mutant: they are not
\* looked at.
OldestAtOnce(t) == TRUE
Oldest(t) == hash[t] = 1

NotHere(t) ==
  /\ pc[t] = "probe" /\ Probed(t).key = invalid
  /\ hash' = [hash EXCEPT ![t] = @ - 1]
  /\ index' = [index EXCEPT ![t] = hash_thread_id[t]]
  /\ Go(t, IF Oldest(t) THEN "count" ELSE "probe")
  /\ UNCHANGED <<shared, list, mainHash, newCount, producer, prevTail, result>>

\* The CAS that puts a thread into the first empty slot of its main table.
Claim(t, value) ==
  /\ hashes[mainHash[t]][At(t, mainHash[t])].key = invalid
  /\ hashes' = [hashes EXCEPT ![mainHash[t]][At(t, mainHash[t])] = [key |-> t, value |-> value]]

Taken(t, from) ==
  /\ pc[t] = from /\ hashes[mainHash[t]][At(t, mainHash[t])].key # invalid
  /\ index' = [index EXCEPT ![t] = At(t, mainHash[t]) + 1]
  /\ UNCHANGED <<shared, list, pc, mainHash, hash, newCount, producer, prevTail, result>>

\* It is added to the table that was current when the call began.
ReAdd(t) ==
  \/ /\ pc[t] = "readd"
     /\ Claim(t, FoundValue(t))
     /\ Return(t, FoundValue(t))
     /\ UNCHANGED <<count, resizeInProgress, list>>
  \/ Taken(t, "readd")

-----------------------------------------------------------------------------
\* Adding a thread that is in none

CountIn(t) ==
  /\ Transition(t, "count", "loop")
  /\ count' = count + 1
  /\ newCount' = [newCount EXCEPT ![t] = count + 1]
  /\ UNCHANGED <<hashes, resizeInProgress, list, mainHash, hash, index, producer, prevTail, result>>

HalfFull(t, k) == newCount[t] >= Capacity(k) \div 2

\* The first thread that finds the table half full takes the lock.
TestAndSet(t) ==
  /\ pc[t] = "loop"
  /\ LET locks == HalfFull(t, mainHash[t]) /\ ~resizeInProgress
     IN /\ Go(t, IF locks THEN "resize" ELSE "fit")
        /\ resizeInProgress' = (resizeInProgress \/ locks)
  /\ UNCHANGED <<hashes, count, list, locals, result>>

\* The capacity that the loop has after some rounds, and where it stops: when
\* the threads will not fill the table by half.
Doubled(n) ==
  LET capacity[i \in Nat] == IF i = 0 THEN 2 * n ELSE 2 * capacity[i - 1]
  IN capacity

NewCapacity(t, n) ==
  LET enough(i) == newCount[t] < Doubled(n)[i] \div 2
  IN Doubled(n)[CHOOSE i \in 0 .. newCount[t] : enough(i) /\ \A j \in 0 .. i - 1 : ~enough(j)]

\* The table may have grown before the lock was taken.
Resize(t) ==
  LET n == Len(hashes)
  IN /\ Transition(t, "resize", "unlock")
     /\ IF HalfFull(t, n)
        THEN /\ hashes' = Append(hashes, EmptyTable(NewCapacity(t, Capacity(n))))
             /\ mainHash' = [mainHash EXCEPT ![t] = n + 1]
        ELSE /\ mainHash' = [mainHash EXCEPT ![t] = n]
             /\ UNCHANGED hashes
     /\ UNCHANGED <<count, resizeInProgress, list, hash, index, newCount, producer, prevTail, result>>

\* No memory for a table: the thread is counted out and gives the lock back.
ResizeFails(t) ==
  /\ pc[t] = "resize" /\ HalfFull(t, Len(hashes))
  /\ MallocMayFail
  /\ count' = CountedOut
  /\ Go(t, "giveup")
  /\ UNCHANGED <<hashes, resizeInProgress, list, locals, result>>

\* The lock is given back by whoever held it.  Mutant: not by a call that fails.
ReleaseAfterSuccess(t) == resizeInProgress' = (pc[t] = "giveup")
Release(t) == resizeInProgress' = FALSE

Unlock(t) ==
  /\ Release(t)
  /\ \/ Transition(t, "unlock", "fit") /\ UNCHANGED locals
     \/ Transition(t, "giveup", "idle") /\ Forget(t)
  /\ UNCHANGED <<hashes, count, list, result>>

\* Less than three quarters full is good enough, even for the old table;
\* else the thread waits for the one that resizes.  Mutant: it does not.
FitsAlways(t) == TRUE
Fits(t) ==
  newCount[t] < Capacity(mainHash[t]) \div 2 + Capacity(mainHash[t]) \div 4

CreateProducer(t) ==
  /\ pc[t] = "fit" /\ Fits(t)
  /\ producers' = Append(producers, t)
  /\ nextProducer' = Append(nextProducer, producerListTail)
  /\ prevTail' = [prevTail EXCEPT ![t] = producerListTail]
  /\ producer' = [producer EXCEPT ![t] = Len(producers) + 1]
  /\ Go(t, "link")
  /\ UNCHANGED <<shared, producerListTail, mainHash, hash, index, newCount, result>>

CreateFails(t) ==
  /\ pc[t] = "fit" /\ Fits(t)
  /\ Fail(t)
  /\ UNCHANGED <<hashes, resizeInProgress, list>>

Wait(t) ==
  /\ Transition(t, "fit", "loop") /\ ~Fits(t)
  /\ mainHash' = [mainHash EXCEPT ![t] = Len(hashes)]
  /\ UNCHANGED <<shared, list, hash, index, newCount, producer, prevTail, result>>

\* A CAS of the list's tail that fails.  Mutant: the link stays as it was.
RelinkNot(t) == UNCHANGED nextProducer
Relink(t) == nextProducer' = [nextProducer EXCEPT ![producer[t]] = producerListTail]

\* add_producer: linked in front of the producer that was read as the last.
Link(t) ==
  /\ pc[t] = "link"
  /\ \/ /\ producerListTail = prevTail[t]
        /\ producerListTail' = producer[t]
        /\ Go(t, "insert")
        /\ index' = [index EXCEPT ![t] = hash_thread_id[t]]
        /\ UNCHANGED <<nextProducer, prevTail>>
     \/ /\ producerListTail # prevTail[t]
        /\ Relink(t)
        /\ prevTail' = [prevTail EXCEPT ![t] = producerListTail]
        /\ UNCHANGED <<producerListTail, pc, index>>
  /\ UNCHANGED <<shared, producers, mainHash, hash, newCount, producer, result>>

\* The table may have been replaced since the thread chose it.
Insert(t) ==
  \/ /\ pc[t] = "insert"
     /\ Claim(t, producer[t])
     /\ Return(t, producer[t])
     /\ UNCHANGED <<count, resizeInProgress, list>>
  \/ Taken(t, "insert")

-----------------------------------------------------------------------------
Continue(t) ==
  \/ Found(t) \/ PassOver(t) \/ NotHere(t) \/ ReAdd(t) \/ CountIn(t) \/ TestAndSet(t)
  \/ Resize(t) \/ ResizeFails(t) \/ Unlock(t) \/ CreateProducer(t) \/ CreateFails(t)
  \/ Wait(t) \/ Link(t) \/ Insert(t)

Next == \E t \in Thread : Call(t) \/ Continue(t)

Spec == Init /\ [][Next]_vars

\* Every thread that is in a call goes on.
FairSpec == Spec /\ \A t \in Thread : WF_vars(Continue(t))

-----------------------------------------------------------------------------
\* Type correctness of the tables, the list and the locals of the calls.
TypeOK ==
  /\ \A k \in DOMAIN hashes : \A i \in DOMAIN hashes[k] :
       \/ hashes[k][i] = [key |-> invalid, value |-> invalid]
       \/ hashes[k][i].key \in Thread /\ hashes[k][i].value \in DOMAIN producers
  /\ count \in 0 .. Cardinality(Thread)
  /\ resizeInProgress \in BOOLEAN
  /\ producers \in Seq(Thread)
  /\ DOMAIN nextProducer = DOMAIN producers
  /\ pc \in [Thread -> {"idle", "probe", "readd", "count", "loop", "resize", "giveup",
                        "unlock", "fit", "link", "insert"}]
  /\ \A t \in Thread : mainHash[t] \in 0 .. Len(hashes) /\ hash[t] \in 0 .. mainHash[t]

Keys(k) == {hashes[k][i].key : i \in DOMAIN hashes[k]} \ {invalid}

Occupied(k) == {i \in DOMAIN hashes[k] : hashes[k][i].key # invalid}

\* Why no probe runs for ever ("at least one slot is free in the hash table"):
\* however the calls of several threads overlap with the resizes, no table is
\* ever full, and the one counter counts the threads of all tables, and those
\* on their way into one, once.
NeverFull ==
  /\ \A k \in DOMAIN hashes : Cardinality(Occupied(k)) < Capacity(k)
  /\ count = Cardinality((UNION {Keys(k) : k \in DOMAIN hashes}) \union
                {t \in Thread : pc[t] \in {"loop", "resize", "unlock", "fit", "link", "insert"}})

\* A thread has one producer, in whichever tables it is, and no other thread
\* has it: else its messages could overtake each other, or two threads would
\* write to one queue.
OneProducer ==
  /\ \A k \in DOMAIN hashes : \A i, j \in DOMAIN hashes[k] :
       hashes[k][i].key = hashes[k][j].key => i = j \/ hashes[k][i].key = invalid
  /\ \A t \in Thread : \A k \in DOMAIN hashes : \A i \in DOMAIN hashes[k] :
       hashes[k][i].key = t /\ result[t] # 0 => hashes[k][i].value = result[t]
  /\ \A t, u \in Thread : result[t] = result[u] /\ result[t] # 0 => t = u

\* A call returns what the calls of the thread before it returned, also after
\* another thread has replaced the table.
SameProducer ==
  [][\A t \in Thread : result[t] # 0 => result'[t] = result[t]]_result

\* The consumer can walk to every producer that a call has returned: a set that
\* holds the end of the list and, with a producer, the one it is linked to holds
\* it too.
OnTheList == \A t \in Thread : result[t] # 0 =>
  \A S \in SUBSET DOMAIN producers :
    /\ producerListTail \in S \union {0}
    /\ \A p \in S : nextProducer[p] \in S \union {0}
    => result[t] \in S

\* Every call returns, also that of a thread that waits for another to
\* resize, unless resizes fail for want of memory again and again.
CallsReturn ==
  []<>(\E t \in Thread : pc[t] = "giveup") \/ \A t \in Thread : pc[t] # "idle" ~> pc[t] = "idle"
=============================================================================
