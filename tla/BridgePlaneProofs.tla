--------------------------- MODULE BridgePlaneProofs ---------------------------
(***************************************************************************)
(* Proofs about BridgePlane, for any number of calls and nodes, any        *)
(* request timeout and any targets: the queue for the remote backend's     *)
(* mutex, and how long it can keep a call past its deadline.               *)
(***************************************************************************)
EXTENDS BridgePlane, TLAPS

--------------------------------------------------------------------------------
(* The inductive invariant *)

CallType ==
    /\ pc \in [Call -> {"idle", "gate", "handler", "waiting", "remote",
                        "signed", "failed"}]
    /\ method \in [Call -> SigningRPCs \cup {"GetPublicKey", "Sign", "SignRaw"}]
    /\ peer \in [Call -> Ids \cup {nil}]
    /\ left \in [Call -> Int]
    /\ todo \in [Call -> Nat]
    /\ mu \in Call \cup {nil}
    /\ waiters \in Seq(Call)
    /\ starving \in BOOLEAN

\* The mutex is held by the one call in the remote service, and the queue holds
\* the waiting calls, once each; in starvation mode the mutex is never free.
MutexInv ==
    /\ \A c \in Call : pc[c] = "remote" <=> mu = c
    /\ \A c \in Call : pc[c] = "waiting" <=> \E i \in 1..Len(waiters) : waiters[i] = c
    /\ \A i, j \in 1..Len(waiters) : waiters[i] = waiters[j] => i = j
    /\ starving => mu # nil

\* What a call has left at each place: no time passes before it goes to the
\* backend, and a signature is made only within the deadline.
LeftInv ==
    \A c \in Call :
        /\ left[c] <= RequestTimeout
        /\ pc[c] \in {"gate", "handler"} => left[c] = RequestTimeout
        /\ pc[c] = "handler" => todo[c] = SignRawCalls(method[c])
        /\ pc[c] = "signed" => left[c] >= 0 /\ todo[c] < SignRawCalls(method[c])
        /\ pc[c] \in {"waiting", "remote"} => todo[c] \in 1..SignRawCalls(method[c])
        /\ pc[c] \in {"remote", "failed"} =>
              left[c] >= -(RequestTimeout * SignRawCalls(method[c]))

\* How far the calls ahead of a waiting call can outlast it: not at all in its
\* first SignRaw, by a request timeout in its second, and by one more once a
\* newcomer has overtaken it, which turns starvation mode on.
Slack(c) ==
    (IF todo[c] = SignRawCalls(method[c]) THEN 0 ELSE RequestTimeout)
    + (IF starving THEN RequestTimeout ELSE 0)

QueueInv ==
    \A i \in 1..Len(waiters) :
        /\ left[waiters[i]] >= -Slack(waiters[i])
        /\ mu # nil => left[mu] <= left[waiters[i]] + Slack(waiters[i])
        /\ \A j \in 1..(i - 1) :
              left[waiters[j]] <= left[waiters[i]] + Slack(waiters[i])

IInv == CallType /\ MutexInv /\ LeftInv /\ QueueInv

--------------------------------------------------------------------------------
(* Queues and bounds *)

\* mu.Lock with the mutex taken puts a call at the end of the queue.
LEMMA AppendFacts ==
    ASSUME NEW s \in Seq(Call), NEW c \in Call
    PROVE  /\ Append(s, c) \in Seq(Call) /\ Len(s) \in Nat
           /\ Len(Append(s, c)) = Len(s) + 1
           /\ \A i \in 1..Len(s) : Append(s, c)[i] = s[i]
           /\ Append(s, c)[Len(s) + 1] = c
OBVIOUS

\* The first waiter leaves the queue, the others move up.
LEMMA TailFacts ==
    ASSUME NEW s \in Seq(Call), s # <<>>
    PROVE  /\ Len(s) \in Nat /\ Len(s) >= 1
           /\ Head(s) = s[1] /\ Head(s) \in Call
           /\ Tail(s) \in Seq(Call) /\ Len(Tail(s)) = Len(s) - 1
           /\ \A i \in 1..(Len(s) - 1) : Tail(s)[i] = s[i + 1]
OBVIOUS

\* Everybody in the queue is a waiting call.
LEMMA QueueFacts ==
    ASSUME CallType, MutexInv
    PROVE  /\ Len(waiters) \in Nat
           /\ \A i \in 1..Len(waiters) : waiters[i] \in Call /\ pc[waiters[i]] = "waiting"
<1>1. Len(waiters) \in Nat /\ \A i \in 1..Len(waiters) : waiters[i] \in Call
  BY DEF CallType
<1>2. QED
  BY <1>1 DEF MutexInv

\* A handler makes at most two SignRaw calls, and the bound on its overrun is
\* that many request timeouts.
LEMMA SignRawFacts ==
    ASSUME NEW m
    PROVE  /\ SignRawCalls(m) \in 0..2
           /\ SignRawCalls(m) = 0 => RequestTimeout * SignRawCalls(m) = 0
           /\ SignRawCalls(m) = 1 => RequestTimeout * SignRawCalls(m) = RequestTimeout
           /\ SignRawCalls(m) = 2 =>
                 RequestTimeout * SignRawCalls(m) = RequestTimeout + RequestTimeout
BY RequestTimeoutAssumption DEF SignRawCalls

\* A waiting call's bound lies within the bound on its overrun.
LEMMA SlackFacts ==
    ASSUME CallType, LeftInv, NEW c \in Call, pc[c] = "waiting"
    PROVE  /\ Slack(c) \in Int /\ Slack(c) >= 0
           /\ Slack(c) <= RequestTimeout * SignRawCalls(method[c])
           /\ Slack(c) <= MaxOverrun
<1>1. todo[c] \in 1..SignRawCalls(method[c])
  BY DEF LeftInv
<1> DEFINE k == SignRawCalls(method[c])
           one == IF todo[c] = k THEN 0 ELSE RequestTimeout
           two == IF starving THEN RequestTimeout ELSE 0
<1>2. k \in 0..2 /\ todo[c] \in Nat /\ RequestTimeout \in Nat
  BY SignRawFacts, RequestTimeoutAssumption DEF CallType
<1>3. two \in {0, RequestTimeout} /\ one \in {0, RequestTimeout}
  OBVIOUS
<1>4. k = 1 => one = 0
  BY <1>1
<1>5. Slack(c) = one + two
  BY DEF Slack
<1>6. /\ k = 1 => RequestTimeout * k = RequestTimeout
      /\ k = 2 => RequestTimeout * k = RequestTimeout + RequestTimeout
  BY SignRawFacts
<1> HIDE DEF one, two, k
<1>7. 2 * RequestTimeout = RequestTimeout + RequestTimeout
  BY <1>2
<1>8. k \in 1..2
  BY <1>1, <1>2 DEF k
<1>9. QED
  BY <1>2, <1>3, <1>4, <1>5, <1>6, <1>7, <1>8 DEF MaxOverrun, k

\* A call in the queue has not outlived its deadline by more than the bound.
LEMMA WaiterBound ==
    ASSUME IInv, NEW c \in Call, pc[c] = "waiting"
    PROVE  left[c] >= -(RequestTimeout * SignRawCalls(method[c]))
<1> USE RequestTimeoutAssumption DEF IInv
<1>1. PICK i \in 1..Len(waiters) : waiters[i] = c
  BY DEF MutexInv
<1>2. left[c] >= -Slack(c)
  BY <1>1 DEF QueueInv
<1>3. SignRawCalls(method[c]) \in 0..2 /\ left[c] \in Int
  BY SignRawFacts DEF CallType
<1>4. RequestTimeout * SignRawCalls(method[c]) \in Int
  BY <1>3
<1>5. QED
  BY <1>2, <1>3, <1>4, SlackFacts

--------------------------------------------------------------------------------
(* Steps *)

\* The step of a call that neither holds the mutex nor waits for it, before and
\* after the step, disturbs no other call.
LEMMA OutsideQueue ==
    ASSUME IInv, CallType', NEW c \in Call, UNCHANGED muVars,
           pc[c] \notin {"waiting", "remote"}, pc'[c] \notin {"waiting", "remote"},
           \A d \in Call : d # c => /\ pc'[d] = pc[d] /\ left'[d] = left[d]
                                   /\ todo'[d] = todo[d] /\ method'[d] = method[d]
    PROVE  MutexInv' /\ QueueInv'
<1> USE CallAssumption DEF IInv, muVars
<1>1. MutexInv'
  <2>1. \A d \in Call : pc'[d] = "remote" <=> mu' = d
    BY DEF MutexInv
  <2>2. \A d \in Call : pc'[d] = "waiting" <=> \E i \in 1..Len(waiters) : waiters[i] = d
    BY DEF MutexInv
  <2>3. QED
    BY <2>1, <2>2 DEF MutexInv
<1>2. \A i \in 1..Len(waiters) : waiters[i] \in Call /\ waiters[i] # c
  BY QueueFacts
<1>3. mu # nil => mu \in Call /\ mu # c
  BY DEF CallType, MutexInv
<1>4. \A i \in 1..Len(waiters) : Slack(waiters[i])' = Slack(waiters[i])
  BY <1>2 DEF Slack
<1>5. QueueInv'
  <2> SUFFICES ASSUME NEW i \in 1..Len(waiters)
               PROVE  /\ left'[waiters[i]] >= -(Slack(waiters[i]))'
                      /\ mu # nil => left'[mu] <= left'[waiters[i]] + Slack(waiters[i])'
                      /\ \A j \in 1..(i - 1) :
                            left'[waiters[j]] <= left'[waiters[i]] + Slack(waiters[i])'
    BY DEF QueueInv
  <2>1. Len(waiters) \in Nat
    BY DEF CallType
  <2>2. \A j \in 1..(i - 1) : j \in 1..Len(waiters)
    BY <2>1
  <2>3. QED
    BY <1>2, <1>3, <1>4, <2>2 DEF QueueInv
<1>6. QED
  BY <1>1, <1>5

\* The interceptors and the returns of a handler.
LEMMA CallSteps ==
    ASSUME IInv, NEW c \in Call,
           \/ \E m \in Methods, n \in Ids : Arrive(c, m, n)
           \/ Admit(c) \/ Refuse(c) \/ AnswerUnsigned(c) \/ AnswerSigned(c)
    PROVE  IInv'
<1> USE RequestTimeoutAssumption DEF IInv
<1>1. CallType'
  <2>1. mu' = mu /\ waiters' = waiters /\ starving' = starving
    BY DEF muVars, Arrive, Admit, Refuse, AnswerUnsigned, AnswerSigned
  <2>2. CASE \E m \in Methods, n \in Ids : Arrive(c, m, n)
    BY <2>1, <2>2, MethodsAssumption DEF CallType, Arrive
  <2>3. CASE Admit(c)
    <3>1. SignRawCalls(method[c]) \in Nat
      BY SignRawFacts
    <3>2. QED
      BY <2>1, <2>3, <3>1 DEF CallType, Admit
  <2>4. CASE Refuse(c) \/ AnswerUnsigned(c) \/ AnswerSigned(c)
    <3>1. Return(c)
      BY <2>4 DEF Refuse, AnswerUnsigned, AnswerSigned
    <3>2. QED
      BY <2>1, <3>1 DEF CallType, Return
  <2>5. QED
    BY <2>2, <2>3, <2>4
<1>2. LeftInv'
  BY SignRawFacts DEF CallType, LeftInv, Arrive, Admit, Refuse,
     AnswerUnsigned, AnswerSigned, Return
<1>3. /\ UNCHANGED muVars
      /\ pc[c] \notin {"waiting", "remote"} /\ pc'[c] \notin {"waiting", "remote"}
      /\ \A d \in Call : d # c => /\ pc'[d] = pc[d] /\ left'[d] = left[d]
                                  /\ todo'[d] = todo[d] /\ method'[d] = method[d]
  BY DEF CallType, Arrive, Admit, Refuse, AnswerUnsigned, AnswerSigned, Return
<1>4. QED
  BY <1>1, <1>2, <1>3, OutsideQueue

\* mu.Lock with the mutex free: if calls are waiting, this one overtakes them.
LEMMA LockStep ==
    ASSUME IInv, NEW c \in Call, Lock(c)
    PROVE  IInv'
<1> USE RequestTimeoutAssumption, CallAssumption DEF IInv
<1>1. starving' \in BOOLEAN /\ starving' = (waiters # <<>>)
  BY Zenon DEF Lock
<1>2. CallType'
  BY <1>1 DEF CallType, Lock
<1>3. ~starving
  BY DEF MutexInv, Lock
<1>4. MutexInv'
  BY DEF CallType, MutexInv, Lock, GoesToBackend
<1>5. LeftInv'
  <2>1. left[c] >= 0 /\ todo[c] \in 1..SignRawCalls(method[c])
    <3>1. SignRawCalls(method[c]) \in 0..2 /\ todo[c] \in Nat /\ left[c] \in Int
      BY SignRawFacts DEF CallType
    <3>2. todo[c] > 0 /\ pc[c] \in {"handler", "signed"}
      BY DEF Lock, GoesToBackend
    <3>3. QED
      BY <3>1, <3>2 DEF LeftInv
  <2>2. left[c] >= -(RequestTimeout * SignRawCalls(method[c]))
    BY <2>1, SignRawFacts, SMTT(20) DEF CallType
  <2>3. QED
    BY <2>1, <2>2 DEF CallType, LeftInv, Lock
<1>6. QueueInv'
  <2> SUFFICES ASSUME NEW i \in 1..Len(waiters)
               PROVE  /\ left[waiters[i]] >= -(Slack(waiters[i]))'
                      /\ left[c] <= left[waiters[i]] + Slack(waiters[i])'
                      /\ \A j \in 1..(i - 1) :
                            left[waiters[j]] <= left[waiters[i]] + Slack(waiters[i])'
    BY DEF QueueInv, Lock
  <2>1. waiters # <<>> /\ Len(waiters) \in Nat /\ waiters[i] \in Call
    BY DEF CallType
  <2>2. starving'
    BY <1>1, <2>1
  <2>3. pc[waiters[i]] = "waiting"
    BY <2>1 DEF MutexInv
  <2>4. Slack(waiters[i]) \in Int /\ Slack(waiters[i]) >= 0
    BY <2>1, <2>3, SlackFacts
  <2>5. Slack(waiters[i])' = Slack(waiters[i]) + RequestTimeout
    BY <1>3, <2>1, <2>2 DEF Slack, Lock, CallType
  <2>6. left[waiters[i]] \in Int /\ left[c] \in Int /\ left[c] <= RequestTimeout
    BY <2>1 DEF CallType, LeftInv
  <2>7. left[waiters[i]] >= -Slack(waiters[i])
    BY DEF QueueInv
  <2>8. ASSUME NEW j \in 1..(i - 1)
        PROVE  left[waiters[j]] <= left[waiters[i]] + Slack(waiters[i])'
    <3>1. left[waiters[j]] \in Int
      BY <2>1, SMTT(20) DEF CallType
    <3>2. left[waiters[j]] <= left[waiters[i]] + Slack(waiters[i])
      BY DEF QueueInv
    <3>3. QED
      BY <2>4, <2>5, <2>6, <3>1, <3>2
  <2>9. QED
    BY <2>4, <2>5, <2>6, <2>7, <2>8
<1>7. QED
  BY <1>2, <1>4, <1>5, <1>6

\* mu.Lock with the mutex taken: nobody ahead of the newcomer outlasts it by more
\* than its bound.
LEMMA QueueStep ==
    ASSUME IInv, NEW c \in Call, Queue(c)
    PROVE  IInv'
<1> USE RequestTimeoutAssumption, CallAssumption DEF IInv
<1> DEFINE n == Len(waiters)
<1>1. /\ n \in Nat /\ Len(waiters') = n + 1 /\ waiters' \in Seq(Call)
      /\ \A i \in 1..n : waiters'[i] = waiters[i]
      /\ waiters'[n + 1] = c
  BY AppendFacts DEF CallType, Queue
<1>2. CallType'
  BY <1>1 DEF CallType, Queue
<1>3. /\ mu' = mu /\ mu # nil /\ starving' = starving /\ left' = left
      /\ todo' = todo /\ method' = method /\ pc' = [pc EXCEPT ![c] = "waiting"]
      /\ pc[c] \in {"handler", "signed"} /\ todo[c] > 0
  BY DEF Queue, GoesToBackend
<1>4. \A i \in 1..n : waiters[i] \in Call /\ pc[waiters[i]] = "waiting" /\ waiters[i] # c
  BY <1>3, QueueFacts
<1> HIDE DEF n
<1>5. MutexInv'
  <2>1. \A d \in Call : pc'[d] = "remote" <=> mu' = d
    BY <1>3 DEF CallType, MutexInv
  <2>2. \A d \in Call : pc'[d] = "waiting" => \E i \in 1..(n + 1) : waiters'[i] = d
    <3>1. n + 1 \in 1..(n + 1) /\ \A i \in 1..n : i \in 1..(n + 1)
      BY <1>1
    <3>2. \A d \in Call : pc[d] = "waiting" => \E i \in 1..n : waiters'[i] = d
      BY <1>1 DEF MutexInv, n
    <3>3. \A d \in Call : d # c => pc'[d] = pc[d]
      BY <1>3 DEF CallType
    <3>4. QED
      BY <1>1, <3>1, <3>2, <3>3
  <2>3. \A i \in 1..(n + 1) : pc'[waiters'[i]] = "waiting"
    <3>1. \A i \in 1..(n + 1) : i \in 1..n \/ i = n + 1
      BY <1>1
    <3>2. \A i \in 1..n : pc'[waiters[i]] = "waiting"
      BY <1>3, <1>4 DEF CallType
    <3>3. pc'[c] = "waiting"
      BY <1>3 DEF CallType
    <3>4. QED
      BY <1>1, <3>1, <3>2, <3>3
  <2>4. \A i, j \in 1..(n + 1) : waiters'[i] = waiters'[j] => i = j
    BY <1>1, <1>4 DEF MutexInv, n
  <2>5. QED
    BY <1>1, <1>3, <2>1, <2>2, <2>3, <2>4 DEF MutexInv
<1>6. SignRawCalls(method[c]) \in 0..2 /\ todo[c] \in Nat /\ left[c] \in Int
  BY SignRawFacts DEF CallType
<1>7. left[c] >= 0 /\ todo[c] \in 1..SignRawCalls(method[c])
  BY <1>3, <1>6 DEF LeftInv
<1>8. LeftInv'
  BY <1>3, <1>7 DEF CallType, LeftInv
<1>9. QueueInv'
  <2>1. ASSUME NEW i \in 1..n
        PROVE  /\ left[waiters'[i]] >= -Slack(waiters'[i])
               /\ left[mu] <= left[waiters'[i]] + Slack(waiters'[i])
               /\ \A j \in 1..(i - 1) :
                     left[waiters'[j]] <= left[waiters'[i]] + Slack(waiters'[i])
    <3>1. \A j \in 1..(i - 1) : j \in 1..n
      BY <1>1
    <3>2. QED
      BY <1>1, <1>3, <3>1 DEF QueueInv, n
  <2>2. Slack(c) \in Int /\ left[c] + Slack(c) >= RequestTimeout /\ Slack(c) >= 0
    <3>1. CASE pc[c] = "handler"
      BY <1>6, <3>1 DEF LeftInv, Slack
    <3>2. CASE pc[c] = "signed"
      BY <1>6, <1>7, <3>2 DEF LeftInv, Slack
    <3>3. QED
      BY <1>3, <3>1, <3>2
  <2>3. \A d \in Call : left[d] \in Int /\ left[d] <= RequestTimeout
    BY DEF CallType, LeftInv
  <2>4. mu \in Call
    BY <1>3 DEF CallType
  <2>5. /\ left[c] >= -Slack(c)
        /\ \A d \in Call : left[d] <= left[c] + Slack(c)
    BY <1>6, <1>7, <2>2, <2>3
  <2>6. \A j \in 1..n : waiters'[j] \in Call
    BY <1>1, <1>4
  <2>7. /\ left[waiters'[n + 1]] >= -Slack(waiters'[n + 1])
        /\ left[mu] <= left[waiters'[n + 1]] + Slack(waiters'[n + 1])
        /\ \A j \in 1..n :
              left[waiters'[j]] <= left[waiters'[n + 1]] + Slack(waiters'[n + 1])
    BY <1>1, <2>4, <2>5, <2>6
  <2>8. ASSUME NEW i \in 1..(n + 1)
        PROVE  /\ left[waiters'[i]] >= -Slack(waiters'[i])
               /\ left[mu] <= left[waiters'[i]] + Slack(waiters'[i])
               /\ \A j \in 1..(i - 1) :
                     left[waiters'[j]] <= left[waiters'[i]] + Slack(waiters'[i])
    <3>1. CASE i \in 1..n
      BY <2>1, <3>1
    <3>2. CASE i = n + 1
      <4>1. (n + 1) - 1 = n
        BY <1>1
      <4>2. QED
        BY <2>7, <3>2, <4>1
    <3>3. QED
      BY <1>1, <3>1, <3>2
  <2>9. QED
    BY <1>1, <1>3, <2>8 DEF QueueInv, Slack
<1>10. QED
  BY <1>2, <1>5, <1>8, <1>9

\* The first waiter takes the mutex, woken or handed it by the call that leaves
\* it: everybody behind it was waiting for it already.
LEMMA HeadTakesOver ==
    ASSUME IInv, CallType', waiters # <<>>,
           waiters' = Tail(waiters), mu' = Head(waiters),
           pc'[Head(waiters)] = "remote",
           left' = left, method' = method,
           Len(waiters) > 1 => (starving' <=> starving),
           \A d \in Call : d # mu => todo'[d] = todo[d],
           \A d \in Call : d # mu /\ d # Head(waiters) => pc'[d] = pc[d],
           mu # nil => pc'[mu] \notin {"waiting", "remote"}
    PROVE  MutexInv' /\ QueueInv'
<1> USE CallAssumption DEF IInv
<1> DEFINE n == Len(waiters)
<1>1. /\ n \in Nat /\ n >= 1 /\ Head(waiters) = waiters[1] /\ Head(waiters) \in Call
      /\ Len(waiters') = n - 1
      /\ \A i \in 1..(n - 1) : waiters'[i] = waiters[i + 1]
  BY TailFacts DEF CallType
<1>2. \A i \in 1..n : waiters[i] \in Call /\ pc[waiters[i]] = "waiting"
  BY QueueFacts
<1>3. /\ mu # nil => mu \in Call /\ pc[mu] = "remote"
      /\ \A d \in Call : d # mu => pc[d] # "remote"
      /\ \A d \in Call : pc[d] = "waiting" => \E i \in 1..n : waiters[i] = d
      /\ \A i, j \in 1..n : waiters[i] = waiters[j] => i = j
  BY DEF CallType, MutexInv
<1> HIDE DEF n
<1>4. \A i \in 1..(n - 1) : i + 1 \in 1..n /\ i + 1 # 1 /\ 1 \in 1..n
  BY <1>1
<1>5. \A i \in 1..(n - 1) :
         /\ waiters'[i] \in Call /\ waiters'[i] # Head(waiters) /\ waiters'[i] # mu
         /\ pc'[waiters'[i]] = "waiting"
  BY <1>1, <1>2, <1>3, <1>4
<1>6. MutexInv'
  <2>1. \A d \in Call : pc'[d] = "remote" <=> mu' = d
    BY <1>1, <1>3
  <2>2. \A d \in Call : pc'[d] = "waiting" => \E i \in 1..(n - 1) : waiters'[i] = d
    <3> SUFFICES ASSUME NEW d \in Call, pc'[d] = "waiting"
                 PROVE  \E i \in 1..(n - 1) : waiters'[i] = d
      OBVIOUS
    <3>1. d # Head(waiters) /\ pc[d] = "waiting"
      BY <1>1, <1>3
    <3>2. PICK i \in 1..n : waiters[i] = d
      BY <1>3, <3>1
    <3>3. i - 1 \in 1..(n - 1) /\ (i - 1) + 1 = i
      BY <1>1, <3>1, <3>2
    <3>4. QED
      BY <1>1, <3>2, <3>3
  <2>3. \A i, j \in 1..(n - 1) : waiters'[i] = waiters'[j] => i = j
    BY <1>1, <1>3, <1>4
  <2>4. mu' # nil
    BY <1>1
  <2>5. QED
    BY <1>1, <1>5, <2>1, <2>2, <2>3, <2>4 DEF MutexInv
<1>7. QueueInv'
  <2>1. ASSUME NEW i \in 1..(n - 1)
        PROVE  /\ left[waiters'[i]] >= -Slack(waiters'[i])
               /\ left[mu'] <= left[waiters'[i]] + Slack(waiters'[i])
               /\ \A j \in 1..(i - 1) :
                     left[waiters'[j]] <= left[waiters'[i]] + Slack(waiters'[i])
    <3>1. i + 1 \in 1..n /\ 1 \in 1..((i + 1) - 1)
      BY <1>1
    <3>2. \A j \in 1..(i - 1) : j \in 1..(n - 1) /\ j + 1 \in 1..((i + 1) - 1)
      BY <1>1
    <3>3. QED
      BY <1>1, <3>1, <3>2 DEF QueueInv, n
  <2>2. ASSUME NEW i \in 1..(n - 1)
        PROVE  /\ starving' <=> starving
               /\ todo'[waiters'[i]] = todo[waiters'[i]]
    BY <1>1, <1>5 DEF n
  <2>3. QED
    BY <1>1, <2>1, <2>2 DEF QueueInv, Slack
<1>8. QED
  BY <1>6, <1>7

\* The waiter that Unlock woke finds the mutex free.
LEMMA WokenStep ==
    ASSUME IInv, NEW c \in Call, WokenLocks(c)
    PROVE  IInv'
<1> USE CallAssumption, RequestTimeoutAssumption DEF IInv
<1>1. c = waiters[1] /\ 1 \in 1..Len(waiters) /\ Tail(waiters) \in Seq(Call)
  BY TailFacts DEF CallType, WokenLocks
<1>2. CallType'
  BY <1>1 DEF CallType, WokenLocks
<1>3. pc[c] = "waiting"
  BY <1>1, QueueFacts
<1>4. MutexInv' /\ QueueInv'
  BY <1>2, HeadTakesOver DEF WokenLocks, CallType
<1>5. LeftInv'
  BY <1>3, WaiterBound DEF CallType, LeftInv, WokenLocks
<1>6. QED
  BY <1>2, <1>4, <1>5

\* Unlock with nobody to hand the mutex to.
LEMMA MutexIsFreed ==
    ASSUME IInv, CallType', ~HandsOver, mu' = nil, waiters' = waiters, starving' = FALSE,
           left' = left, method' = method,
           \A d \in Call : d # mu => todo'[d] = todo[d] /\ pc'[d] = pc[d],
           mu # nil => pc'[mu] \notin {"waiting", "remote"}
    PROVE  MutexInv' /\ QueueInv'
<1> USE CallAssumption DEF IInv
<1>1. \A i \in 1..Len(waiters) :
         waiters[i] \in Call /\ waiters[i] # mu /\ pc[waiters[i]] = "waiting"
  BY QueueFacts DEF MutexInv
<1>2. \A i \in 1..Len(waiters) : ~starving
  BY DEF CallType, HandsOver
<1>3. MutexInv'
  <2>1. \A d \in Call : pc'[d] # "remote"
    BY DEF MutexInv
  <2>2. \A d \in Call : pc'[d] = "waiting" => \E i \in 1..Len(waiters) : waiters[i] = d
    BY DEF MutexInv
  <2>3. \A i \in 1..Len(waiters) : pc'[waiters[i]] = "waiting"
    BY <1>1
  <2>4. QED
    BY <2>1, <2>2, <2>3 DEF MutexInv
<1>4. QueueInv'
  BY <1>1, <1>2 DEF QueueInv, Slack
<1>5. QED
  BY <1>3, <1>4

\* The remote call ends, with a signature or without, and the deferred Unlock
\* runs.
LEMMA RemoteStep ==
    ASSUME IInv, NEW c \in Call, RemoteSigns(c) \/ RemoteFails(c)
    PROVE  IInv'
<1> USE CallAssumption, RequestTimeoutAssumption DEF IInv
<1>1. mu = c /\ pc[c] = "remote" /\ todo[c] \in 1..SignRawCalls(method[c])
  BY DEF MutexInv, LeftInv, RemoteSigns, RemoteFails
<1>2. /\ left' = left /\ method' = method /\ peer' = peer
      /\ \A d \in Call : d # c => todo'[d] = todo[d]
      /\ Unlock
  BY DEF CallType, RemoteSigns, RemoteFails
<1>3. SignRawCalls(method[c]) \in 0..2 /\ left[c] \in Int /\ todo[c] \in Nat
  BY SignRawFacts DEF CallType
<1>4. todo' \in [Call -> Nat]
  BY <1>1, <1>3 DEF CallType, RemoteSigns, RemoteFails
<1>5. PICK x \in {"signed", "failed"} :
         /\ pc' = Unlocked([pc EXCEPT ![c] = x])
         /\ x = "signed" => left[c] >= 0 /\ todo'[c] < SignRawCalls(method[c])
  <2>1. CASE RemoteSigns(c)
    <3>1. left[c] >= 0 /\ todo'[c] = todo[c] - 1
      BY <2>1 DEF CallType, RemoteSigns
    <3>2. todo'[c] < SignRawCalls(method[c])
      BY <1>1, <1>3, <3>1
    <3>3. QED
      BY <2>1, <3>1, <3>2 DEF RemoteSigns
  <2>2. CASE RemoteFails(c)
    BY <2>2 DEF RemoteFails
  <2>3. QED
    BY <2>1, <2>2
<1>6. CASE HandsOver
  <2> DEFINE h == Head(waiters)
  <2>1. waiters # <<>> /\ starving
    BY <1>6 DEF HandsOver
  <2>2. /\ h \in Call /\ h = waiters[1] /\ 1 \in 1..Len(waiters)
        /\ Tail(waiters) \in Seq(Call)
    BY <2>1, TailFacts DEF CallType
  <2>3. pc[h] = "waiting" /\ h # c
    BY <1>1, <2>2, QueueFacts
  <2>4. mu' = h /\ waiters' = Tail(waiters)
    BY <1>2, <1>6 DEF Unlock
  <2>5. starving' \in BOOLEAN /\ (Len(waiters) > 1 => (starving' <=> starving))
    BY <1>2, <2>1, Zenon DEF Unlock
  <2>6. pc' = [[pc EXCEPT ![c] = x] EXCEPT ![h] = "remote"]
    BY <1>5, <1>6 DEF Unlocked
  <2> HIDE DEF h
  <2>7. /\ pc'[h] = "remote" /\ pc'[c] = x
        /\ \A d \in Call : d # c /\ d # h => pc'[d] = pc[d]
    BY <2>2, <2>3, <2>6 DEF CallType
  <2>8. CallType'
    BY <1>2, <1>4, <2>2, <2>4, <2>5, <2>6 DEF CallType
  <2>9. MutexInv' /\ QueueInv'
    BY <1>1, <1>2, <2>1, <2>4, <2>5, <2>7, <2>8, HeadTakesOver DEF h
  <2>10. left[h] >= -(RequestTimeout * SignRawCalls(method[h]))
    BY <2>2, <2>3, WaiterBound
  <2>11. LeftInv'
    BY <1>1, <1>2, <1>5, <2>2, <2>3, <2>7, <2>10 DEF LeftInv
  <2>12. QED
    BY <2>8, <2>9, <2>11
<1>7. CASE ~HandsOver
  <2>1. mu' = nil /\ waiters' = waiters
    BY <1>2, <1>7 DEF Unlock
  <2>2. starving' = FALSE
    <3>1. ~starving \/ ~(Len(waiters) > 1)
      BY <1>7 DEF HandsOver, CallType
    <3>2. QED
      BY <1>2, <3>1, Zenon DEF Unlock
  <2>3. pc' = [pc EXCEPT ![c] = x]
    BY <1>5, <1>7 DEF Unlocked
  <2>4. CallType'
    BY <1>2, <1>4, <2>1, <2>2, <2>3 DEF CallType
  <2>5. pc'[c] = x /\ \A d \in Call : d # c => pc'[d] = pc[d]
    BY <2>3 DEF CallType
  <2>6. MutexInv' /\ QueueInv'
    BY <1>1, <1>2, <1>7, <2>1, <2>2, <2>4, <2>5, MutexIsFreed
  <2>7. LeftInv'
    BY <1>1, <1>2, <1>5, <2>5 DEF LeftInv
  <2>8. QED
    BY <2>4, <2>6, <2>7
<1>8. QED
  BY <1>6, <1>7

\* Time passes only while the holder of the mutex is within its deadline, so
\* that a waiting call stays within its bound.
LEMMA TickStep ==
    ASSUME IInv, CallTick
    PROVE  IInv'
<1> USE CallAssumption, RequestTimeoutAssumption DEF IInv
<1>1. /\ UNCHANGED <<pc, method, peer, todo, muVars>>
      /\ mu \in Call /\ pc[mu] = "remote" /\ left[mu] > 0
  BY DEF CallType, MutexInv, CallTick
<1>2. mu' = mu /\ waiters' = waiters /\ starving' = starving
  BY <1>1 DEF muVars
<1>3. \A c \in Call : pc[c] \in {"idle", "waiting", "remote"}
  BY DEF CallTick
<1>4. left' \in [Call -> Int] /\ \A c \in Call : left'[c] <= left[c]
  BY DEF CallType, CallTick, MaxOverrun
<1>5. CallType'
  BY <1>1, <1>2, <1>4 DEF CallType
<1>6. MutexInv'
  BY <1>1, <1>2 DEF MutexInv
<1>7. ASSUME NEW i \in 1..Len(waiters)
      PROVE  /\ waiters[i] \in Call /\ Slack(waiters[i]) \in Int
             /\ left'[waiters[i]] = left[waiters[i]] - 1
             /\ left[waiters[i]] > -Slack(waiters[i])
  <2>1. waiters[i] \in Call /\ pc[waiters[i]] = "waiting"
    BY QueueFacts
  <2>2. /\ Slack(waiters[i]) \in Int /\ Slack(waiters[i]) >= 0
        /\ Slack(waiters[i]) <= MaxOverrun
    BY <2>1, SlackFacts
  <2>3. left[mu] <= left[waiters[i]] + Slack(waiters[i])
    BY <1>1 DEF QueueInv
  <2>4. left[mu] \in Int /\ left[waiters[i]] \in Int /\ MaxOverrun \in Int
    BY <1>1, <2>1 DEF CallType, MaxOverrun
  <2>5. left[waiters[i]] > -Slack(waiters[i]) /\ ~(left[waiters[i]] < -MaxOverrun)
    BY <1>1, <2>2, <2>3, <2>4
  <2>6. QED
    BY <2>1, <2>2, <2>5 DEF CallTick
<1>8. left'[mu] = left[mu] - 1
  <2>1. MaxOverrun \in Nat /\ left[mu] \in Int
    BY <1>1 DEF CallType, MaxOverrun
  <2>2. ~(left[mu] < -MaxOverrun)
    BY <1>1, <2>1
  <2>3. QED
    BY <1>1, <2>2 DEF CallTick
<1>9. LeftInv'
  <2>1. \A c \in Call : pc[c] = "remote" => c = mu
    BY DEF MutexInv
  <2>2. left'[mu] >= -(RequestTimeout * SignRawCalls(method[mu]))
    <3>1. SignRawCalls(method[mu]) \in 0..2 /\ left[mu] \in Int
      BY <1>1, SignRawFacts DEF CallType
    <3>2. RequestTimeout * SignRawCalls(method[mu]) >= 0
      BY <3>1, SignRawFacts
    <3>3. RequestTimeout * SignRawCalls(method[mu]) \in Int
      BY <3>1
    <3>4. QED
      BY <1>1, <1>8, <3>1, <3>2, <3>3
  <2>3. \A c \in Call : left[c] \in Int /\ left'[c] \in Int
    BY <1>4, SMTT(20) DEF CallType
  <2>4. QED
    BY <1>1, <1>3, <1>4, <2>1, <2>2, <2>3 DEF LeftInv
<1>10. QueueInv'
  <2>1. ASSUME NEW i \in 1..Len(waiters)
        PROVE  /\ left'[waiters[i]] >= -Slack(waiters[i])
               /\ left'[mu] <= left'[waiters[i]] + Slack(waiters[i])
               /\ \A j \in 1..(i - 1) :
                     left'[waiters[j]] <= left'[waiters[i]] + Slack(waiters[i])
    <3>1. left[waiters[i]] \in Int /\ left[mu] \in Int
      BY <1>1, <1>7, SMTT(20) DEF CallType
    <3>2. left[mu] <= left[waiters[i]] + Slack(waiters[i])
      BY <1>1 DEF QueueInv
    <3>3. ASSUME NEW j \in 1..(i - 1)
          PROVE  left'[waiters[j]] <= left'[waiters[i]] + Slack(waiters[i])
      <4>1. j \in 1..Len(waiters)
        BY QueueFacts
      <4>2. left[waiters[j]] \in Int /\ left'[waiters[j]] = left[waiters[j]] - 1
        BY <1>7, <4>1, SMTT(20) DEF CallType
      <4>3. left[waiters[j]] <= left[waiters[i]] + Slack(waiters[i])
        BY DEF QueueInv
      <4>4. QED
        BY <1>7, <3>1, <4>2, <4>3, SMTT(20)
    <3>4. QED
      BY <1>7, <1>8, <3>1, <3>2, <3>3
  <2>2. QED
    BY <1>1, <1>2, <2>1 DEF QueueInv, Slack
<1>11. QED
  BY <1>5, <1>6, <1>9, <1>10

\* Every reachable state satisfies the invariant.
THEOREM Invariance == Spec => []IInv
<1>1. Init => IInv
  <2> SUFFICES ASSUME Init PROVE IInv
    OBVIOUS
  <2>1. CallType
    <3>1. pc \in [Call -> {"idle"}] /\ method \in [Call -> {"Sign"}]
      BY DEF Init
    <3>2. /\ peer \in [Call -> Ids \cup {nil}]
          /\ left \in [Call -> Int] /\ todo \in [Call -> Nat]
      BY DEF Init
    <3>3. mu \in Call \cup {nil} /\ waiters \in Seq(Call)
      BY DEF Init
    <3>4. starving \in BOOLEAN
      BY Zenon DEF Init
    <3>5. QED
      BY <3>1, <3>2, <3>3, <3>4 DEF CallType
  <2>2. MutexInv /\ QueueInv
    BY CallAssumption DEF Init, MutexInv, QueueInv
  <2>3. LeftInv
    BY RequestTimeoutAssumption DEF Init, LeftInv
  <2>4. QED
    BY <2>1, <2>2, <2>3 DEF IInv
<1>2. IInv /\ [Next]_vars => IInv'
  <2> SUFFICES ASSUME IInv, [Next]_vars PROVE IInv'
    OBVIOUS
  <2>1. ASSUME UNCHANGED <<callVars, muVars>>
        PROVE  IInv'
    BY <2>1 DEF callVars, muVars, IInv, CallType, MutexInv, LeftInv, QueueInv, Slack
  <2>2. CASE \E n \in Ids : PrivvalRequest(n) \/ Record(n) \/ Disconnect(n)
    BY <2>1, <2>2 DEF PrivvalRequest, Record, Disconnect
  <2>3. CASE PrimaryIdles \/ UNCHANGED vars
    BY <2>1, <2>3 DEF PrimaryIdles, vars
  <2>4. CASE \/ \E c \in Call : Handler(c)
             \/ \E c \in Call, m \in Methods, n \in Ids : Arrive(c, m, n)
    BY <2>4, CallSteps, LockStep, QueueStep, WokenStep, RemoteStep DEF Handler
  <2>5. QED
    BY <2>2, <2>3, <2>4, TickStep DEF Next
<1>3. QED
  BY <1>1, <1>2, PTL DEF Spec

--------------------------------------------------------------------------------
(* Results *)

\* For any number of calls that queue for the remote backend, any request
\* timeout and whatever the service does: a call outlives its deadline by at most
\* one request timeout for each SignRaw it makes, although mu.Lock does not look
\* at the context.
THEOREM OverrunIsBounded == Spec => []OverrunBounded
<1>1. IInv => OverrunBounded
  <2> SUFFICES ASSUME IInv, NEW c \in Call, pc[c] # "idle"
               PROVE  left[c] >= -(RequestTimeout * SignRawCalls(method[c]))
    BY DEF OverrunBounded
  <2>1. CASE pc[c] = "waiting"
    BY <2>1, WaiterBound
  <2>2. CASE pc[c] \in {"remote", "failed"}
    BY <2>2 DEF IInv, LeftInv
  <2>3. CASE pc[c] \in {"gate", "handler", "signed"}
    <3>1. SignRawCalls(method[c]) \in 0..2 /\ left[c] \in Int /\ left[c] >= 0
      BY <2>3, SignRawFacts, RequestTimeoutAssumption DEF IInv, CallType, LeftInv
    <3>2. RequestTimeout * SignRawCalls(method[c]) \in Nat
      BY <3>1, RequestTimeoutAssumption
    <3>3. QED
      BY <3>1, <3>2
  <2>4. QED
    BY <2>1, <2>2, <2>3 DEF IInv, CallType
<1>2. QED
  BY <1>1, Invariance, PTL
================================================================================
