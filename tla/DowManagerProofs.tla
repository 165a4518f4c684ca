-------------------------- MODULE DowManagerProofs --------------------------
(***************************************************************************)
(* The safety properties of DowManager for any length of the period, any   *)
(* width of the clock and any number of messages that wait.                *)
(*                                                                         *)
(* The inductive invariant adds to them where a handler waits: a node that *)
(* announces itself is not inactive, one that is about to go back to sleep *)
(* is no deputy, and a deputy that waits before it publishes is awake.     *)
(***************************************************************************)
EXTENDS DowManager, SequenceTheorems, TLAPS

-----------------------------------------------------------------------------
(***************************************************************************)
(* Time stamps wrap: arithmetic modulo n.                                  *)
(***************************************************************************)

\* Quotient and remainder.
LEMMA DivMod ==
    ASSUME NEW n \in Nat \ {0}, NEW a \in Int
    PROVE  a \div n \in Int /\ a = n * (a \div n) + (a % n) /\ a % n \in 0..(n - 1)
OBVIOUS

\* The remainder is unique.
LEMMA RemainderUnique ==
    ASSUME NEW n \in Nat \ {0}, NEW q \in Int, NEW p \in Int,
           NEW r \in 0..(n - 1), NEW s \in 0..(n - 1),
           n * q + r = n * p + s
    PROVE  r = s
<1> DEFINE d == q - p
<1>1. d \in Int /\ n * d = s - r
  OBVIOUS
<1> HIDE DEF d
<1>2. CASE d >= 1
  <2>1. n * d >= n
    BY <1>1, <1>2
  <2> QED
    BY <1>1, <2>1
<1>3. CASE d <= -1
  <2>1. n * d <= -n
    BY <1>1, <1>3
  <2> QED
    BY <1>1, <2>1
<1>4. CASE d = 0
  BY <1>1, <1>4
<1> QED
  BY <1>1, <1>2, <1>3, <1>4

\* Numbers that differ by a multiple have the same remainder.
LEMMA SameRemainder ==
    ASSUME NEW n \in Nat \ {0}, NEW x \in Int, NEW i \in Int
    PROVE  (n * i + x) % n = x % n
<1> DEFINE y == n * i + x
           j == x \div n
           k == y \div n
           rx == x % n
           ry == y % n
<1>1. j \in Int /\ x = n * j + rx /\ rx \in 0..(n - 1)
  BY DivMod
<1>2. y \in Int
  OBVIOUS
<1>3. k \in Int /\ y = n * k + ry /\ ry \in 0..(n - 1)
  BY <1>2, DivMod
<1>4. y = n * i + x
  OBVIOUS
<1> HIDE DEF y, j, k, rx, ry
<1>5. n * (i + j) = n * i + n * j
  BY <1>1
<1>6. n * i \in Int /\ n * j \in Int /\ n * k \in Int /\ n * (i + j) \in Int /\ i + j \in Int
  BY <1>1, <1>3
<1> DEFINE a == n * i
           b == n * j
           c == n * k
           d == n * (i + j)
<1>7. d + rx = c + ry
  <2>1. /\ d = a + b /\ y = a + x /\ x = b + rx /\ y = c + ry
        /\ a \in Int /\ b \in Int /\ c \in Int /\ d \in Int
        /\ x \in Int /\ y \in Int /\ rx \in Int /\ ry \in Int
    BY <1>1, <1>2, <1>3, <1>4, <1>5, <1>6
  <2> HIDE DEF a, b, c, d
  <2> QED
    BY <2>1
<1>8. rx = ry
  BY <1>1, <1>3, <1>6, <1>7, RemainderUnique
<1> QED
  BY <1>8 DEF rx, ry, y

\* A wrapped summand wraps with the sum.
LEMMA ModAdd ==
    ASSUME NEW n \in Nat \ {0}, NEW a \in Int, NEW b \in Int
    PROVE  ((a % n) + b) % n = (a + b) % n
<1>1. a \div n \in Int /\ a = n * (a \div n) + (a % n) /\ a % n \in 0..(n - 1)
  BY DivMod
<1> DEFINE x == (a % n) + b
<1>2. x \in Int /\ a + b = n * (a \div n) + x
  BY <1>1
<1> HIDE DEF x
<1>3. (a + b) % n = x % n
  BY <1>1, <1>2, SameRemainder
<1> QED
  BY <1>3 DEF x

-----------------------------------------------------------------------------
(***************************************************************************)
(* Messages in the queue.                                                  *)
(***************************************************************************)

\* Message m is in the queue q, and no more than once.
Has(q, m) == \E i \in DOMAIN q : q[i] = m
Single(q, m) == \A i, j \in DOMAIN q : q[i] = m /\ q[j] = m => i = j

\* What it means to receive the first message.
LEMMA TailQueue ==
    ASSUME NEW q \in Seq(Messages), q # <<>>, NEW m \in Messages
    PROVE  /\ Tail(q) \in Seq(Messages)
           /\ Len(Tail(q)) < Len(q)
           /\ Has(q, m) <=> (Head(q) = m \/ Has(Tail(q), m))
           /\ Single(q, m) => Single(Tail(q), m)
           /\ Single(q, m) /\ Head(q) = m => ~Has(Tail(q), m)
<1>1. /\ Len(q) \in Nat /\ Len(q) > 0 /\ DOMAIN q = 1..Len(q)
      /\ Tail(q) \in Seq(Messages) /\ Len(Tail(q)) = Len(q) - 1
      /\ DOMAIN Tail(q) = 1..(Len(q) - 1)
      /\ \A i \in 1..(Len(q) - 1) : Tail(q)[i] = q[i + 1]
      /\ Head(q) = q[1]
  OBVIOUS
<1>2. Has(q, m) => Head(q) = m \/ Has(Tail(q), m)
  <2> SUFFICES ASSUME NEW i \in 1..Len(q), q[i] = m, i # 1 PROVE Has(Tail(q), m)
    BY <1>1 DEF Has
  <2>1. i - 1 \in 1..(Len(q) - 1) /\ Tail(q)[i - 1] = m
    BY <1>1
  <2> QED
    BY <1>1, <2>1 DEF Has
<1>3. Head(q) = m \/ Has(Tail(q), m) => Has(q, m)
  BY <1>1 DEF Has
<1>4. Single(q, m) => Single(Tail(q), m)
  <2> SUFFICES ASSUME Single(q, m), NEW i \in 1..(Len(q) - 1), NEW j \in 1..(Len(q) - 1),
                      q[i + 1] = m, q[j + 1] = m
               PROVE  i = j
    BY <1>1 DEF Single
  <2>1. i + 1 \in DOMAIN q /\ j + 1 \in DOMAIN q
    BY <1>1
  <2>2. i + 1 = j + 1
    BY <2>1 DEF Single
  <2> QED
    BY <2>2
<1>5. Single(q, m) /\ Head(q) = m => ~Has(Tail(q), m)
  <2> SUFFICES ASSUME Single(q, m), q[1] = m, NEW i \in 1..(Len(q) - 1), q[i + 1] = m
               PROVE  FALSE
    BY <1>1 DEF Has
  <2>1. i + 1 \in DOMAIN q /\ 1 \in DOMAIN q
    BY <1>1
  <2>2. i + 1 = 1
    BY <2>1 DEF Single
  <2> QED
    BY <2>2
<1> QED
  BY <1>1, <1>2, <1>3, <1>4, <1>5

\* What it means that a timer sends its message.
LEMMA AppendQueue ==
    ASSUME NEW q \in Seq(Messages), NEW t \in Messages, NEW m \in Messages
    PROVE  /\ Append(q, t) \in Seq(Messages)
           /\ Len(Append(q, t)) = Len(q) + 1
           /\ Has(Append(q, t), m) <=> (Has(q, m) \/ m = t)
           /\ Single(q, m) /\ (m = t => ~Has(q, m)) => Single(Append(q, t), m)
<1>1. /\ Len(q) \in Nat /\ DOMAIN q = 1..Len(q)
      /\ Append(q, t) \in Seq(Messages) /\ Len(Append(q, t)) = Len(q) + 1
      /\ DOMAIN Append(q, t) = 1..(Len(q) + 1)
      /\ \A i \in 1..Len(q) : Append(q, t)[i] = q[i]
      /\ Append(q, t)[Len(q) + 1] = t
  OBVIOUS
<1>2. Has(Append(q, t), m) => Has(q, m) \/ m = t
  BY <1>1 DEF Has
<1>3. Has(q, m) \/ m = t => Has(Append(q, t), m)
  BY <1>1 DEF Has
<1>4. Single(q, m) /\ (m = t => ~Has(q, m)) => Single(Append(q, t), m)
  BY <1>1 DEF Single, Has
<1> QED
  BY <1>1, <1>2, <1>3, <1>4

-----------------------------------------------------------------------------
(***************************************************************************)
(* The inductive invariant.                                                *)
(***************************************************************************)

\* Message m is on its way at most once: its timer is set or it waits.
UnderWay(m) == m \in timers \/ Has(queue, m)
AtMostOnce(m) == Single(queue, m) /\ ~(m \in timers /\ Has(queue, m))

\* From the first steps to the end of the loop, and while the broadcast of an
\* ID interrupts the count of seconds.
SecondInv ==
    pc # "ended" =>
        /\ AtMostOnce("SECOND")
        /\ UnderWay("SECOND") <=> pc \notin {"start", "beacon"}

DatumInv == pc # "ended" => AtMostOnce("NEWDATA") /\ UnderWay("NEWDATA")

\* What the handlers rely on when they go on after a wait.
WaitInv ==
    /\ pc = "start" => ~sleeping /\ radio # "SLEEP"
    /\ pc = "beacon" => state # "INACTIVE"
    /\ pc = "settle" => state # "DEPUTY"
    /\ state = "DEPUTY" /\ pc \in {"receive", "publish"} => ~sleeping /\ radio # "SLEEP"
    /\ pc \notin {"start", "beacon"} => periodCounter > 0

RetryInv ==
    state = "INACTIVE" /\ pc = "receive" /\ radio # "SLEEP" => UnderWay("BACKTOSLEEP")

IInv == TypeOK /\ SecondInv /\ DatumInv /\ WaitInv /\ RetryInv

LEMMA InitInv == Init => IInv
<1> SUFFICES ASSUME Init PROVE IInv
  OBVIOUS
<1>1. TypeOK
  <2>1. <<>> \in Seq(Messages) /\ Len(<<>>) = 0
    OBVIOUS
  <2>2. queue \in Seq(Messages) /\ Len(queue) <= MaxQueue
    BY <2>1, ConstantsAssumption DEF Init
  <2>3. 0 \in Instants /\ now \in Instants
    BY ConstantsAssumption DEF Init, Instants
  <2>4. {tsWakeup, tsSleep, timeActive, timeSleeping, started, now} \subseteq Instants
    BY <2>3 DEF Init
  <2>5. sleeping \in BOOLEAN
    BY DEF Init
  <2>6. /\ state \in {"DEPUTY", "INACTIVE", "STOPPED"}
        /\ pc \in {"start", "receive", "beacon", "publish", "settle", "ended"}
        /\ periodCounter \in 0..Period
        /\ timers \subseteq Messages
        /\ radio \in {"IDLE", "BUSY", "SLEEP"}
    BY ConstantsAssumption DEF Init, Messages
  <2> QED
    BY <2>2, <2>4, <2>5, <2>6 DEF TypeOK
<1>2. SecondInv /\ DatumInv
  BY DEF Init, SecondInv, DatumInv, AtMostOnce, UnderWay, Single, Has
<1>3. WaitInv /\ RetryInv
  BY DEF Init, WaitInv, RetryInv
<1> QED
  BY <1>1, <1>2, <1>3 DEF IInv

\* A time stamp plus a span is a time stamp.
LEMMA WrapsToInstant ==
    ASSUME NEW a \in Int
    PROVE  a % Wrap \in Instants
BY DivMod, ConstantsAssumption DEF Instants

\* The types of what the shared operations write.
LEMMA DozeType ==
    ASSUME TypeOK, Doze
    PROVE  /\ sleeping' \in BOOLEAN
           /\ {tsWakeup', tsSleep', timeActive', timeSleeping'} \subseteq Instants
           /\ sleeping'
<1>1. timeActive + (now - tsWakeup) \in Int
  BY ConstantsAssumption DEF TypeOK, Instants
<1>2. (timeActive + (now - tsWakeup)) % Wrap \in Instants
  BY <1>1, WrapsToInstant
<1> QED
  BY <1>2 DEF Doze, TypeOK

LEMMA WakeType ==
    ASSUME TypeOK, dow_wakeup
    PROVE  /\ sleeping' = FALSE
           /\ {tsWakeup', tsSleep', timeActive', timeSleeping'} \subseteq Instants
           /\ radio' \in {"IDLE", "BUSY"}
<1>1. timeSleeping + (now - tsSleep) \in Int
  BY ConstantsAssumption DEF TypeOK, Instants
<1>2. (timeSleeping + (now - tsSleep)) % Wrap \in Instants
  BY <1>1, WrapsToInstant
<1> QED
  BY <1>2 DEF dow_wakeup, TypeOK

\* A request to sleep leaves the radio off or the timer for another try set.
LEMMA SleepType ==
    ASSUME TypeOK, NEW set \in SUBSET Messages, _radio_sleep(set)
    PROVE  /\ sleeping' \in BOOLEAN
           /\ {tsWakeup', tsSleep', timeActive', timeSleeping'} \subseteq Instants
           /\ radio' \in {"IDLE", "BUSY", "SLEEP"}
           /\ timers' \subseteq Messages
           /\ radio' # "SLEEP" => "BACKTOSLEEP" \in timers'
           /\ \A m \in Messages \ {"BACKTOSLEEP"} : m \in timers' <=> m \in timers \cup set
<1>1. Doze
  BY DEF _radio_sleep
<1> QED
  BY <1>1, DozeType DEF _radio_sleep, TypeOK, Messages

\* A message that is received was under way, and is no more.
LEMMA ReceiveQueue ==
    ASSUME TypeOK, NEW m \in Messages, Receive(m)
    PROVE  /\ queue' \in Seq(Messages) /\ Len(queue') <= MaxQueue
           /\ Has(queue, m)
           /\ Single(queue, m) => ~Has(queue', m)
           /\ \A k \in Messages : Single(queue, k) => Single(queue', k)
           /\ \A k \in Messages \ {m} : Has(queue', k) <=> Has(queue, k)
<1>1. queue \in Seq(Messages) /\ queue # <<>> /\ Head(queue) = m /\ queue' = Tail(queue)
  BY DEF Receive, TypeOK
<1>2. /\ queue' \in Seq(Messages) /\ Len(queue') < Len(queue)
      /\ \A k \in Messages : /\ Has(queue, k) <=> (m = k \/ Has(queue', k))
                             /\ Single(queue, k) => Single(queue', k)
                             /\ Single(queue, k) /\ m = k => ~Has(queue', k)
  BY <1>1, TailQueue
<1>3. Len(queue') <= MaxQueue
  BY <1>1, <1>2, ConstantsAssumption DEF TypeOK
<1> QED
  BY <1>2, <1>3

\* The handlers of SECOND.
LEMMA SecondStep ==
    ASSUME IInv, Second \/ StayInState
    PROVE  IInv'
<1> USE DEF IInv, Second, StayInState, Messages
<1>1. Receive("SECOND") /\ pc = "receive" /\ pc' = pc /\ state' = state /\ radio' = radio
      /\ timers' = timers \cup {"SECOND"} /\ UNCHANGED <<accountVars, clockVars>>
  BY DEF Receive
<1>2. periodCounter' \in 1..Period
  BY <1>1, ConstantsAssumption DEF TypeOK, WaitInv
<1>3. /\ queue' \in Seq(Messages) /\ Len(queue') <= MaxQueue
      /\ Has(queue, "SECOND")
      /\ Single(queue, "SECOND") => ~Has(queue', "SECOND")
      /\ \A k \in Messages : Single(queue, k) => Single(queue', k)
      /\ \A k \in Messages \ {"SECOND"} : Has(queue', k) <=> Has(queue, k)
  BY <1>1, ReceiveQueue
<1>4. TypeOK'
  BY <1>1, <1>2, <1>3 DEF TypeOK, accountVars, clockVars
<1>5. SecondInv'
  BY <1>1, <1>3 DEF SecondInv, AtMostOnce, UnderWay
<1>6. DatumInv'
  BY <1>1, <1>3 DEF DatumInv, AtMostOnce, UnderWay
<1>7. WaitInv'
  BY <1>1, <1>2 DEF WaitInv, accountVars
<1>8. RetryInv'
  BY <1>1, <1>3 DEF RetryInv, UnderWay
<1> QED
  BY <1>4, <1>5, <1>6, <1>7, <1>8

\* A deputy goes to sleep.
LEMMA GoInactiveStep ==
    ASSUME IInv, GoInactive
    PROVE  IInv'
<1> USE DEF IInv, Messages
<1>1. /\ Receive("SECOND") /\ pc = "receive" /\ pc' = pc /\ state' = "INACTIVE"
      /\ periodCounter' = Period /\ _radio_sleep({"SECOND"}) /\ UNCHANGED clockVars
  BY DEF GoInactive, dow_sleep, Receive
<1>2. /\ queue' \in Seq(Messages) /\ Len(queue') <= MaxQueue
      /\ Has(queue, "SECOND")
      /\ Single(queue, "SECOND") => ~Has(queue', "SECOND")
      /\ \A k \in Messages : Single(queue, k) => Single(queue', k)
      /\ \A k \in Messages \ {"SECOND"} : Has(queue', k) <=> Has(queue, k)
  BY <1>1, ReceiveQueue
<1>3. /\ \A m \in Messages \ {"BACKTOSLEEP"} : m \in timers' <=> m \in timers \cup {"SECOND"}
      /\ sleeping' \in BOOLEAN
      /\ {tsWakeup', tsSleep', timeActive', timeSleeping'} \subseteq Instants
      /\ radio' \in {"IDLE", "BUSY", "SLEEP"}
      /\ timers' \subseteq Messages
      /\ radio' # "SLEEP" => "BACKTOSLEEP" \in timers'
  BY <1>1, SleepType
<1>4. TypeOK'
  BY <1>1, <1>2, <1>3, ConstantsAssumption DEF TypeOK, clockVars
<1>5. SecondInv' /\ DatumInv'
  BY <1>1, <1>2, <1>3 DEF SecondInv, DatumInv, AtMostOnce, UnderWay
<1>6. WaitInv' /\ RetryInv'
  BY <1>1, <1>3, ConstantsAssumption DEF WaitInv, RetryInv, UnderWay
<1> QED
  BY <1>4, <1>5, <1>6

\* An inactive node becomes deputy; no SECOND is under way in its broadcast.
LEMMA BecomeDeputyStep ==
    ASSUME IInv, BecomeDeputy
    PROVE  IInv'
<1> USE DEF IInv, Messages
<1>1. /\ Receive("SECOND") /\ pc = "receive" /\ pc' = "beacon" /\ state' = "DEPUTY"
      /\ periodCounter' = 0 /\ timers' = timers \ {"SECOND"} /\ radio' = "BUSY"
      /\ UNCHANGED <<accountVars, clockVars>>
  BY DEF BecomeDeputy, Receive
<1>2. /\ queue' \in Seq(Messages) /\ Len(queue') <= MaxQueue
      /\ Has(queue, "SECOND")
      /\ Single(queue, "SECOND") => ~Has(queue', "SECOND")
      /\ \A k \in Messages : Single(queue, k) => Single(queue', k)
      /\ \A k \in Messages \ {"SECOND"} : Has(queue', k) <=> Has(queue, k)
  BY <1>1, ReceiveQueue
<1>3. TypeOK'
  BY <1>1, <1>2, ConstantsAssumption DEF TypeOK, accountVars, clockVars
<1>4. SecondInv' /\ DatumInv'
  BY <1>1, <1>2 DEF SecondInv, DatumInv, AtMostOnce, UnderWay
<1>5. WaitInv' /\ RetryInv'
  BY <1>1 DEF WaitInv, RetryInv
<1> QED
  BY <1>3, <1>4, <1>5

\* The broadcast ends.
LEMMA BeaconedStep ==
    ASSUME IInv, Beaconed
    PROVE  IInv'
<1> USE DEF IInv, Messages
<1>1. /\ pc = "beacon" /\ pc' = (IF state = "STOPPED" THEN "ended" ELSE "receive")
      /\ dow_wakeup /\ periodCounter' = Period /\ timers' = timers \cup {"SECOND"}
      /\ UNCHANGED <<state, queue, clockVars>>
  BY DEF Beaconed, Continue
<1>2. /\ sleeping' = FALSE
      /\ {tsWakeup', tsSleep', timeActive', timeSleeping'} \subseteq Instants
      /\ radio' \in {"IDLE", "BUSY"}
  BY <1>1, WakeType
<1>3. TypeOK'
  <2>1. sleeping' \in BOOLEAN
    BY <1>2
  <2>2. pc' \in {"receive", "ended"} /\ periodCounter' \in 0..Period
    BY <1>1, ConstantsAssumption
  <2> QED
    BY <1>1, <1>2, <2>1, <2>2 DEF TypeOK, clockVars
<1>4. SecondInv' /\ DatumInv'
  BY <1>1 DEF SecondInv, DatumInv, AtMostOnce, UnderWay
<1>5. WaitInv' /\ RetryInv'
  BY <1>1, <1>2, ConstantsAssumption DEF WaitInv, RetryInv
<1> QED
  BY <1>3, <1>4, <1>5

\* The next datum is timed before the wait.
LEMMA NewDataStep ==
    ASSUME IInv, NewData
    PROVE  IInv'
<1> USE DEF IInv, Messages
<1>1. /\ Receive("NEWDATA") /\ pc = "receive" /\ pc' = "publish"
      /\ timers' = timers \cup {"NEWDATA"}
      /\ UNCHANGED <<state, periodCounter, radio, accountVars, clockVars>>
  BY DEF NewData, Receive
<1>2. /\ queue' \in Seq(Messages) /\ Len(queue') <= MaxQueue
      /\ Has(queue, "NEWDATA")
      /\ Single(queue, "NEWDATA") => ~Has(queue', "NEWDATA")
      /\ \A k \in Messages : Single(queue, k) => Single(queue', k)
      /\ \A k \in Messages \ {"NEWDATA"} : Has(queue', k) <=> Has(queue, k)
  BY <1>1, ReceiveQueue
<1>3. TypeOK'
  BY <1>1, <1>2 DEF TypeOK, accountVars, clockVars
<1>4. SecondInv' /\ DatumInv'
  BY <1>1, <1>2 DEF SecondInv, DatumInv, AtMostOnce, UnderWay
<1>5. WaitInv' /\ RetryInv'
  BY <1>1 DEF WaitInv, RetryInv, accountVars
<1> QED
  BY <1>3, <1>4, <1>5

\* A deputy that publishes is awake before and after.
LEMMA PublishStep ==
    ASSUME IInv, Publish
    PROVE  IInv'
<1> USE DEF IInv
<1>0. /\ pc = "publish" /\ radio' = "BUSY"
      /\ pc' = (IF state = "INACTIVE" THEN "settle"
                ELSE IF state = "STOPPED" THEN "ended" ELSE "receive")
      /\ UNCHANGED <<state, periodCounter, timers, queue, accountVars, clockVars>>
  BY DEF Publish, Continue
<1>1. TypeOK'
  BY <1>0 DEF TypeOK, accountVars, clockVars
<1>2. SecondInv' /\ DatumInv'
  BY <1>0 DEF SecondInv, DatumInv, AtMostOnce, UnderWay
<1>3. WaitInv' /\ RetryInv'
  BY <1>0 DEF WaitInv, RetryInv, TypeOK, accountVars
<1> QED
  BY <1>1, <1>2, <1>3

\* Only a node that is inactive or stopped goes back to sleep.
LEMMA SettledStep ==
    ASSUME IInv, Settled
    PROVE  IInv'
<1> USE DEF IInv, Messages
<1>1. /\ pc = "settle" /\ pc' = (IF state = "STOPPED" THEN "ended" ELSE "receive")
      /\ _radio_sleep({}) /\ UNCHANGED <<state, periodCounter, queue, clockVars>>
  BY DEF Settled, Continue
<1>2. /\ \A m \in Messages \ {"BACKTOSLEEP"} : m \in timers' <=> m \in timers
      /\ sleeping' \in BOOLEAN
      /\ {tsWakeup', tsSleep', timeActive', timeSleeping'} \subseteq Instants
      /\ radio' \in {"IDLE", "BUSY", "SLEEP"}
      /\ timers' \subseteq Messages
      /\ radio' # "SLEEP" => "BACKTOSLEEP" \in timers'
  BY <1>1, SleepType
<1>3. TypeOK'
  BY <1>1, <1>2 DEF TypeOK, clockVars
<1>4. SecondInv' /\ DatumInv'
  BY <1>1, <1>2 DEF SecondInv, DatumInv, AtMostOnce, UnderWay
<1>5. WaitInv' /\ RetryInv'
  BY <1>1, <1>2 DEF WaitInv, RetryInv, UnderWay
<1> QED
  BY <1>3, <1>4, <1>5

\* A late request to sleep does nothing to a deputy.
LEMMA BackToSleepStep ==
    ASSUME IInv, BackToSleep
    PROVE  IInv'
<1> USE DEF IInv, Messages
<1>1. /\ Receive("BACKTOSLEEP") /\ pc = "receive"
      /\ UNCHANGED <<state, pc, periodCounter, clockVars>>
  BY DEF BackToSleep, Receive
<1>2. /\ queue' \in Seq(Messages) /\ Len(queue') <= MaxQueue
      /\ Has(queue, "BACKTOSLEEP")
      /\ Single(queue, "BACKTOSLEEP") => ~Has(queue', "BACKTOSLEEP")
      /\ \A k \in Messages : Single(queue, k) => Single(queue', k)
      /\ \A k \in Messages \ {"BACKTOSLEEP"} : Has(queue', k) <=> Has(queue, k)
  BY <1>1, ReceiveQueue
<1>3. CASE state = "INACTIVE"
  <2>1. _radio_sleep({})
    BY <1>3 DEF BackToSleep
  <2>2. /\ \A m \in Messages \ {"BACKTOSLEEP"} : m \in timers' <=> m \in timers
        /\ sleeping' \in BOOLEAN
        /\ {tsWakeup', tsSleep', timeActive', timeSleeping'} \subseteq Instants
        /\ radio' \in {"IDLE", "BUSY", "SLEEP"}
        /\ timers' \subseteq Messages
        /\ radio' # "SLEEP" => "BACKTOSLEEP" \in timers'
    BY <2>1, SleepType
  <2>3. TypeOK'
    BY <1>1, <1>2, <2>2 DEF TypeOK, clockVars
  <2>4. SecondInv' /\ DatumInv'
    BY <1>1, <1>2, <2>2 DEF SecondInv, DatumInv, AtMostOnce, UnderWay
  <2>5. WaitInv' /\ RetryInv'
    BY <1>1, <1>3, <2>2 DEF WaitInv, RetryInv, UnderWay
  <2> QED
    BY <2>3, <2>4, <2>5
<1>4. CASE state # "INACTIVE"
  <2>1. UNCHANGED <<radio, timers, accountVars>>
    BY <1>4 DEF BackToSleep
  <2>2. TypeOK'
    BY <1>1, <1>2, <2>1 DEF TypeOK, accountVars, clockVars
  <2>3. SecondInv' /\ DatumInv'
    BY <1>1, <1>2, <2>1 DEF SecondInv, DatumInv, AtMostOnce, UnderWay
  <2>4. WaitInv' /\ RetryInv'
    BY <1>1, <1>4, <2>1 DEF WaitInv, RetryInv, accountVars
  <2> QED
    BY <2>2, <2>3, <2>4
<1> QED
  BY <1>3, <1>4

\* The last message of a stopped node.
LEMMA EndLoopStep ==
    ASSUME IInv, EndLoop
    PROVE  IInv'
<1> USE DEF IInv
<1>1. /\ queue \in Seq(Messages) /\ queue # <<>> /\ queue' = Tail(queue) /\ pc' = "ended"
      /\ pc = "receive" /\ state = "STOPPED"
      /\ UNCHANGED <<state, periodCounter, timers, radio, accountVars, clockVars>>
  BY DEF EndLoop, TypeOK
<1>2. queue' \in Seq(Messages) /\ Len(queue') <= MaxQueue
  <2>1. Len(queue) \in Nat /\ Len(queue) > 0 /\ Len(queue) <= MaxQueue
    BY <1>1 DEF TypeOK
  <2>2. Tail(queue) \in Seq(Messages) /\ Len(Tail(queue)) = Len(queue) - 1
    BY <1>1
  <2> QED
    BY <1>1, <2>1, <2>2, ConstantsAssumption
<1>3. TypeOK'
  BY <1>1, <1>2 DEF TypeOK, accountVars, clockVars
<1>4. SecondInv' /\ DatumInv' /\ WaitInv' /\ RetryInv'
  BY <1>1 DEF SecondInv, DatumInv, WaitInv, RetryInv
<1> QED
  BY <1>3, <1>4

\* A node starts asleep, or as a deputy that is awake.
LEMMA StartStep ==
    ASSUME IInv, StartInactive \/ StartDeputy
    PROVE  IInv'
<1> USE DEF IInv, Messages
<1>1. /\ pc = "start" /\ pc' = "receive" /\ periodCounter' = Period
      /\ UNCHANGED <<queue, clockVars>>
  BY DEF StartInactive, StartDeputy
<1>2. CASE StartInactive
  <2>1. _radio_sleep({"SECOND"}) /\ state' = "INACTIVE"
    BY <1>2 DEF StartInactive
  <2>2. /\ \A m \in Messages \ {"BACKTOSLEEP"} : m \in timers' <=> m \in timers \cup {"SECOND"}
        /\ sleeping' \in BOOLEAN
        /\ {tsWakeup', tsSleep', timeActive', timeSleeping'} \subseteq Instants
        /\ radio' \in {"IDLE", "BUSY", "SLEEP"}
        /\ timers' \subseteq Messages
        /\ radio' # "SLEEP" => "BACKTOSLEEP" \in timers'
    BY <2>1, SleepType
  <2>3. TypeOK'
    BY <1>1, <2>1, <2>2, ConstantsAssumption DEF TypeOK, clockVars
  <2>4. SecondInv' /\ DatumInv'
    BY <1>1, <2>2 DEF SecondInv, DatumInv, AtMostOnce, UnderWay
  <2>5. WaitInv' /\ RetryInv'
    BY <1>1, <2>1, <2>2, ConstantsAssumption DEF WaitInv, RetryInv, UnderWay
  <2> QED
    BY <2>3, <2>4, <2>5
<1>3. CASE StartDeputy
  <2>1. /\ state' = "DEPUTY" /\ radio' = "BUSY" /\ timers' = timers \cup {"SECOND"}
        /\ UNCHANGED accountVars
    BY <1>3 DEF StartDeputy
  <2>2. TypeOK'
    BY <1>1, <2>1, ConstantsAssumption DEF TypeOK, accountVars, clockVars
  <2>3. SecondInv' /\ DatumInv'
    BY <1>1, <2>1 DEF SecondInv, DatumInv, AtMostOnce, UnderWay
  <2>4. WaitInv' /\ RetryInv'
    BY <1>1, <2>1, ConstantsAssumption DEF WaitInv, RetryInv, accountVars
  <2> QED
    BY <2>2, <2>3, <2>4
<1> QED
  BY <1>2, <1>3

\* A timer that fires hands its message over.
LEMMA FireStep ==
    ASSUME IInv, NEW t \in Messages, Fire(t)
    PROVE  IInv'
<1> USE DEF IInv, Messages
<1>1. /\ t \in timers /\ timers' = timers \ {t} /\ queue' = Append(queue, t)
      /\ queue \in Seq(Messages) /\ Len(queue) < MaxQueue
      /\ UNCHANGED <<state, pc, periodCounter, radio, accountVars, clockVars>>
  BY DEF Fire, TypeOK
<1>2. /\ queue' \in Seq(Messages) /\ Len(queue') = Len(queue) + 1
      /\ \A m \in Messages :
            /\ Has(queue', m) <=> (Has(queue, m) \/ m = t)
            /\ Single(queue, m) /\ (m = t => ~Has(queue, m)) => Single(queue', m)
  BY <1>1, AppendQueue
<1>3. Len(queue') <= MaxQueue
  <2>1. Len(queue) \in Nat
    BY <1>1
  <2> QED
    BY <1>1, <1>2, <2>1, ConstantsAssumption
<1>4. TypeOK'
  BY <1>1, <1>2, <1>3 DEF TypeOK, accountVars, clockVars
<1>5. SecondInv' /\ DatumInv'
  BY <1>1, <1>2 DEF SecondInv, DatumInv, AtMostOnce, UnderWay
<1>6. WaitInv' /\ RetryInv'
  BY <1>1, <1>2 DEF WaitInv, RetryInv, UnderWay, accountVars
<1> QED
  BY <1>4, <1>5, <1>6

\* The shell, the radio and the clock.
LEMMA EnvironmentStep ==
    ASSUME IInv, _stop_dow \/ RadioChanges \/ Tick
    PROVE  IInv'
<1> USE DEF IInv
<1>1. CASE _stop_dow
  BY <1>1 DEF _stop_dow, TypeOK, SecondInv, DatumInv, WaitInv, RetryInv, AtMostOnce,
     UnderWay, accountVars, clockVars
<1>2. CASE RadioChanges
  BY <1>2 DEF RadioChanges, TypeOK, SecondInv, DatumInv, WaitInv, RetryInv, AtMostOnce,
     UnderWay, accountVars, clockVars
<1>3. CASE Tick
  <2>1. now' \in Instants
    <3>1. now + 1 \in Int
      BY ConstantsAssumption DEF TypeOK, Instants
    <3> QED
      BY <1>3, <3>1, WrapsToInstant DEF Tick
  <2> QED
    BY <1>3, <2>1 DEF Tick, TypeOK, SecondInv, DatumInv, WaitInv, RetryInv, AtMostOnce,
       UnderWay, accountVars
<1> QED
  BY <1>1, <1>2, <1>3

LEMMA StepInv == IInv /\ [Next]_vars => IInv'
<1> SUFFICES ASSUME IInv, [Next]_vars PROVE IInv'
  OBVIOUS
<1>1. CASE Loop
  BY <1>1, StartStep, SecondStep, GoInactiveStep, BecomeDeputyStep, BeaconedStep, NewDataStep,
     PublishStep, SettledStep, BackToSleepStep, EndLoopStep DEF Loop
<1>2. ASSUME NEW t \in Messages, Fire(t) PROVE IInv'
  BY <1>2, FireStep
<1>3. CASE _stop_dow \/ RadioChanges \/ Tick
  BY <1>3, EnvironmentStep
<1>4. CASE UNCHANGED vars
  BY <1>4 DEF vars, accountVars, clockVars, IInv, TypeOK, SecondInv, DatumInv, WaitInv,
     RetryInv, AtMostOnce, UnderWay
<1> QED
  BY <1>1, <1>2, <1>3, <1>4 DEF Next

LEMMA AlwaysInv == Spec => []IInv
  BY InitInv, StepInv, PTL DEF Spec

-----------------------------------------------------------------------------
(***************************************************************************)
(* The theorems.                                                           *)
(***************************************************************************)

\* The types, with the period counter, which is unsigned in the code: it is
\* never decremented at 0.
THEOREM TypeCorrect == Spec => []TypeOK
<1>1. IInv => TypeOK
  BY DEF IInv
<1> QED
  BY <1>1, AlwaysInv, PTL

\* One SECOND is under way outside the broadcast of an ID, and one NEWDATA,
\* whatever the handlers, the timers and the shell do.
THEOREM TimersAreSetOnce == Spec => [](OneSecond /\ OneDatum)
<1>1. IInv => OneSecond /\ OneDatum
  BY DEF IInv, SecondInv, DatumInv, AtMostOnce, UnderWay, Has, Single, Running, OneSecond,
     OneDatum, Queued, Once
<1> QED
  BY <1>1, AlwaysInv, PTL

\* A deputy that waits for messages hears the network.
THEOREM DeputiesAreAwake == Spec => []DeputyIsAwake
<1>1. IInv => DeputyIsAwake
  BY DEF IInv, WaitInv, DeputyIsAwake
<1> QED
  BY <1>1, AlwaysInv, PTL

\* An inactive node whose radio is on tries again to switch it off.
THEOREM InactiveNodesRetry == Spec => []InactiveRetries
<1>1. IInv => InactiveRetries
  BY DEF IInv, RetryInv, UnderWay, Has, InactiveRetries, Queued
<1> QED
  BY <1>1, AlwaysInv, PTL

-----------------------------------------------------------------------------
(***************************************************************************)
(* The accounts of the time active and asleep.                             *)
(***************************************************************************)

\* The instant of the last change, and what is accounted up to now.
Since == IF sleeping THEN tsSleep ELSE tsWakeup
Accounted == timeActive + timeSleeping + (now - Since)

LEMMA AccountTypes ==
    ASSUME TypeOK
    PROVE  /\ Wrap \in Nat \ {0}
           /\ timeActive \in Int /\ timeSleeping \in Int /\ tsSleep \in Int
           /\ tsWakeup \in Int /\ now \in Int /\ started \in Int
           /\ Since \in Int
BY ConstantsAssumption DEF TypeOK, Instants, Since

\* Going to sleep moves the time since the last change to the active time.
LEMMA DozeAdds ==
    ASSUME TypeOK, TimeAddsUp, Doze, UNCHANGED clockVars
    PROVE  TimeAddsUp'
<1>1. CASE sleeping
  BY <1>1 DEF Doze, TimeAddsUp, clockVars
<1>2. CASE ~sleeping
  <2> DEFINE a == timeActive + (now - tsWakeup)
  <2>1. /\ timeActive' = a % Wrap /\ timeSleeping' = timeSleeping /\ tsSleep' = now
        /\ sleeping' = TRUE /\ now' = now /\ started' = started
    BY <1>2 DEF Doze, clockVars
  <2>2. a \in Int /\ a % Wrap \in Int /\ timeSleeping \in Int /\ now \in Int /\ Wrap \in Nat \ {0}
    <3>1. a \in Int /\ timeSleeping \in Int /\ now \in Int /\ Wrap \in Nat \ {0}
      BY AccountTypes
    <3> QED
      BY <3>1, DivMod
  <2>3. (timeActive + timeSleeping + (now - tsWakeup)) % Wrap = (now - started) % Wrap
    BY <1>2 DEF TimeAddsUp
  <2>4. a + timeSleeping = timeActive + timeSleeping + (now - tsWakeup)
    BY AccountTypes
  <2> HIDE DEF a
  <2>5. ((a % Wrap) + timeSleeping) % Wrap = (a + timeSleeping) % Wrap
    BY <2>2, ModAdd
  <2>6. (a % Wrap) + timeSleeping + (now - now) = (a % Wrap) + timeSleeping
    BY <2>2
  <2> QED
    BY <2>1, <2>3, <2>4, <2>5, <2>6 DEF TimeAddsUp
<1> QED
  BY <1>1, <1>2 DEF TypeOK

\* Waking up moves it to the time asleep.
LEMMA WakeAdds ==
    ASSUME TypeOK, TimeAddsUp, dow_wakeup, UNCHANGED clockVars
    PROVE  TimeAddsUp'
<1>1. CASE ~sleeping
  BY <1>1 DEF dow_wakeup, TimeAddsUp, clockVars
<1>2. CASE sleeping
  <2> DEFINE a == timeSleeping + (now - tsSleep)
  <2>1. /\ timeSleeping' = a % Wrap /\ timeActive' = timeActive /\ tsWakeup' = now
        /\ sleeping' = FALSE /\ now' = now /\ started' = started
    BY <1>2 DEF dow_wakeup, clockVars
  <2>2. a \in Int /\ a % Wrap \in Int /\ timeActive \in Int /\ now \in Int /\ Wrap \in Nat \ {0}
    <3>1. a \in Int /\ timeActive \in Int /\ now \in Int /\ Wrap \in Nat \ {0}
      BY AccountTypes
    <3> QED
      BY <3>1, DivMod
  <2>3. (timeActive + timeSleeping + (now - tsSleep)) % Wrap = (now - started) % Wrap
    BY <1>2 DEF TimeAddsUp
  <2>4. a + timeActive = timeActive + timeSleeping + (now - tsSleep)
    BY AccountTypes
  <2> HIDE DEF a
  <2>5. ((a % Wrap) + timeActive) % Wrap = (a + timeActive) % Wrap
    BY <2>2, ModAdd
  <2>6. timeActive + (a % Wrap) + (now - now) = (a % Wrap) + timeActive
    BY <2>2
  <2> QED
    BY <2>1, <2>3, <2>4, <2>5, <2>6 DEF TimeAddsUp
<1> QED
  BY <1>1, <1>2 DEF TypeOK

\* A tick is added on both sides, wrapped or not.
LEMMA TickAdds ==
    ASSUME TypeOK, TimeAddsUp, Tick
    PROVE  TimeAddsUp'
<1> DEFINE base == timeActive + timeSleeping - Since
           n1 == now + 1
<1>1. /\ Wrap \in Nat \ {0} /\ base \in Int /\ n1 \in Int /\ now \in Int /\ started \in Int
      /\ -started \in Int /\ n1 % Wrap \in Int
  <2>1. /\ Wrap \in Nat \ {0} /\ base \in Int /\ n1 \in Int /\ now \in Int /\ started \in Int
        /\ -started \in Int
    BY AccountTypes
  <2> HIDE DEF base, n1
  <2>2. n1 % Wrap \in Int
    BY <2>1, DivMod
  <2> QED
    BY <2>1, <2>2
<1>2. now' = n1 % Wrap /\ started' = started /\ UNCHANGED accountVars
  BY DEF Tick
<1>3. (base + now) % Wrap = (now - started) % Wrap
  <2>1. timeActive + timeSleeping + (now - Since) = base + now
    BY AccountTypes
  <2> HIDE DEF base
  <2> QED
    BY <2>1 DEF TimeAddsUp, Since
<1>4. Since' = Since
  BY <1>2 DEF Since, accountVars
<1>5. timeActive' + timeSleeping' + (now' - Since') = (n1 % Wrap) + base
  <2> HIDE DEF n1
  <2> QED
    BY <1>1, <1>2, <1>4, AccountTypes DEF accountVars
<1>6. n1 + base = (base + now) + 1 /\ n1 + (-started) = (now - started) + 1
  BY <1>1
<1>7. base + now \in Int /\ now - started \in Int
  BY <1>1
<1> HIDE DEF base, n1
<1>8. ((n1 % Wrap) + base) % Wrap = (n1 + base) % Wrap
  BY <1>1, ModAdd
<1>9. ((n1 % Wrap) + (-started)) % Wrap = (n1 + (-started)) % Wrap
  BY <1>1, ModAdd
<1>10. ((base + now) + 1) % Wrap = ((now - started) + 1) % Wrap
  <2> DEFINE u == base + now
             v == now - started
             one == 1
  <2>1. u \in Int /\ v \in Int /\ one \in Int /\ u % Wrap = v % Wrap
    BY <1>3, <1>7
  <2> HIDE DEF u, v, one
  <2>2. ((u % Wrap) + one) % Wrap = (u + one) % Wrap
    BY <1>1, <2>1, ModAdd
  <2>3. ((v % Wrap) + one) % Wrap = (v + one) % Wrap
    BY <1>1, <2>1, ModAdd
  <2> QED
    BY <2>1, <2>2, <2>3 DEF u, v, one
<1>11. now' - started' = (n1 % Wrap) + (-started)
  BY <1>1, <1>2
<1>12. (timeActive' + timeSleeping' + (now' - Since')) % Wrap = (now' - started') % Wrap
  BY <1>5, <1>6, <1>8, <1>9, <1>10, <1>11
<1> QED
  BY <1>12 DEF TimeAddsUp, Since

\* The accounts add up to the time since the start, modulo the width of the
\* clock: no span is lost or counted twice.
THEOREM TimesAddUp == Spec => []TimeAddsUp
<1>1. Init => TimeAddsUp
  <2> SUFFICES ASSUME Init PROVE TimeAddsUp
    OBVIOUS
  <2>1. /\ sleeping = FALSE /\ timeActive = 0 /\ timeSleeping = 0 /\ tsWakeup = now /\ started = now
        /\ now \in Int
    BY ConstantsAssumption DEF Init, Instants
  <2>2. 0 + 0 + (now - now) = now - now
    BY <2>1
  <2> QED
    BY <2>1, <2>2 DEF TimeAddsUp
<1>2. TypeOK /\ TimeAddsUp /\ [Next]_vars => TimeAddsUp'
  <2> SUFFICES ASSUME TypeOK, TimeAddsUp, [Next]_vars PROVE TimeAddsUp'
    OBVIOUS
  <2>1. CASE Doze /\ UNCHANGED clockVars
    BY <2>1, DozeAdds
  <2>2. CASE dow_wakeup /\ UNCHANGED clockVars
    BY <2>2, WakeAdds
  <2>3. CASE Tick
    BY <2>3, TickAdds
  <2>4. CASE UNCHANGED <<accountVars, clockVars>>
    BY <2>4 DEF TimeAddsUp, accountVars, clockVars
  <2>5. CASE StartInactive \/ GoInactive \/ Settled
    BY <2>1, <2>5 DEF StartInactive, GoInactive, Settled, dow_sleep, _radio_sleep
  <2>6. CASE BackToSleep
    BY <2>1, <2>4, <2>6 DEF BackToSleep, _radio_sleep, clockVars
  <2>7. CASE Beaconed
    BY <2>2, <2>7 DEF Beaconed
  <2>8. CASE StartDeputy \/ Second \/ StayInState \/ BecomeDeputy \/ NewData \/ Publish \/ EndLoop
    BY <2>4, <2>8 DEF StartDeputy, Second, StayInState, BecomeDeputy, NewData, Publish, EndLoop
  <2>9. CASE (\E t \in Messages : Fire(t)) \/ _stop_dow \/ RadioChanges \/ UNCHANGED vars
    BY <2>4, <2>9 DEF Fire, _stop_dow, RadioChanges, vars
  <2> QED
    BY <2>3, <2>5, <2>6, <2>7, <2>8, <2>9 DEF Next, Loop
<1> QED
  BY <1>1, <1>2, TypeCorrect, PTL DEF Spec

=============================================================================
