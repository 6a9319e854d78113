--------------------------- MODULE EventsProofs ---------------------------
(***************************************************************************)
(* The stream of a job is faithful for any number of publishers, streams   *)
(* and events and any capacity of the channels: what a browser shows, what *)
(* its replay and its channel hold and what the holder of the event lock   *)
(* has yet to publish are runs of numbers, each of which begins no later   *)
(* than where the one before it ends.                                      *)
(***************************************************************************)
EXTENDS JobEvents, TLAPS, FiniteSetTheorems

(* Events that have left the outbox of their publisher. *)
Sent == IF eventLock = NoPublisher THEN Len(log) ELSE Len(log) - Len(outbox[eventLock])

(* The sequence s is the run of numbers that ends with n. *)
RunTo(s, n) == s \in Seq(Nat) /\ Len(s) <= n /\ \A i \in 1..Len(s) : s[i] = n - Len(s) + i

(* The events up to n are shown, or wait in the replay. *)
Knows(c, n) == n <= Len(shown[c]) \/ (replay[c] # <<>> /\ n <= replay[c][Len(replay[c])])
Served(c) == stream[c] \in {"replaying", "live"}

EventsTypes ==
  /\ rowState \in {"absent"} \cup Active \cup Terminal
  /\ log \in Seq(Active \cup Terminal)
  /\ eventLock \in Publishers \cup {NoPublisher}
  /\ outbox \in [Publishers -> Seq(Nat)]
  /\ channels \in [Publishers -> {<<>>} \cup {<<S>> : S \in SUBSET Streams}]
  /\ registered \in SUBSET Streams /\ lost \in SUBSET Streams
  /\ buffer \in [Streams -> Seq(Nat)] /\ replay \in [Streams -> Seq(Nat)]
  /\ stream \in [Streams -> {"idle", "subscribed", "replaying", "orphaned", "live"}]
  /\ DOMAIN shown = Streams
  /\ poll \in [Streams -> [job : {"unread", "absent"} \cup Active \cup Terminal, events : {<<>>} \cup {<<n>> : n \in Nat}]]

(* The states of the events are in the order of the row's. *)
LogInv ==
  /\ rowState = "absent" => log = <<>>
  /\ \A i \in 1..Len(log) : Rank(log[i]) <= Rank(rowState)
  /\ EventStatesForward

(* Only the publisher with the event lock has committed events to publish: the last ones. *)
OutboxInv ==
  \A p \in Publishers :
    /\ eventLock # p => outbox[p] = <<>>
    /\ outbox[p] = <<>> => channels[p] = <<>>
    /\ RunTo(outbox[p], Len(log))

(* The connected streams are registered. *)
RegisteredInv ==
  /\ \A c \in Streams : Connected(c) <=> c \in registered
  /\ \A p \in Publishers : channels[p] # <<>> => channels[p][1] \subseteq registered
  /\ \A c \in Streams : /\ ~Connected(c) => buffer[c] = <<>>
                        /\ stream[c] # "replaying" => replay[c] = <<>>
                        /\ poll[c].events # <<>> => poll[c].events[1] <= Len(log)

(* What the browser shows, the replay and the channel follow each other without a gap. *)
StreamInv(c) ==
  /\ shown[c] \in Seq(Nat) /\ RunTo(shown[c], Len(shown[c])) /\ Len(shown[c]) <= Len(log)
  /\ replay[c] # <<>> => /\ RunTo(replay[c], replay[c][Len(replay[c])]) /\ replay[c][Len(replay[c])] <= Len(log)
                         /\ replay[c][1] <= Len(shown[c]) + 1
  /\ RunTo(buffer[c], Sent)
  /\ Served(c) => Knows(c, Sent - Len(buffer[c]))
  /\ \A p \in Publishers : channels[p] # <<>> /\ c \notin channels[p][1] =>
       buffer[c] = <<>> /\ (Served(c) => Knows(c, Sent + 1))

EventsInv == EventsTypes /\ LogInv /\ OutboxInv /\ RegisteredInv /\ \A c \in Streams \ lost : StreamInv(c)

(* Two sequences in a row: the log and the events a transaction appends, what the browser has and
   what an answer adds. *)
LEMMA Joined ==
  ASSUME NEW S, NEW s \in Seq(S), NEW t \in Seq(S)
  PROVE  /\ s \o t \in Seq(S) /\ Len(s \o t) = Len(s) + Len(t)
         /\ \A i \in 1..(Len(s) + Len(t)) : (s \o t)[i] = IF i <= Len(s) THEN s[i] ELSE t[i - Len(s)]
OBVIOUS

(* An answer without news changes nothing. *)
LEMMA JoinedToNothing == ASSUME NEW S, NEW s \in Seq(S) PROVE s \o <<>> = s
OBVIOUS

(* Runs of event numbers: the empty one, its first and its next number, its members. *)
LEMMA EmptyRun == ASSUME NEW n \in Nat PROVE RunTo(<<>>, n) /\ Len(<<>>) = 0
BY DEF RunTo

(* What the writer of a replay or the forwarder takes is the first number of the run, and what is left is the run behind it. *)
LEMMA RunTail ==
  ASSUME NEW n \in Nat, NEW s, RunTo(s, n), s # <<>>
  PROVE  /\ Head(s) = n - Len(s) + 1 /\ Head(s) = s[1] /\ Len(s) \in Nat \ {0} /\ s[Len(s)] = n
         /\ RunTo(Tail(s), n) /\ Len(Tail(s)) = Len(s) - 1
         /\ Tail(s) # <<>> => Tail(s)[1] = Head(s) + 1 /\ Tail(s)[Len(Tail(s))] = n
         /\ Tail(s) = <<>> => Head(s) = n
<1>1. s \in Seq(Nat) /\ Len(s) \in Nat \ {0} /\ Len(s) <= n /\ \A i \in 1..Len(s) : s[i] = n - Len(s) + i
  BY DEF RunTo
<1>2. Head(s) = s[1] /\ Tail(s) \in Seq(Nat) /\ Len(Tail(s)) = Len(s) - 1 /\ \A i \in 1..Len(Tail(s)) : Tail(s)[i] = s[i + 1]
  BY <1>1
<1>3. RunTo(Tail(s), n)
  BY <1>1, <1>2 DEF RunTo
<1>4. ASSUME Tail(s) # <<>> PROVE Tail(s)[1] = Head(s) + 1 /\ Tail(s)[Len(Tail(s))] = n
  <2>1. Len(Tail(s)) \in Nat \ {0}
    BY <1>2, <1>4
  <2> QED
    BY <2>1, <1>1, <1>2
<1>5. ASSUME Tail(s) = <<>> PROVE Head(s) = n
  <2>1. Len(s) = 1
    <3>1. Len(Tail(s)) = 0
      BY <1>5, EmptyRun, Zenon
    <3> QED
      BY ONLY <3>1, <1>1, <1>2
  <2> QED
    BY ONLY <2>1, <1>1, <1>2, n \in Nat
<1> QED
  BY <1>1, <1>2, <1>3, <1>4, <1>5

(* The next event of a replay, a channel or an outbox is the first number of its run. *)
LEMMA RunHead ==
  ASSUME NEW n \in Nat, NEW s, RunTo(s, n), s # <<>>
  PROVE  Head(s) = n - Len(s) + 1 /\ Head(s) = s[1] /\ Len(s) \in Nat \ {0} /\ Len(s) <= n
BY RunTail DEF RunTo

(* Without its next event a replay, a channel or an outbox is a run to the same end, one shorter. *)
LEMMA RunRest ==
  ASSUME NEW n \in Nat, NEW s, RunTo(s, n), s # <<>>
  PROVE  RunTo(Tail(s), n) /\ Len(Tail(s)) = Len(s) - 1
BY RunTail

(* What is left of a replay begins one behind the event that was written, and ends where it did. *)
LEMMA RunEnds ==
  ASSUME NEW n \in Nat, NEW s, RunTo(s, n), s # <<>>
  PROVE  /\ Tail(s) # <<>> => Tail(s)[1] = Head(s) + 1 /\ Tail(s)[Len(Tail(s))] = n
         /\ Tail(s) = <<>> => Head(s) = n
BY RunTail

(* The first of the k numbers that end with n. *)
LEMMA FirstOfRun ==
  ASSUME NEW n \in Nat, NEW k \in Nat \ {0}, k <= n, NEW e, e = n - k + 1
  PROVE  e \in Nat \ {0} /\ e <= n /\ n - (k - 1) = e /\ \A m \in Nat : n - k <= m => e <= m + 1
OBVIOUS

(* The first of the last k of n numbers follows on m when the n - k before it are among the first m. *)
LEMMA NextOfRun ==
  ASSUME NEW n \in Nat, NEW k \in Nat \ {0}, NEW m \in Nat, n - k <= m, NEW e, e = n - k + 1
  PROVE  e <= m + 1
OBVIOUS

(* publishLive appends the next event to the run in a channel. *)
LEMMA RunAppend ==
  ASSUME NEW n \in Nat, NEW s, RunTo(s, n)
  PROVE  RunTo(Append(s, n + 1), n + 1) /\ Len(Append(s, n + 1)) = Len(s) + 1 /\ Len(s) \in Nat
BY DEF RunTo

(* A run holds the numbers between its ends. *)
LEMMA RunElements ==
  ASSUME NEW n \in Nat, NEW s, RunTo(s, n)
  PROVE  Elements(s) = (n - Len(s) + 1)..n
<1>1. s \in Seq(Nat) /\ Len(s) \in Nat /\ DOMAIN s = 1..Len(s) /\ Len(s) <= n /\ \A i \in 1..Len(s) : s[i] = n - Len(s) + i
  BY DEF RunTo
<1>2. ASSUME NEW e \in (n - Len(s) + 1)..n PROVE e \in Elements(s)
  <2>1. e - n + Len(s) \in 1..Len(s)
    BY <1>1, <1>2
  <2>2. s[e - n + Len(s)] = e
    BY <2>1, <1>1
  <2> QED
    BY <2>1, <2>2, <1>1 DEF Elements
<1>3. ASSUME NEW e \in Elements(s) PROVE e \in (n - Len(s) + 1)..n
  BY <1>1, <1>3 DEF Elements
<1> QED
  BY <1>2, <1>3, Zenon

(* ReplayEvents reads the events of the job from the first on. *)
LEMMA NumbersRun ==
  ASSUME NEW n \in Nat
  PROVE  RunTo(Numbers(n), n) /\ Len(Numbers(n)) = n
<1>1. Numbers(n) \in Seq(Nat) /\ Len(Numbers(n)) = n /\ \A i \in 1..n : Numbers(n)[i] = i
  BY DEF Numbers
<1> QED
  BY <1>1 DEF RunTo

(* Events of a poll that the browser does not have follow those it shows. *)
LEMMA InOrderOfInterval ==
  ASSUME NEW m \in Nat, NEW n \in Nat, m <= n
  PROVE  InOrder((m + 1)..n) = [i \in 1..(n - m) |-> m + i]
<1> DEFINE S == (m + 1)..n
<1>1. Cardinality(S) = n - m
  <2>1. Cardinality((m + 1)..n) = IF m + 1 > n THEN 0 ELSE n - (m + 1) + 1
    BY FS_Interval, m + 1 \in Int, n \in Int
  <2> QED
    BY <2>1
<1>2. ASSUME NEW i \in 1..(n - m) PROVE Nth(S, i) = m + i
  <2>1. \A e \in S : {x \in S : x <= e} = (m + 1)..e
    OBVIOUS
  <2>2. \A e \in S : Cardinality((m + 1)..e) = e - m
    <3> TAKE e \in S
    <3>1. e \in Int /\ m + 1 \in Int /\ m + 1 <= e
      OBVIOUS
    <3>2. Cardinality((m + 1)..e) = IF m + 1 > e THEN 0 ELSE e - (m + 1) + 1
      BY <3>1, FS_Interval
    <3> QED
      BY <3>1, <3>2
  <2>3. \A e \in S : Cardinality({x \in S : x <= e}) = i <=> e = m + i
    <3> TAKE e \in S
    <3>1. Cardinality({x \in S : x <= e}) = e - m
      BY <2>1, <2>2, Zenon
    <3>2. e \in Int
      OBVIOUS
    <3> QED
      BY ONLY <3>1, <3>2, i \in 1..(n - m), m \in Nat, n \in Nat
  <2>4. m + i \in S
    BY <1>2
  <2> QED
    BY <2>3, <2>4 DEF Nth
<1> QED
  BY <1>1, <1>2 DEF InOrder

(* mergeEvents leaves the browser with the longer of what it had and what the answer lists. *)
LEMMA MergedRun ==
  ASSUME NEW s, RunTo(s, Len(s)), NEW k \in Nat
  PROVE  LET t == mergeEvents(s, Numbers(k)) IN
         RunTo(t, Len(t)) /\ Len(t) \in Nat /\ Len(s) <= Len(t) /\ (Len(t) = k \/ Len(t) = Len(s))
<1> DEFINE t == mergeEvents(s, Numbers(k))
<1>1. s \in Seq(Nat) /\ Len(s) \in Nat /\ \A i \in 1..Len(s) : s[i] = i
  BY DEF RunTo
<1>2. Elements(s) = 1..Len(s) /\ Elements(Numbers(k)) = 1..k
  <2>1. Elements(s) = (Len(s) - Len(s) + 1)..Len(s)
    BY <1>1, RunElements
  <2>2. Elements(Numbers(k)) = (k - Len(Numbers(k)) + 1)..k /\ Len(Numbers(k)) = k
    BY NumbersRun, RunElements
  <2> QED
    BY <2>1, <2>2, <1>1
<1>3. CASE k <= Len(s)
  <2>1. Elements(Numbers(k)) \ Elements(s) = (Len(s) + 1)..Len(s)
    BY <1>1, <1>2, <1>3
  <2>2. InOrder((Len(s) + 1)..Len(s)) = [i \in 1..(Len(s) - Len(s)) |-> Len(s) + i]
    BY <1>1, Len(s) <= Len(s), InOrderOfInterval, Zenon
  <2>3. [i \in 1..(Len(s) - Len(s)) |-> Len(s) + i] = <<>>
    BY <1>1
  <2>4. t = s
    BY <2>1, <2>2, <2>3, <1>1, JoinedToNothing, Zenon DEF mergeEvents
  <2> QED
    BY <2>4, <1>1
<1>4. CASE k > Len(s)
  <2> DEFINE u == [i \in 1..(k - Len(s)) |-> Len(s) + i]
  <2>1. Elements(Numbers(k)) \ Elements(s) = (Len(s) + 1)..k
    BY <1>1, <1>2, <1>4
  <2>2. InOrder((Len(s) + 1)..k) = u
    BY <1>1, <1>4, InOrderOfInterval
  <2>3. t = s \o u
    BY <2>1, <2>2, Zenon DEF mergeEvents
  <2>4. u \in Seq(Nat) /\ Len(u) = k - Len(s) /\ \A i \in 1..(k - Len(s)) : u[i] = Len(s) + i
    BY <1>1, <1>4
  <2>5. /\ s \o u \in Seq(Nat) /\ Len(s \o u) = k
        /\ \A i \in 1..k : (s \o u)[i] = IF i <= Len(s) THEN s[i] ELSE u[i - Len(s)]
    <3> HIDE DEF u
    <3> QED
      BY <2>4, <1>1, <1>4, Joined
  <2>6. \A i \in 1..k : (s \o u)[i] = i
    <3> HIDE DEF u
    <3> TAKE i \in 1..k
    <3>1. CASE i <= Len(s)
      BY <3>1, <2>5, <1>1
    <3>2. CASE i > Len(s)
      BY <3>2, <2>4, <2>5, <1>1
    <3> QED
      <4>1. i <= Len(s) \/ i > Len(s)
        BY <1>1
      <4> QED
        BY <4>1, <3>1, <3>2, Zenon
  <2> HIDE DEF u
  <2> QED
    BY <2>3, <2>5, <2>6, <1>1, <1>4 DEF RunTo
<1> QED
  BY <1>3, <1>4, <1>1

(* The first event that is not sent, of k events at the end of a log of L. *)
LEMMA FirstUnsent ==
  ASSUME NEW L \in Nat, NEW k \in Nat \ {0}, NEW sent, NEW h, sent = L - k, h = L - k + 1
  PROVE  sent < L /\ h = sent + 1
OBVIOUS

(* What has been sent is a part of the log; only the owner of the event lock has the rest. *)
LEMMA SentOfLog ==
  ASSUME EventsTypes, OutboxInv
  PROVE  /\ Len(log) \in Nat /\ Sent \in Nat /\ Sent <= Len(log)
         /\ \A p \in Publishers : /\ eventLock = p => Sent = Len(log) - Len(outbox[p])
                                  /\ outbox[p] # <<>> => eventLock = p /\ Sent < Len(log) /\ Head(outbox[p]) = Sent + 1
                                  /\ channels[p] # <<>> => outbox[p] # <<>>
<1>1. Len(log) \in Nat
  BY DEF EventsTypes
<1>2. ASSUME NEW p \in Publishers
      PROVE  Len(outbox[p]) \in Nat /\ Len(outbox[p]) <= Len(log) /\ p # NoPublisher
  BY EventsAssumption DEF EventsTypes, OutboxInv, RunTo
<1>3. ASSUME NEW p \in Publishers, eventLock = p PROVE Sent = Len(log) - Len(outbox[p])
  BY <1>2, <1>3, Zenon DEF Sent
<1>4. ASSUME NEW p \in Publishers, outbox[p] # <<>>
      PROVE  eventLock = p /\ Sent < Len(log) /\ Head(outbox[p]) = Sent + 1
  <2>1. eventLock = p /\ RunTo(outbox[p], Len(log))
    BY <1>4, Zenon DEF OutboxInv
  <2>2. Head(outbox[p]) = Len(log) - Len(outbox[p]) + 1 /\ Len(outbox[p]) \in Nat \ {0}
    BY ONLY <2>1, <1>1, <1>4, RunHead, Zenon
  <2>3. Sent = Len(log) - Len(outbox[p])
    BY <2>1, <1>3, Zenon
  <2> QED
    BY ONLY <2>1, <2>2, <2>3, <1>1, FirstUnsent, Zenon
<1>5. Sent \in Nat /\ Sent <= Len(log)
  <2>1. CASE eventLock = NoPublisher
    BY <2>1, <1>1 DEF Sent
  <2>2. CASE eventLock \in Publishers
    BY <2>2, <1>1, <1>2, <1>3
  <2> QED
    BY <2>1, <2>2 DEF EventsTypes
<1>6. \A p \in Publishers : channels[p] # <<>> => outbox[p] # <<>>
  BY Zenon DEF OutboxInv
<1> QED
  BY <1>1, <1>3, <1>4, <1>5, <1>6, Zenon

(* A stream that a step does not touch. *)
LEMMA StreamKept ==
  ASSUME NEW c, StreamInv(c), Sent' = Sent, Len(log) \in Nat, Len(log)' \in Nat, Len(log) <= Len(log)',
         shown'[c] = shown[c], replay'[c] = replay[c], buffer'[c] = buffer[c], stream'[c] = stream[c],
         \A p \in Publishers : channels'[p] # <<>> /\ c \notin channels'[p][1] =>
           buffer[c] = <<>> /\ (Served(c) => Knows(c, Sent + 1))
  PROVE  StreamInv(c)'
<1>1. Len(shown[c]) \in Nat /\ Len(shown[c]) <= Len(log)
  BY DEF StreamInv
<1>2. Len(shown'[c]) <= Len(log)'
  BY ONLY <1>1, Len(log) \in Nat, Len(log)' \in Nat, Len(log) <= Len(log)', shown'[c] = shown[c]
<1>3. ASSUME replay[c] # <<>> PROVE replay[c][Len(replay[c])] <= Len(log)'
  <2>1. replay[c] \in Seq(Nat) /\ replay[c][Len(replay[c])] <= Len(log)
    BY <1>3, Zenon DEF StreamInv, RunTo
  <2>2. replay[c][Len(replay[c])] \in Nat
    BY <2>1, <1>3
  <2> QED
    BY ONLY <2>1, <2>2, Len(log) \in Nat, Len(log)' \in Nat, Len(log) <= Len(log)'
<1> QED
  BY <1>2, <1>3, Zenon DEF StreamInv, RunTo, Served, Knows

(* The job starts with no events, no streams and no publisher at work. *)
LEMMA EventsInvInit == ASSUME EventsInit PROVE EventsInv
<1>1. /\ rowState = "absent" /\ log = <<>> /\ eventLock = NoPublisher
      /\ outbox = [p \in Publishers |-> <<>>] /\ channels = [p \in Publishers |-> <<>>] /\ registered = {} /\ lost = {}
      /\ buffer = [c \in Streams |-> <<>>] /\ replay = [c \in Streams |-> <<>>] /\ shown = [c \in Streams |-> <<>>]
      /\ stream = [c \in Streams |-> "idle"] /\ poll = [c \in Streams |-> NoPoll]
  BY DEF EventsInit
<1>2. EventsTypes
  BY <1>1 DEF EventsTypes, NoPoll
<1>3. LogInv
  BY <1>1 DEF LogInv, EventStatesForward
<1>4. OutboxInv
  BY <1>1, EmptyRun DEF OutboxInv
<1>5. RegisteredInv
  BY <1>1 DEF RegisteredInv, Connected, NoPoll
<1>6. Sent = 0
  BY <1>1 DEF Sent
<1>7. ASSUME NEW c \in Streams PROVE StreamInv(c)
  <2>1. shown[c] = <<>> /\ replay[c] = <<>> /\ buffer[c] = <<>> /\ stream[c] = "idle" /\ \A p \in Publishers : channels[p] = <<>>
    BY <1>1
  <2>2. <<>> \in Seq(Nat) /\ Len(<<>>) = 0 /\ RunTo(<<>>, 0) /\ 0 <= 0
    BY EmptyRun
  <2> QED
    BY <2>1, <2>2, <1>1, <1>6, Zenon DEF StreamInv, Served
<1> QED
  BY <1>2, <1>3, <1>4, <1>5, <1>7, Zenon DEF EventsInv

(* The ranks of the states. *)
LEMMA RankOrder ==
  /\ \A s : Rank(s) \in Nat
  /\ Rank("running") = 0 /\ Rank("cancel_requested") = 1 /\ Rank("succeeded") = 2 /\ Rank("failed") = 2
BY DEF Rank

(* A transaction appends events of one state to the log and leaves them in the outbox of the
   publisher that has just taken the event lock. *)
LEMMA CommitKeepsEventsInv ==
  ASSUME EventsInv, NEW p \in Publishers, NEW state \in Active \cup Terminal, NEW n \in {1, 2},
         rowState = "absent" \/ Rank(rowState) <= Rank(state),
         lockJobEvents(p), rowState' = state, createJobEvents(p, state, n)
  PROVE  EventsInv'
<1>1. /\ eventLock = NoPublisher /\ eventLock' = p /\ n \in Nat
      /\ log' = log \o [i \in 1..n |-> state] /\ outbox' = [outbox EXCEPT ![p] = [i \in 1..n |-> Len(log) + i]]
      /\ channels' = channels /\ registered' = registered /\ buffer' = buffer /\ stream' = stream /\ replay' = replay
      /\ shown' = shown /\ poll' = poll /\ lost' = lost
  BY DEF lockJobEvents, createJobEvents, server, browser
<1>2. EventsTypes /\ LogInv /\ OutboxInv /\ RegisteredInv /\ p # NoPublisher
  BY EventsAssumption, Zenon DEF EventsInv
<1>3. /\ log \in Seq(Active \cup Terminal) /\ Len(log) \in Nat /\ Sent = Len(log)
      /\ \A q \in Publishers : outbox[q] = <<>> /\ channels[q] = <<>>
  BY <1>1, <1>2, EventsAssumption DEF EventsTypes, OutboxInv, Sent
<1>4. /\ log' \in Seq(Active \cup Terminal) /\ Len(log') = Len(log) + n
      /\ \A i \in 1..(Len(log) + n) : log'[i] = IF i <= Len(log) THEN log[i] ELSE state
  <2> DEFINE new == [i \in 1..n |-> state]
  <2>1. new \in Seq(Active \cup Terminal) /\ Len(new) = n /\ \A i \in 1..n : new[i] = state
    BY <1>1
  <2>2. log' = log \o new
    BY <1>1, Zenon
  <2> HIDE DEF new
  <2>3. /\ log' \in Seq(Active \cup Terminal) /\ Len(log') = Len(log) + n
        /\ \A i \in 1..(Len(log) + n) : log'[i] = IF i <= Len(log) THEN log[i] ELSE new[i - Len(log)]
    BY <2>1, <2>2, <1>1, <1>3, Joined
  <2>4. ASSUME NEW i \in 1..(Len(log) + n), ~(i <= Len(log)) PROVE new[i - Len(log)] = state
    BY <2>1, <2>4, <1>1, <1>3
  <2> QED
    BY <2>3, <2>4, Zenon
<1>5. Len(outbox'[p]) = n /\ RunTo(outbox'[p], Len(log')) /\ \A q \in Publishers : q # p => outbox'[q] = <<>>
  <2> DEFINE new == [i \in 1..n |-> Len(log) + i]
  <2>1. new \in Seq(Nat) /\ Len(new) = n /\ \A i \in 1..n : new[i] = Len(log) + i
    BY <1>1, <1>3
  <2>2. outbox'[p] = new /\ \A q \in Publishers : q # p => outbox'[q] = <<>>
    BY <1>1, <1>2, <1>3, Zenon DEF EventsTypes
  <2>3. RunTo(new, Len(log) + n)
    <3> HIDE DEF new
    <3> QED
      BY <2>1, <1>1, <1>3 DEF RunTo
  <2> HIDE DEF new
  <2> QED
    BY <2>1, <2>2, <2>3, <1>4, Zenon
<1>6. Sent' = Sent
  <2>1. Sent' = Len(log') - Len(outbox'[p])
    BY <1>1, <1>2, Zenon DEF Sent
  <2> QED
    BY ONLY <2>1, <1>1, <1>3, <1>4, <1>5
<1>7. EventsTypes'
  <2>1. outbox' \in [Publishers -> Seq(Nat)]
    BY <1>1, <1>2, <1>3 DEF EventsTypes
  <2> QED
    BY <2>1, <1>1, <1>2, <1>4, Zenon DEF EventsTypes
<1>8. LogInv'
  <2>1. \A i \in 1..Len(log') : i \in Int /\ (i <= Len(log) => i \in 1..Len(log))
    BY <1>1, <1>3, <1>4
  <2>2. \A i \in 1..Len(log) : Rank(log[i]) <= Rank(state)
    <3> TAKE i \in 1..Len(log)
    <3>1. rowState # "absent" /\ Rank(log[i]) <= Rank(rowState)
      BY <1>2, <1>3 DEF LogInv
    <3> QED
      BY <3>1, RankOrder
  <2>3. \A i \in 1..Len(log') : Rank(log'[i]) <= Rank(state)
    BY <2>1, <2>2, <1>4, RankOrder
  <2>4. ASSUME NEW i \in 1..Len(log'), NEW j \in 1..Len(log'), i < j PROVE Rank(log'[i]) <= Rank(log'[j])
    <3>1. CASE j <= Len(log)
      BY <3>1, <2>1, <2>4, <1>2, <1>3, <1>4 DEF LogInv, EventStatesForward
    <3>2. CASE ~(j <= Len(log))
      BY <3>2, <2>3, <1>4, Zenon
    <3> QED
      BY <3>1, <3>2
  <2>5. rowState' # "absent"
    BY DEF Active, Terminal
  <2> QED
    BY <2>3, <2>4, <2>5, Zenon DEF LogInv, EventStatesForward
<1>9. OutboxInv'
  <2>1. \A q \in Publishers : RunTo(outbox'[q], Len(log'))
    BY <1>1, <1>3, <1>4, <1>5, EmptyRun
  <2> QED
    BY <2>1, <1>1, <1>3, <1>5, Zenon DEF OutboxInv
<1>10. RegisteredInv'
  <2>1. \A c \in Streams : poll[c].events # <<>> => poll[c].events[1] <= Len(log')
    <3> TAKE c \in Streams
    <3> HAVE poll[c].events # <<>>
    <3>1. poll[c].events[1] \in Nat /\ poll[c].events[1] <= Len(log)
      BY <1>2 DEF EventsTypes, RegisteredInv
    <3> QED
      BY <3>1, <1>1, <1>3, <1>4
  <2> QED
    BY <2>1, <1>1, <1>2, Zenon DEF RegisteredInv, Connected
<1>11. ASSUME NEW c \in Streams \ lost' PROVE StreamInv(c)'
  <2>1. StreamInv(c)
    BY <1>1, <1>11, Zenon DEF EventsInv
  <2>2. Len(log)' \in Nat /\ Len(log) <= Len(log)'
    BY <1>1, <1>3, <1>4
  <2> QED
    BY <2>1, <2>2, <1>1, <1>3, <1>6, StreamKept, Zenon
<1> QED
  BY <1>7, <1>8, <1>9, <1>10, <1>11, Zenon DEF EventsInv

(* A step that leaves the log and the events of the streams alone. *)
LEMMA SameLog ==
  ASSUME EventsInv, rowState' = rowState, log' = log
  PROVE  LogInv' /\ EventsTypes /\ LogInv /\ OutboxInv /\ RegisteredInv /\ Len(log) \in Nat /\ Len(log)' = Len(log)
         /\ Len(log) <= Len(log)
BY DEF EventsInv, EventsTypes, LogInv, EventStatesForward

(* publishLive copies the channels of all connected streams. *)
LEMMA CopyKeepsEventsInv ==
  ASSUME EventsInv, NEW p \in Publishers, CopyChannels(p)
  PROVE  EventsInv'
<1>1. /\ outbox[p] # <<>> /\ channels' = [channels EXCEPT ![p] = <<registered>>]
      /\ rowState' = rowState /\ log' = log /\ eventLock' = eventLock /\ outbox' = outbox
      /\ registered' = registered /\ buffer' = buffer /\ stream' = stream /\ replay' = replay
      /\ shown' = shown /\ poll' = poll /\ lost' = lost
  BY DEF CopyChannels, job, server, browser
<1>2. LogInv' /\ EventsTypes /\ LogInv /\ OutboxInv /\ RegisteredInv /\ Len(log) \in Nat /\ Len(log)' = Len(log) /\ Len(log) <= Len(log)
  BY <1>1, SameLog, Zenon
<1>3. /\ channels'[p] = <<registered>> /\ channels'[p][1] = registered
      /\ \A q \in Publishers : q # p => channels'[q] = channels[q]
      /\ channels' \in [Publishers -> {<<>>} \cup {<<S>> : S \in SUBSET Streams}]
  BY <1>1, <1>2 DEF EventsTypes
<1>4. EventsTypes'
  BY <1>1, <1>2, <1>3, Zenon DEF EventsTypes
<1>5. OutboxInv'
  BY <1>1, <1>2, <1>3, Zenon DEF OutboxInv
<1>6. RegisteredInv'
  BY <1>1, <1>2, <1>3, Zenon DEF RegisteredInv, Connected
<1>7. Sent' = Sent
  BY <1>1, Zenon DEF Sent
<1>8. ASSUME NEW c \in Streams \ lost' PROVE StreamInv(c)'
  <2>1. StreamInv(c) /\ c \in Streams
    BY <1>1, <1>8, Zenon DEF EventsInv
  <2>2. ASSUME NEW q \in Publishers, channels'[q] # <<>>, c \notin channels'[q][1]
        PROVE  buffer[c] = <<>> /\ (Served(c) => Knows(c, Sent + 1))
    <3>1. CASE q = p
      <4>1. c \notin registered
        BY <3>1, <2>2, <1>3, Zenon
      <4>2. stream[c] = "idle" /\ buffer[c] = <<>>
        BY <4>1, <2>1, <1>2, Zenon DEF RegisteredInv, Connected
      <4> QED
        BY <4>2 DEF Served
    <3>2. CASE q # p
      BY <3>2, <2>1, <2>2, <1>3, Zenon DEF StreamInv
    <3> QED
      BY <3>1, <3>2, Zenon
  <2> QED
    BY <2>1, <2>2, <1>1, <1>2, <1>7, StreamKept, Zenon
<1> QED
  BY <1>2, <1>4, <1>5, <1>6, <1>8, Zenon DEF EventsInv

(* publishLive sends the next event to the channels it has copied, or drops it where one is full. *)
LEMMA SendKeepsEventsInv ==
  ASSUME EventsInv, NEW p \in Publishers, SendLive(p)
  PROVE  EventsInv'
<1>1. /\ channels[p] # <<>> /\ outbox' = [outbox EXCEPT ![p] = Tail(@)] /\ channels' = [channels EXCEPT ![p] = <<>>]
      /\ buffer' = [c \in Streams |-> IF c \in channels[p][1] /\ Len(buffer[c]) < Cap
                                      THEN Append(buffer[c], Head(outbox[p])) ELSE buffer[c]]
      /\ lost' = lost \cup {c \in channels[p][1] : Len(buffer[c]) >= Cap}
      /\ rowState' = rowState /\ log' = log /\ eventLock' = eventLock
      /\ registered' = registered /\ stream' = stream /\ replay' = replay /\ shown' = shown /\ poll' = poll
  BY DEF SendLive, job, browser
<1>2. LogInv' /\ EventsTypes /\ LogInv /\ OutboxInv /\ RegisteredInv /\ Len(log) \in Nat /\ Len(log)' = Len(log) /\ Len(log) <= Len(log)
  BY <1>1, SameLog, Zenon
<1>3. /\ outbox[p] # <<>> /\ eventLock = p /\ Sent \in Nat /\ Sent < Len(log) /\ Head(outbox[p]) = Sent + 1
      /\ Sent = Len(log) - Len(outbox[p]) /\ RunTo(outbox[p], Len(log))
  BY <1>1, <1>2, SentOfLog, Zenon DEF OutboxInv
<1>4. Len(outbox[p]) \in Nat /\ RunTo(Tail(outbox[p]), Len(log)) /\ Len(Tail(outbox[p])) = Len(outbox[p]) - 1
  BY <1>2, <1>3, RunTail, Zenon
<1>5. /\ outbox'[p] = Tail(outbox[p]) /\ \A q \in Publishers : q # p => outbox'[q] = outbox[q] /\ outbox[q] = <<>>
      /\ outbox' \in [Publishers -> Seq(Nat)]
  <2>1. Tail(outbox[p]) \in Seq(Nat)
    BY <1>4 DEF RunTo
  <2>2. \A q \in Publishers : q # p => outbox[q] = <<>>
    BY <1>2, <1>3, Zenon DEF OutboxInv
  <2> QED
    BY <2>1, <2>2, <1>1, <1>2, Zenon DEF EventsTypes
<1>6. /\ \A q \in Publishers : channels'[q] = <<>>
      /\ channels' \in [Publishers -> {<<>>} \cup {<<S>> : S \in SUBSET Streams}]
  <2>1. \A q \in Publishers : q # p => channels[q] = <<>>
    BY <1>2, <1>5, Zenon DEF OutboxInv
  <2> QED
    BY <2>1, <1>1, <1>2, Zenon DEF EventsTypes
<1>7. Sent' = Sent + 1
  <2>1. Sent' = Len(log) - Len(outbox'[p])
    BY <1>1, <1>3, EventsAssumption, Zenon DEF Sent
  <2>2. Sent' = Len(log) - (Len(outbox[p]) - 1)
    BY <2>1, <1>4, <1>5, Zenon
  <2> QED
    BY ONLY <2>2, <1>2, <1>3, <1>4
<1>8. channels[p][1] \in SUBSET Streams /\ lost' \in SUBSET Streams
  <2>1. PICK S \in SUBSET Streams : channels[p] = <<S>>
    BY <1>1, <1>2, ZenonT(30) DEF EventsTypes
  <2>2. channels[p][1] = S
    BY <2>1
  <2> QED
    BY <2>2, <1>1, <1>2, Zenon DEF EventsTypes
<1>9. \A c \in Streams : buffer'[c] \in Seq(Nat)
  <2> TAKE c \in Streams
  <2>1. buffer[c] \in Seq(Nat) /\ Append(buffer[c], Sent + 1) \in Seq(Nat)
    BY <1>2, <1>3 DEF EventsTypes
  <2> QED
    BY <2>1, <1>1, <1>3, Zenon
<1>10. EventsTypes'
  <2>1. buffer' \in [Streams -> Seq(Nat)]
    BY <1>1, <1>9
  <2> QED
    BY <2>1, <1>1, <1>2, <1>5, <1>6, <1>8, Zenon DEF EventsTypes
<1>11. OutboxInv'
  <2>1. \A q \in Publishers : RunTo(outbox'[q], Len(log))
    BY <1>2, <1>4, <1>5, EmptyRun, Zenon
  <2> QED
    BY <2>1, <1>1, <1>3, <1>5, <1>6, Zenon DEF OutboxInv
<1>12. RegisteredInv'
  <2>1. ASSUME NEW c \in Streams, ~Connected(c) PROVE buffer'[c] = <<>>
    <3>1. buffer[c] = <<>> /\ c \notin channels[p][1]
      BY <2>1, <1>1, <1>2, Zenon DEF RegisteredInv
    <3> QED
      BY <3>1, <1>1, Zenon
  <2> QED
    BY <2>1, <1>1, <1>2, <1>6, Zenon DEF RegisteredInv, Connected
<1>13. ASSUME NEW c \in Streams \ lost' PROVE StreamInv(c)'
  <2>1. StreamInv(c) /\ c \in Streams /\ (c \in channels[p][1] => Len(buffer[c]) < Cap)
    <3>1. c \in Streams \ lost /\ ~(c \in channels[p][1] /\ Len(buffer[c]) >= Cap)
      BY <1>1, <1>13, Zenon
    <3>2. Len(buffer[c]) \in Nat
      BY <3>1, <1>2 DEF EventsTypes
    <3> QED
      BY <3>1, <3>2, EventsAssumption DEF EventsInv
  <2>2. /\ RunTo(buffer'[c], Sent + 1)
        /\ Served(c) => Knows(c, Sent' - Len(buffer'[c]))
    <3>1. CASE c \in channels[p][1]
      <4>1. buffer'[c] = Append(buffer[c], Sent + 1)
        BY <3>1, <2>1, <1>1, <1>3, Zenon
      <4>2. RunTo(buffer'[c], Sent + 1) /\ Len(buffer'[c]) = Len(buffer[c]) + 1 /\ Len(buffer[c]) \in Nat
        BY <4>1, <2>1, <1>3, RunAppend, ZenonT(30) DEF StreamInv
      <4>3. Sent' - Len(buffer'[c]) = Sent - Len(buffer[c])
        BY ONLY <4>2, <1>3, <1>7
      <4> QED
        BY <4>2, <4>3, <2>1, Zenon DEF StreamInv
    <3>2. CASE c \notin channels[p][1]
      <4>1. buffer'[c] = <<>> /\ (Served(c) => Knows(c, Sent + 1))
        BY <3>2, <2>1, <1>1, Zenon DEF StreamInv
      <4>2. Sent + 1 \in Nat /\ Sent' - Len(buffer'[c]) = Sent + 1
        BY ONLY <4>1, <1>3, <1>7
      <4> QED
        BY <4>1, <4>2, EmptyRun, Zenon
    <3> QED
      BY <3>1, <3>2, Zenon
  <2> QED
    <3>1. RunTo(buffer'[c], Sent')
      BY <2>2, <1>7, Zenon
    <3>2. Served(c)' => Knows(c, Sent - Len(buffer[c]))'
      <4>1. stream' = stream /\ replay' = replay /\ shown' = shown
        BY <1>1, Zenon
      <4>2. Served(c) => Knows(c, Sent' - Len(buffer'[c]))
        BY <2>2, Zenon
      <4> QED
        BY ONLY <4>1, <4>2 DEF Served, Knows
    <3>3. /\ shown'[c] \in Seq(Nat) /\ RunTo(shown'[c], Len(shown'[c])) /\ Len(shown'[c]) <= Len(log')
          /\ replay'[c] # <<>> => /\ RunTo(replay'[c], replay'[c][Len(replay'[c])]) /\ replay'[c][Len(replay'[c])] <= Len(log')
                                  /\ replay'[c][1] <= Len(shown'[c]) + 1
      BY <2>1, <1>1, Zenon DEF StreamInv
    <3> QED
      BY <3>1, <3>2, <3>3, <1>6, Zenon DEF StreamInv
<1> QED
  BY <1>2, <1>10, <1>11, <1>12, <1>13, Zenon DEF EventsInv

(* The event lock is given back once everything is published. *)
LEMMA UnlockKeepsEventsInv ==
  ASSUME EventsInv, NEW p \in Publishers, unlockEvents(p)
  PROVE  EventsInv'
<1>1. /\ eventLock = p /\ outbox[p] = <<>> /\ eventLock' = NoPublisher
      /\ rowState' = rowState /\ log' = log /\ outbox' = outbox /\ channels' = channels
      /\ registered' = registered /\ buffer' = buffer /\ stream' = stream /\ replay' = replay
      /\ shown' = shown /\ poll' = poll /\ lost' = lost
  BY DEF unlockEvents, job, server, browser
<1>2. LogInv' /\ EventsTypes /\ LogInv /\ OutboxInv /\ RegisteredInv /\ Len(log) \in Nat /\ Len(log)' = Len(log) /\ Len(log) <= Len(log)
  BY <1>1, SameLog, Zenon
<1>3. EventsTypes'
  BY <1>1, <1>2, Zenon DEF EventsTypes
<1>4. OutboxInv'
  BY <1>1, <1>2, Zenon DEF OutboxInv
<1>5. RegisteredInv'
  BY <1>1, <1>2, Zenon DEF RegisteredInv, Connected
<1>6. Sent' = Sent
  <2>1. Sent' = Len(log) /\ Sent = Len(log) - Len(<<>>) /\ Len(<<>>) = 0
    BY <1>1, <1>2, SentOfLog, EmptyRun, Zenon DEF Sent
  <2> QED
    BY ONLY <2>1, <1>2
<1>7. ASSUME NEW c \in Streams \ lost' PROVE StreamInv(c)'
  BY <1>1, <1>2, <1>6, <1>7, StreamKept, Zenon DEF EventsInv, StreamInv
<1> QED
  BY <1>2, <1>3, <1>4, <1>5, <1>7, Zenon DEF EventsInv

(* A step of one stream leaves the job, the publishers and the other streams alone. *)
LEMMA StreamStep ==
  ASSUME EventsInv, NEW c \in Streams,
         rowState' = rowState, log' = log, eventLock' = eventLock, outbox' = outbox, channels' = channels, lost' = lost,
         \A b \in Streams : b # c =>
           shown'[b] = shown[b] /\ replay'[b] = replay[b] /\ buffer'[b] = buffer[b] /\ stream'[b] = stream[b],
         EventsTypes', RegisteredInv', c \notin lost => StreamInv(c)'
  PROVE  EventsInv'
<1>1. LogInv' /\ EventsTypes /\ LogInv /\ OutboxInv /\ RegisteredInv /\ Len(log) \in Nat /\ Len(log)' = Len(log) /\ Len(log) <= Len(log)
  BY SameLog, Zenon
<1>2. OutboxInv'
  BY <1>1, Zenon DEF OutboxInv
<1>3. Sent' = Sent
  BY Zenon DEF Sent
<1>4. ASSUME NEW b \in Streams \ lost, b # c PROVE StreamInv(b)'
  BY <1>1, <1>3, <1>4, StreamKept, Zenon DEF EventsInv, StreamInv
<1> QED
  BY <1>1, <1>2, <1>4, Zenon DEF EventsInv

(* What a stream that is not lost knows. *)
LEMMA StreamFacts ==
  ASSUME EventsInv, NEW c \in Streams, c \notin lost
  PROVE  /\ shown[c] \in Seq(Nat) /\ RunTo(shown[c], Len(shown[c])) /\ Len(shown[c]) \in Nat /\ Len(shown[c]) <= Len(log)
         /\ replay[c] # <<>> => /\ RunTo(replay[c], replay[c][Len(replay[c])]) /\ replay[c][Len(replay[c])] <= Len(log)
                                /\ replay[c][1] <= Len(shown[c]) + 1 /\ replay[c][Len(replay[c])] \in Nat
         /\ RunTo(buffer[c], Sent) /\ Len(buffer[c]) \in Nat /\ Len(buffer[c]) <= Sent
         /\ Served(c) => Knows(c, Sent - Len(buffer[c]))
         /\ \A p \in Publishers : channels[p] # <<>> /\ c \notin channels[p][1] =>
              buffer[c] = <<>> /\ (Served(c) => Knows(c, Sent + 1))
<1>1. StreamInv(c) /\ EventsTypes
  BY Zenon DEF EventsInv
<1>2. shown[c] \in Seq(Nat) /\ buffer[c] \in Seq(Nat) /\ replay[c] \in Seq(Nat)
  BY <1>1 DEF StreamInv, EventsTypes
<1>3. Len(shown[c]) \in Nat /\ Len(buffer[c]) \in Nat
  BY ONLY <1>2
<1>4. replay[c] # <<>> => replay[c][Len(replay[c])] \in Nat
  BY ONLY <1>2
<1>5. RunTo(buffer[c], Sent) => Len(buffer[c]) <= Sent
  BY Zenon DEF RunTo
<1> QED
  BY <1>1, <1>2, <1>3, <1>4, <1>5, Zenon DEF StreamInv

(* The hook shows the next event, and drops one that it has. *)
LEMMA ReceiveKeepsRun ==
  ASSUME NEW c \in Streams, DOMAIN shown = Streams, RunTo(shown[c], Len(shown[c])),
         NEW e \in Nat \ {0}, e <= Len(shown[c]) + 1, Receive(c, e)
  PROVE  /\ shown'[c] \in Seq(Nat) /\ RunTo(shown'[c], Len(shown'[c])) /\ Len(shown'[c]) \in Nat
         /\ Len(shown[c]) <= Len(shown'[c]) /\ e <= Len(shown'[c])
         /\ Len(shown'[c]) = Len(shown[c]) \/ Len(shown'[c]) = e
<1>1. shown[c] \in Seq(Nat) /\ Len(shown[c]) \in Nat
  BY DEF RunTo
<1>2. Elements(shown[c]) = 1..Len(shown[c])
  <2>1. Elements(shown[c]) = (Len(shown[c]) - Len(shown[c]) + 1)..Len(shown[c])
    BY <1>1, RunElements, Zenon
  <2> QED
    BY ONLY <2>1, <1>1
<1>3. CASE e \in Elements(shown[c])
  <2>1. shown' = shown
    BY <1>3, Zenon DEF Receive
  <2>2. e <= Len(shown[c]) /\ Len(shown[c]) <= Len(shown[c])
    BY ONLY <1>1, <1>2, <1>3
  <2> QED
    BY <2>1, <2>2, <1>1, Zenon
<1>4. CASE e \notin Elements(shown[c])
  <2>1. e = Len(shown[c]) + 1
    BY ONLY <1>1, <1>2, <1>4, e \in Nat \ {0}, e <= Len(shown[c]) + 1
  <2>2. shown'[c] = Append(shown[c], Len(shown[c]) + 1)
    BY <2>1, <1>4 DEF Receive
  <2>3. RunTo(shown'[c], Len(shown[c]) + 1) /\ Len(shown'[c]) = Len(shown[c]) + 1
    BY <2>2, <1>1, RunAppend, Zenon
  <2>4. shown'[c] \in Seq(Nat)
    BY <2>3, Zenon DEF RunTo
  <2>5. Len(shown'[c]) = e /\ Len(shown'[c]) \in Nat /\ Len(shown[c]) <= Len(shown'[c]) /\ e <= Len(shown'[c])
    BY ONLY <2>1, <2>3, <1>1
  <2> QED
    BY <2>3, <2>4, <2>5, Zenon
<1> QED
  BY <1>3, <1>4, Zenon

(* A received event changes what one browser shows. *)
LEMMA ReceiveLeavesOthers ==
  ASSUME NEW c, DOMAIN shown = Streams, NEW e, Receive(c, e)
  PROVE  DOMAIN shown' = Streams /\ \A b \in Streams : b # c => shown'[b] = shown[b]
BY DEF Receive

(* jobs.subscribe registers the channel before anything else. *)
LEMMA SubscribeKeepsEventsInv ==
  ASSUME EventsInv, NEW c \in Streams, SubscribeJob(c)
  PROVE  EventsInv'
<1>1. /\ stream[c] = "idle" /\ registered' = registered \cup {c} /\ stream' = [stream EXCEPT ![c] = "subscribed"]
      /\ poll' = [poll EXCEPT ![c] = NoPoll]
      /\ rowState' = rowState /\ log' = log /\ eventLock' = eventLock /\ outbox' = outbox /\ channels' = channels
      /\ buffer' = buffer /\ replay' = replay /\ shown' = shown /\ lost' = lost
  BY DEF SubscribeJob, job, publisher
<1>2. EventsTypes /\ RegisteredInv
  BY Zenon DEF EventsInv
<1>3. /\ stream'[c] = "subscribed" /\ poll'[c].events = <<>>
      /\ \A b \in Streams : b # c => stream'[b] = stream[b] /\ poll'[b] = poll[b]
  BY <1>1, <1>2, Zenon DEF EventsTypes, NoPoll
<1>4. EventsTypes'
  BY <1>1, <1>2 DEF EventsTypes, NoPoll
<1>5. RegisteredInv'
  <2>1. buffer[c] = <<>> /\ replay[c] = <<>>
    BY <1>1, <1>2, Zenon DEF RegisteredInv, Connected
  <2>2. \A b \in Streams : (stream'[b] # "idle") <=> b \in registered'
    BY <1>1, <1>2, <1>3, Zenon DEF RegisteredInv, Connected
  <2>3. \A p \in Publishers : channels[p] # <<>> => channels[p][1] \subseteq registered'
    BY <1>1, <1>2 DEF RegisteredInv
  <2>4. \A b \in Streams : /\ stream'[b] = "idle" => buffer'[b] = <<>>
                           /\ stream'[b] # "replaying" => replay'[b] = <<>>
                           /\ poll'[b].events # <<>> => poll'[b].events[1] <= Len(log')
    BY <2>1, <1>1, <1>2, <1>3, Zenon DEF RegisteredInv, Connected
  <2> QED
    BY <2>2, <2>3, <2>4, <1>1, Zenon DEF RegisteredInv, Connected
<1>6. ASSUME c \notin lost PROVE StreamInv(c)'
  <2>1. buffer[c] = <<>>
    BY <1>1, <1>2, Zenon DEF RegisteredInv, Connected
  <2>2. ~Served(c)' /\ Sent' = Sent
    BY <1>1, <1>3, Zenon DEF Served, Sent
  <2> QED
    BY <2>1, <2>2, <1>1, <1>6, StreamFacts, Zenon DEF StreamInv
<1> QED
  BY <1>1, <1>3, <1>4, <1>5, <1>6, StreamStep, Zenon

(* A step of one stream that leaves its registration and its polls alone. *)
LEMMA StreamMoves ==
  ASSUME EventsInv, NEW c \in Streams, Connected(c), NEW st \in {"replaying", "orphaned", "live"},
         stream' = [stream EXCEPT ![c] = st],
         rowState' = rowState, log' = log, eventLock' = eventLock, outbox' = outbox, channels' = channels, lost' = lost,
         registered' = registered, poll' = poll, DOMAIN shown' = Streams,
         buffer' \in [Streams -> Seq(Nat)], replay' \in [Streams -> Seq(Nat)],
         \A b \in Streams : b # c => shown'[b] = shown[b] /\ replay'[b] = replay[b] /\ buffer'[b] = buffer[b],
         st # "replaying" => replay'[c] = <<>>, c \notin lost => StreamInv(c)'
  PROVE  EventsInv'
<1>1. EventsTypes /\ RegisteredInv
  BY Zenon DEF EventsInv
<1>2. stream'[c] = st /\ \A b \in Streams : b # c => stream'[b] = stream[b]
  BY <1>1 DEF EventsTypes
<1>3. EventsTypes'
  <2>1. stream' \in [Streams -> {"idle", "subscribed", "replaying", "orphaned", "live"}]
    BY <1>1 DEF EventsTypes
  <2> QED
    BY <2>1, <1>1, Zenon DEF EventsTypes
<1>4. RegisteredInv'
  <2>1. st # "idle"
    OBVIOUS
  <2> QED
    BY <2>1, <1>1, <1>2, ZenonT(30) DEF RegisteredInv, Connected
<1> QED
  BY <1>2, <1>3, <1>4, StreamStep, ZenonT(30)

(* The replay reads what is stored, after the channel was registered. *)
LEMMA ReplayKeepsEventsInv ==
  ASSUME EventsInv, NEW c \in Streams, ReplayEvents(c)
  PROVE  EventsInv'
<1>1. /\ stream[c] = "subscribed" /\ replay' = [replay EXCEPT ![c] = Numbers(Len(log))]
      /\ stream' = [stream EXCEPT ![c] = "replaying"]
      /\ rowState' = rowState /\ log' = log /\ eventLock' = eventLock /\ outbox' = outbox /\ channels' = channels
      /\ registered' = registered /\ buffer' = buffer /\ shown' = shown /\ poll' = poll /\ lost' = lost
  BY DEF ReplayEvents, job, publisher, browser
<1>2. EventsTypes /\ OutboxInv /\ Connected(c)
  BY <1>1 DEF EventsInv, Connected
<1>3. Len(log) \in Nat /\ RunTo(Numbers(Len(log)), Len(log)) /\ Len(Numbers(Len(log))) = Len(log)
  BY <1>2, NumbersRun DEF EventsTypes
<1>4. /\ replay'[c] = Numbers(Len(log)) /\ replay' \in [Streams -> Seq(Nat)]
      /\ \A b \in Streams : b # c => replay'[b] = replay[b]
  <2>1. Numbers(Len(log)) \in Seq(Nat)
    BY <1>3, Zenon DEF RunTo
  <2> QED
    BY <2>1, <1>1, <1>2, Zenon DEF EventsTypes
<1>5. ASSUME c \notin lost PROVE StreamInv(c)'
  <2>1. Sent' = Sent /\ Sent \in Nat /\ Sent <= Len(log)
    BY <1>1, <1>2, SentOfLog, Zenon DEF Sent
  <2>2. /\ shown[c] \in Seq(Nat) /\ RunTo(shown[c], Len(shown[c])) /\ Len(shown[c]) \in Nat /\ Len(shown[c]) <= Len(log)
        /\ RunTo(buffer[c], Sent) /\ Len(buffer[c]) \in Nat /\ Len(buffer[c]) <= Sent
        /\ \A p \in Publishers : channels[p] # <<>> /\ c \notin channels[p][1] => buffer[c] = <<>>
    BY <1>5, StreamFacts, Zenon
  <2>3. ASSUME replay'[c] # <<>> PROVE replay'[c][Len(replay'[c])] = Len(log) /\ replay'[c][1] = 1
    <3>1. Numbers(Len(log)) # <<>>
      BY <2>3, <1>4, Zenon
    <3>2. /\ Numbers(Len(log))[Len(Numbers(Len(log)))] = Len(log) /\ Len(Numbers(Len(log))) \in Nat \ {0}
          /\ Numbers(Len(log))[1] = Len(log) - Len(Numbers(Len(log))) + 1
      BY <3>1, <1>3, RunTail, ZenonT(30)
    <3>3. Numbers(Len(log))[1] = 1
      BY ONLY <3>2, <1>3
    <3> QED
      BY <3>2, <3>3, <1>4, Zenon
  <2>4. replay'[c] # <<>> => /\ RunTo(replay'[c], replay'[c][Len(replay'[c])]) /\ replay'[c][Len(replay'[c])] <= Len(log)
                             /\ replay'[c][1] <= Len(shown[c]) + 1
    <3>1. 1 <= Len(shown[c]) + 1 /\ Len(log) <= Len(log)
      BY ONLY <2>2, <1>3
    <3> QED
      BY <3>1, <2>3, <1>3, <1>4, Zenon
  <2>5. \A n \in Nat : n <= Len(log) => n <= Len(shown'[c]) \/ (replay'[c] # <<>> /\ n <= replay'[c][Len(replay'[c])])
    <3>1. CASE replay'[c] = <<>>
      <4>1. Len(log) = 0
        BY <3>1, <1>3, <1>4, EmptyRun, Zenon
      <4> QED
        BY ONLY <4>1, <2>2, <1>1
    <3>2. CASE replay'[c] # <<>>
      BY <3>2, <2>3, Zenon
    <3> QED
      BY <3>1, <3>2, Zenon
  <2>6. Knows(c, Sent - Len(buffer[c]))'
    <3>1. Sent - Len(buffer[c]) \in Nat /\ Sent - Len(buffer[c]) <= Len(log)
      BY ONLY <2>1, <2>2, <1>3
    <3>2. (Sent - Len(buffer[c]))' = Sent - Len(buffer[c])
      BY <2>1, <1>1, Zenon
    <3> QED
      BY <3>1, <3>2, <2>5, Zenon DEF Knows
  <2>7. ASSUME NEW p \in Publishers, channels[p] # <<>> PROVE Knows(c, Sent + 1)'
    <3>1. Sent < Len(log)
      BY <2>7, <1>2, SentOfLog, Zenon
    <3>2. Sent + 1 \in Nat /\ Sent + 1 <= Len(log) /\ (Sent + 1)' = Sent + 1
      BY ONLY <3>1, <2>1, <1>3
    <3> QED
      BY <3>2, <2>5, Zenon DEF Knows
  <2> QED
    BY <2>1, <2>2, <2>4, <2>6, <2>7, <1>1, Zenon DEF StreamInv
<1> QED
  BY <1>1, <1>2, <1>4, <1>5, StreamMoves, Zenon DEF EventsTypes

(* A replay that fails leaves a channel nobody reads. *)
LEMMA ReplayErrorKeepsEventsInv ==
  ASSUME EventsInv, NEW c \in Streams, ReplayError(c)
  PROVE  EventsInv'
<1>1. /\ stream[c] = "subscribed" /\ stream' = [stream EXCEPT ![c] = "orphaned"]
      /\ rowState' = rowState /\ log' = log /\ eventLock' = eventLock /\ outbox' = outbox /\ channels' = channels
      /\ registered' = registered /\ buffer' = buffer /\ replay' = replay /\ shown' = shown /\ poll' = poll /\ lost' = lost
  BY DEF ReplayError, job, publisher, browser
<1>2. EventsTypes /\ RegisteredInv /\ Connected(c)
  BY <1>1, Zenon DEF EventsInv, Connected
<1>3. replay[c] = <<>> /\ stream'[c] = "orphaned"
  BY <1>1, <1>2, Zenon DEF RegisteredInv, EventsTypes
<1>4. ASSUME c \notin lost PROVE StreamInv(c)'
  <2>1. ~Served(c)' /\ Sent' = Sent
    BY <1>1, <1>3, Zenon DEF Served, Sent
  <2> QED
    BY <2>1, <1>1, <1>4, StreamFacts, Zenon DEF StreamInv
<1> QED
  BY <1>1, <1>2, <1>3, <1>4, StreamMoves, Zenon DEF EventsTypes

(* After the replay the handler forwards. *)
LEMMA ForwardingKeepsEventsInv ==
  ASSUME EventsInv, NEW c \in Streams, StartForwarding(c)
  PROVE  EventsInv'
<1>1. /\ stream[c] = "replaying" /\ replay[c] = <<>> /\ stream' = [stream EXCEPT ![c] = "live"]
      /\ rowState' = rowState /\ log' = log /\ eventLock' = eventLock /\ outbox' = outbox /\ channels' = channels
      /\ registered' = registered /\ buffer' = buffer /\ replay' = replay /\ shown' = shown /\ poll' = poll /\ lost' = lost
  BY Zenon DEF StartForwarding, job, publisher, browser
<1>2. EventsTypes /\ Connected(c)
  BY <1>1 DEF EventsInv, Connected
<1>3. ASSUME c \notin lost PROVE StreamInv(c)'
  <2>1. Sent' = Sent /\ Served(c)
    BY <1>1, Zenon DEF Sent, Served
  <2>2. Knows(c, Sent - Len(buffer[c]))' /\ \A p \in Publishers : channels[p] # <<>> /\ c \notin channels[p][1] => Knows(c, Sent + 1)'
    BY <2>1, <1>1, <1>3, StreamFacts, Zenon DEF Knows
  <2> QED
    BY <2>1, <2>2, <1>1, <1>3, StreamFacts, Zenon DEF StreamInv
<1> QED
  BY <1>1, <1>2, <1>3, StreamMoves, Zenon DEF EventsTypes

(* What is known stays known when the browser shows more and nothing is taken from the replay
   but what it shows. *)
LEMMA KnowsMore ==
  ASSUME NEW c, Len(shown[c]) \in Nat, Len(shown'[c]) \in Nat, Len(shown[c]) <= Len(shown'[c]),
         replay[c] # <<>> => /\ replay[c][Len(replay[c])] \in Nat
                             /\ \/ replay[c][Len(replay[c])] <= Len(shown'[c])
                                \/ replay'[c] # <<>> /\ replay'[c][Len(replay'[c])] = replay[c][Len(replay[c])],
         NEW n \in Nat, Knows(c, n)
  PROVE  n <= Len(shown'[c]) \/ (replay'[c] # <<>> /\ n <= replay'[c][Len(replay'[c])])
<1>1. CASE n <= Len(shown[c])
  BY ONLY <1>1, Len(shown[c]) \in Nat, Len(shown'[c]) \in Nat, Len(shown[c]) <= Len(shown'[c]), n \in Nat
<1>2. CASE replay[c] # <<>> /\ n <= replay[c][Len(replay[c])]
  <2> DEFINE last == replay[c][Len(replay[c])]
  <2>1. last \in Nat /\ n <= last
    BY <1>2, Zenon
  <2>2. last <= Len(shown'[c]) \/ (replay'[c] # <<>> /\ replay'[c][Len(replay'[c])] = last)
    BY <1>2, Zenon
  <2> HIDE DEF last
  <2>3. CASE last <= Len(shown'[c])
    BY ONLY <2>1, <2>3, n \in Nat, Len(shown'[c]) \in Nat
  <2>4. CASE replay'[c] # <<>> /\ replay'[c][Len(replay'[c])] = last
    BY <2>1, <2>4, Zenon
  <2> QED
    BY <2>2, <2>3, <2>4, Zenon
<1> QED
  BY <1>1, <1>2, Zenon DEF Knows

(* Replayed events are shown one after the other. *)
LEMMA WriteKeepsEventsInv ==
  ASSUME EventsInv, NEW c \in Streams, WriteReplayed(c)
  PROVE  EventsInv'
<1>1. /\ stream[c] = "replaying" /\ replay[c] # <<>> /\ Receive(c, Head(replay[c]))
      /\ replay' = [replay EXCEPT ![c] = Tail(@)]
      /\ rowState' = rowState /\ log' = log /\ eventLock' = eventLock /\ outbox' = outbox /\ channels' = channels
      /\ registered' = registered /\ buffer' = buffer /\ stream' = stream /\ poll' = poll /\ lost' = lost
  BY DEF WriteReplayed, job, publisher
<1>2. EventsTypes /\ OutboxInv /\ Connected(c) /\ Served(c)
  BY <1>1 DEF EventsInv, Connected, Served
<1>3. DOMAIN shown' = Streams /\ \A b \in Streams : b # c => shown'[b] = shown[b]
  BY <1>1, <1>2, ReceiveLeavesOthers, Zenon DEF EventsTypes
<1>4. /\ replay'[c] = Tail(replay[c]) /\ replay' \in [Streams -> Seq(Nat)]
      /\ \A b \in Streams : b # c => replay'[b] = replay[b]
  <2>1. Tail(replay[c]) \in Seq(Nat)
    BY <1>1, <1>2 DEF EventsTypes
  <2> QED
    BY <2>1, <1>1, <1>2, Zenon DEF EventsTypes
<1>5. stream' = [stream EXCEPT ![c] = "replaying"]
  BY <1>1, <1>2, Zenon DEF EventsTypes
<1>6. ASSUME c \notin lost PROVE StreamInv(c)'
  <2> DEFINE last == replay[c][Len(replay[c])]
             e == Head(replay[c])
  <2>1. /\ RunTo(shown[c], Len(shown[c])) /\ Len(shown[c]) \in Nat /\ Len(shown[c]) <= Len(log)
        /\ RunTo(replay[c], last) /\ last <= Len(log) /\ replay[c][1] <= Len(shown[c]) + 1 /\ last \in Nat
        /\ RunTo(buffer[c], Sent) /\ Len(buffer[c]) \in Nat /\ Len(buffer[c]) <= Sent
        /\ Knows(c, Sent - Len(buffer[c]))
        /\ \A p \in Publishers : channels[p] # <<>> /\ c \notin channels[p][1] => buffer[c] = <<>> /\ Knows(c, Sent + 1)
    BY <1>1, <1>2, <1>6, StreamFacts, Zenon
  <2>2. /\ e = last - Len(replay[c]) + 1 /\ e = replay[c][1] /\ Len(replay[c]) \in Nat \ {0} /\ RunTo(Tail(replay[c]), last)
        /\ Tail(replay[c]) # <<>> => Tail(replay[c])[1] = e + 1 /\ Tail(replay[c])[Len(Tail(replay[c]))] = last
        /\ Tail(replay[c]) = <<>> => e = last
    <3> HIDE DEF last
    <3> QED
      BY <2>1, <1>1, RunHead, RunRest, RunEnds, Zenon
  <2>3. Len(replay[c]) <= last
    BY <2>1, Zenon DEF RunTo
  <2>4. Sent' = Sent /\ Sent \in Nat /\ Len(log) \in Nat
    BY <1>1, <1>2, SentOfLog, Zenon DEF Sent
  <2> HIDE DEF last, e
  <2>5. e \in Nat \ {0} /\ e <= Len(shown[c]) + 1 /\ e <= last
    BY ONLY <2>1, <2>2, <2>3, FirstOfRun, Zenon
  <2>6. /\ shown'[c] \in Seq(Nat) /\ RunTo(shown'[c], Len(shown'[c])) /\ Len(shown'[c]) \in Nat
        /\ Len(shown[c]) <= Len(shown'[c]) /\ e <= Len(shown'[c])
        /\ Len(shown'[c]) = Len(shown[c]) \/ Len(shown'[c]) = e
    BY <2>1, <2>5, <1>1, <1>2, ReceiveKeepsRun, Zenon DEF EventsTypes, e
  <2>7. Len(shown'[c]) <= Len(log)
    BY ONLY <2>1, <2>4, <2>5, <2>6
  <2>8. \A n \in Nat : Knows(c, n) => Knows(c, n)'
    <3>1. last <= Len(shown'[c]) \/ (replay'[c] # <<>> /\ replay'[c][Len(replay'[c])] = last)
      BY <2>2, <2>6, <1>4, Zenon
    <3> QED
      BY <3>1, <2>1, <2>6, KnowsMore, Zenon DEF last, Knows
  <2>9. ASSUME replay'[c] # <<>>
        PROVE  /\ RunTo(replay'[c], replay'[c][Len(replay'[c])]) /\ replay'[c][Len(replay'[c])] <= Len(log)
               /\ replay'[c][1] <= Len(shown'[c]) + 1
    <3>1. replay'[c][1] = e + 1 /\ replay'[c][Len(replay'[c])] = last /\ RunTo(replay'[c], last)
      BY <2>2, <2>9, <1>4, Zenon
    <3>2. e + 1 <= Len(shown'[c]) + 1
      BY ONLY <2>5, <2>6
    <3> QED
      BY <3>1, <3>2, <2>1, Zenon
  <2>10. Knows(c, Sent - Len(buffer[c]))' /\ \A p \in Publishers : channels[p] # <<>> /\ c \notin channels[p][1] => Knows(c, Sent + 1)'
    <3>1. Sent - Len(buffer[c]) \in Nat /\ Sent + 1 \in Nat
      BY ONLY <2>1, <2>4
    <3>2. (Sent - Len(buffer[c]))' = Sent - Len(buffer[c]) /\ (Sent + 1)' = Sent + 1
      BY <2>4, <1>1, Zenon
    <3> QED
      BY <3>1, <3>2, <2>1, <2>8, Zenon DEF Knows
  <2> QED
    BY <2>1, <2>4, <2>6, <2>7, <2>9, <2>10, <1>1, Zenon DEF StreamInv
<1> QED
  BY <1>1, <1>2, <1>3, <1>4, <1>5, <1>6, StreamMoves, Zenon DEF EventsTypes

(* So are the events of the channel. *)
LEMMA ForwardKeepsEventsInv ==
  ASSUME EventsInv, NEW c \in Streams, forwardJobEvents(c)
  PROVE  EventsInv'
<1>1. /\ stream[c] = "live" /\ buffer[c] # <<>> /\ Receive(c, Head(buffer[c]))
      /\ buffer' = [buffer EXCEPT ![c] = Tail(@)]
      /\ rowState' = rowState /\ log' = log /\ eventLock' = eventLock /\ outbox' = outbox /\ channels' = channels
      /\ registered' = registered /\ replay' = replay /\ stream' = stream /\ poll' = poll /\ lost' = lost
  BY Zenon DEF forwardJobEvents, job, publisher
<1>2. EventsTypes /\ OutboxInv /\ Connected(c) /\ Served(c) /\ replay[c] = <<>>
  BY <1>1 DEF EventsInv, Connected, Served, RegisteredInv
<1>3. DOMAIN shown' = Streams /\ \A b \in Streams : b # c => shown'[b] = shown[b]
  BY <1>1, <1>2, ReceiveLeavesOthers, Zenon DEF EventsTypes
<1>4. /\ buffer'[c] = Tail(buffer[c]) /\ buffer' \in [Streams -> Seq(Nat)]
      /\ \A b \in Streams : b # c => buffer'[b] = buffer[b]
  <2>1. Tail(buffer[c]) \in Seq(Nat)
    BY <1>1, <1>2 DEF EventsTypes
  <2> QED
    BY <2>1, <1>1, <1>2, Zenon DEF EventsTypes
<1>5. stream' = [stream EXCEPT ![c] = "live"]
  BY <1>1, <1>2, Zenon DEF EventsTypes
<1>6. ASSUME c \notin lost PROVE StreamInv(c)'
  <2> DEFINE e == Head(buffer[c])
  <2>1. Sent' = Sent /\ Sent \in Nat /\ Len(log) \in Nat /\ Sent <= Len(log)
    BY <1>1, <1>2, SentOfLog, Zenon DEF Sent
  <2>2. /\ RunTo(shown[c], Len(shown[c])) /\ Len(shown[c]) \in Nat /\ Len(shown[c]) <= Len(log)
        /\ RunTo(buffer[c], Sent) /\ Len(buffer[c]) \in Nat /\ Len(buffer[c]) <= Sent
        /\ Knows(c, Sent - Len(buffer[c]))
        /\ \A p \in Publishers : channels[p] # <<>> => c \in channels[p][1]
    BY <1>1, <1>2, <1>6, StreamFacts, Zenon
  <2>3. Sent - Len(buffer[c]) <= Len(shown[c])
    BY <2>2, <1>2, Zenon DEF Knows
  <2>4. /\ e = Sent - Len(buffer[c]) + 1 /\ RunTo(Tail(buffer[c]), Sent) /\ Len(Tail(buffer[c])) = Len(buffer[c]) - 1
        /\ Len(buffer[c]) \in Nat \ {0}
    BY <2>1, <2>2, <1>1, RunHead, RunRest, Zenon
  <2> HIDE DEF e
  <2>5. e \in Nat \ {0} /\ e <= Len(shown[c]) + 1 /\ e <= Sent
    <3>1. Sent \in Nat /\ Len(buffer[c]) \in Nat \ {0} /\ Len(buffer[c]) <= Sent /\ e = Sent - Len(buffer[c]) + 1
      BY <2>1, <2>2, <2>4, Zenon
    <3>2. e \in Nat \ {0} /\ e <= Sent
      BY ONLY <3>1, FirstOfRun
    <3>3. Len(shown[c]) \in Nat
      BY <2>2, Zenon
    <3>4. e <= Len(shown[c]) + 1
      BY ONLY <3>1, <3>3, <2>3, NextOfRun, Zenon
    <3> QED
      BY <3>2, <3>4, Zenon
  <2>6. /\ shown'[c] \in Seq(Nat) /\ RunTo(shown'[c], Len(shown'[c])) /\ Len(shown'[c]) \in Nat
        /\ Len(shown[c]) <= Len(shown'[c]) /\ e <= Len(shown'[c])
        /\ Len(shown'[c]) = Len(shown[c]) \/ Len(shown'[c]) = e
    BY <2>2, <2>5, <1>1, <1>2, ReceiveKeepsRun, Zenon DEF EventsTypes, e
  <2>7. Len(shown'[c]) <= Len(log)
    BY ONLY <2>1, <2>2, <2>5, <2>6
  <2>8. Sent' - Len(buffer'[c]) <= Len(shown'[c])
    <3>1. Sent' - Len(buffer'[c]) = e
      <4>1. Sent - (Len(buffer[c]) - 1) = e
        <5>1. Sent \in Nat /\ Len(buffer[c]) \in Nat \ {0} /\ Len(buffer[c]) <= Sent /\ e = Sent - Len(buffer[c]) + 1
          BY <2>1, <2>2, <2>4, Zenon
        <5> QED
          BY ONLY <5>1, FirstOfRun, Zenon
      <4> QED
        BY ONLY <4>1, <2>1, <2>4, <1>4, Zenon
    <3> QED
      BY <3>1, <2>6, Zenon
  <2>9. Knows(c, Sent - Len(buffer[c]))' /\ RunTo(buffer'[c], Sent') /\ replay'[c] = <<>>
    BY <2>1, <2>4, <2>8, <1>1, <1>2, <1>4, Zenon DEF Knows
  <2> QED
    BY <2>2, <2>6, <2>7, <2>9, <1>1, Zenon DEF StreamInv
<1> QED
  BY <1>1, <1>2, <1>3, <1>4, <1>5, <1>6, StreamMoves, Zenon DEF EventsTypes

(* The end of a connection takes its channel out of the registration and out of copies of it. *)
LEMMA DisconnectKeepsEventsInv ==
  ASSUME EventsInv, NEW c \in Streams, Disconnect(c)
  PROVE  EventsInv'
<1>1. /\ registered' = registered \ {c} /\ buffer' = [buffer EXCEPT ![c] = <<>>] /\ replay' = [replay EXCEPT ![c] = <<>>]
      /\ channels' = [p \in Publishers |-> IF channels[p] = <<>> THEN <<>> ELSE <<channels[p][1] \ {c}>>]
      /\ stream' = [stream EXCEPT ![c] = "idle"]
      /\ rowState' = rowState /\ log' = log /\ eventLock' = eventLock /\ outbox' = outbox
      /\ shown' = shown /\ poll' = poll /\ lost' = lost
  BY DEF Disconnect, job, browser
<1>2. LogInv' /\ EventsTypes /\ LogInv /\ OutboxInv /\ RegisteredInv /\ Len(log) \in Nat /\ Len(log)' = Len(log) /\ Len(log) <= Len(log)
  BY <1>1, SameLog, Zenon
<1>3. ASSUME NEW p \in Publishers
      PROVE  /\ channels'[p] \in {<<>>} \cup {<<S>> : S \in SUBSET Streams}
             /\ channels'[p] = <<>> <=> channels[p] = <<>>
             /\ channels[p] # <<>> => channels'[p][1] = channels[p][1] \ {c}
  <2>1. CASE channels[p] = <<>>
    BY <2>1, <1>1, Zenon
  <2>2. CASE channels[p] # <<>>
    <3>1. PICK S \in SUBSET Streams : channels[p] = <<S>>
      BY <2>2, <1>2 DEF EventsTypes
    <3>2. channels[p][1] = S /\ S \ {c} \in SUBSET Streams
      BY <3>1
    <3>3. channels'[p] = <<S \ {c}>>
      BY <3>2, <2>2, <1>1, Zenon
    <3>4. <<S \ {c}>> # <<>> /\ <<S \ {c}>>[1] = S \ {c}
      BY Zenon
    <3> QED
      BY <3>2, <3>3, <3>4, <2>2, Zenon
  <2> QED
    BY <2>1, <2>2, Zenon
<1>4. /\ stream'[c] = "idle" /\ buffer'[c] = <<>> /\ replay'[c] = <<>>
      /\ \A b \in Streams : b # c => stream'[b] = stream[b] /\ buffer'[b] = buffer[b] /\ replay'[b] = replay[b]
  BY <1>1, <1>2, Zenon DEF EventsTypes
<1>5. EventsTypes'
  <2>1. channels' \in [Publishers -> {<<>>} \cup {<<S>> : S \in SUBSET Streams}]
    <3>1. channels' = [p \in Publishers |-> channels'[p]]
      BY <1>1, Zenon
    <3> QED
      BY <3>1, <1>3, Zenon
  <2>2. /\ stream' \in [Streams -> {"idle", "subscribed", "replaying", "orphaned", "live"}]
        /\ buffer' \in [Streams -> Seq(Nat)] /\ replay' \in [Streams -> Seq(Nat)] /\ registered' \in SUBSET Streams
    BY <1>1, <1>2 DEF EventsTypes
  <2> QED
    BY <2>1, <2>2, <1>1, <1>2, Zenon DEF EventsTypes
<1>6. OutboxInv'
  BY <1>1, <1>2, <1>3, Zenon DEF OutboxInv
<1>7. RegisteredInv'
  <2>1. \A b \in Streams : (stream'[b] # "idle") <=> b \in registered'
    BY <1>1, <1>2, <1>4, Zenon DEF RegisteredInv, Connected
  <2>2. \A p \in Publishers : channels'[p] # <<>> => channels'[p][1] \subseteq registered'
    <3> TAKE p \in Publishers
    <3> HAVE channels'[p] # <<>>
    <3>1. channels[p][1] \subseteq registered /\ channels'[p][1] = channels[p][1] \ {c}
      BY <1>2, <1>3, Zenon DEF RegisteredInv
    <3> QED
      BY <3>1, <1>1, Zenon
  <2>3. \A b \in Streams : /\ stream'[b] = "idle" => buffer'[b] = <<>>
                           /\ stream'[b] # "replaying" => replay'[b] = <<>>
                           /\ poll'[b].events # <<>> => poll'[b].events[1] <= Len(log')
    BY <1>1, <1>2, <1>4, Zenon DEF RegisteredInv, Connected
  <2> QED
    BY <2>1, <2>2, <2>3, Zenon DEF RegisteredInv, Connected
<1>8. Sent' = Sent /\ Sent \in Nat
  BY <1>1, <1>2, SentOfLog, Zenon DEF Sent
<1>9. ASSUME NEW b \in Streams \ lost', b # c PROVE StreamInv(b)'
  <2>1. StreamInv(b)
    BY <1>1, <1>9, Zenon DEF EventsInv
  <2>2. \A p \in Publishers : channels'[p] # <<>> /\ b \notin channels'[p][1] =>
          buffer[b] = <<>> /\ (Served(b) => Knows(b, Sent + 1))
    <3> TAKE p \in Publishers
    <3> HAVE channels'[p] # <<>> /\ b \notin channels'[p][1]
    <3>1. channels[p] # <<>> /\ b \notin channels[p][1]
      BY <1>3, <1>9, Zenon
    <3> QED
      BY <3>1, <2>1, Zenon DEF StreamInv
  <2> QED
    BY <2>1, <2>2, <1>1, <1>2, <1>4, <1>8, <1>9, StreamKept, Zenon
<1>10. ASSUME c \notin lost PROVE StreamInv(c)'
  <2>1. ~Served(c)' /\ RunTo(<<>>, Sent)
    BY <1>4, <1>8, EmptyRun, Zenon DEF Served
  <2> QED
    BY <2>1, <1>1, <1>4, <1>8, <1>10, StreamFacts, Zenon DEF StreamInv
<1> QED
  BY <1>1, <1>2, <1>5, <1>6, <1>7, <1>9, <1>10, Zenon DEF EventsInv

(* A poll reads the row and the events at two moments. *)
LEMMA PollKeepsEventsInv ==
  ASSUME EventsInv, NEW c \in Streams, PollJob(c) \/ PollEvents(c)
  PROVE  EventsInv'
<1>1. /\ rowState' = rowState /\ log' = log /\ eventLock' = eventLock /\ outbox' = outbox /\ channels' = channels
      /\ registered' = registered /\ buffer' = buffer /\ stream' = stream /\ replay' = replay /\ shown' = shown /\ lost' = lost
  BY Zenon DEF PollJob, PollEvents, job, publisher, server
<1>2. EventsTypes /\ RegisteredInv /\ Len(log) \in Nat
  BY DEF EventsInv, EventsTypes
<1>3. /\ poll' \in [Streams -> [job : {"unread", "absent"} \cup Active \cup Terminal, events : {<<>>} \cup {<<n>> : n \in Nat}]]
      /\ \A b \in Streams : poll'[b].events # <<>> => poll'[b].events[1] <= Len(log)
  <2>1. \A b \in Streams : poll[b].events # <<>> => poll[b].events[1] <= Len(log)
    BY <1>2, Zenon DEF RegisteredInv
  <2>2. CASE PollJob(c)
    <3>1. poll' = [poll EXCEPT ![c].job = rowState]
      BY <2>2, Zenon DEF PollJob
    <3>2. \A b \in Streams : poll'[b].events = poll[b].events
      BY <3>1, <1>2, Zenon DEF EventsTypes
    <3>3. poll' \in [Streams -> [job : {"unread", "absent"} \cup Active \cup Terminal, events : {<<>>} \cup {<<n>> : n \in Nat}]]
      BY <3>1, <1>2, Zenon DEF EventsTypes
    <3> QED
      BY <3>2, <3>3, <2>1, Zenon
  <2>3. CASE PollEvents(c)
    <3>1. PICK answer \in {0, Len(log)} : poll' = [poll EXCEPT ![c].events = <<answer>>]
      BY <2>3, Zenon DEF PollEvents
    <3>2. answer \in Nat /\ answer <= Len(log) /\ <<answer>>[1] = answer
      BY <1>2
    <3>3. poll'[c].events = <<answer>> /\ \A b \in Streams : b # c => poll'[b].events = poll[b].events
      BY <3>1, <1>2 DEF EventsTypes
    <3>4. poll' \in [Streams -> [job : {"unread", "absent"} \cup Active \cup Terminal, events : {<<>>} \cup {<<n>> : n \in Nat}]]
      BY <3>1, <3>2, <1>2, Zenon DEF EventsTypes
    <3> QED
      BY <3>2, <3>3, <3>4, <2>1, Zenon
  <2> QED
    BY <2>2, <2>3, Zenon
<1>4. EventsTypes'
  BY <1>1, <1>2, <1>3, Zenon DEF EventsTypes
<1>5. RegisteredInv'
  BY <1>1, <1>2, <1>3, ZenonT(30) DEF RegisteredInv, Connected
<1>6. ASSUME c \notin lost PROVE StreamInv(c)'
  <2>1. Sent' = Sent
    BY <1>1, Zenon DEF Sent
  <2> QED
    BY <2>1, <1>1, <1>2, <1>6, StreamKept DEF EventsInv, StreamInv
<1> QED
  BY <1>1, <1>4, <1>5, <1>6, StreamStep, Zenon

(* The merge adds the events of the answer behind those that are shown. *)
LEMMA ApplyKeepsEventsInv ==
  ASSUME EventsInv, NEW c \in Streams, ApplyPoll(c)
  PROVE  EventsInv'
<1>1. /\ poll[c].events # <<>> /\ shown' = [shown EXCEPT ![c] = mergeEvents(@, Numbers(poll[c].events[1]))]
      /\ poll' = [poll EXCEPT ![c] = NoPoll]
      /\ rowState' = rowState /\ log' = log /\ eventLock' = eventLock /\ outbox' = outbox /\ channels' = channels
      /\ registered' = registered /\ buffer' = buffer /\ stream' = stream /\ replay' = replay /\ lost' = lost
  BY DEF ApplyPoll, job, publisher, server
<1>2. EventsTypes /\ RegisteredInv /\ OutboxInv
  BY Zenon DEF EventsInv
<1>3. poll[c].events[1] \in Nat /\ poll[c].events[1] <= Len(log) /\ Len(log) \in Nat
  BY <1>1, <1>2 DEF EventsTypes, RegisteredInv
<1>4. /\ DOMAIN shown' = Streams /\ shown'[c] = mergeEvents(shown[c], Numbers(poll[c].events[1]))
      /\ \A b \in Streams : b # c => shown'[b] = shown[b]
  BY <1>1, <1>2, Zenon DEF EventsTypes
<1>5. /\ poll'[c].events = <<>> /\ \A b \in Streams : b # c => poll'[b] = poll[b]
      /\ poll' \in [Streams -> [job : {"unread", "absent"} \cup Active \cup Terminal, events : {<<>>} \cup {<<n>> : n \in Nat}]]
  BY <1>1, <1>2, Zenon DEF EventsTypes, NoPoll
<1>6. EventsTypes'
  BY <1>1, <1>2, <1>4, <1>5, Zenon DEF EventsTypes
<1>7. RegisteredInv'
  BY <1>1, <1>2, <1>5, Zenon DEF RegisteredInv, Connected
<1>8. ASSUME c \notin lost PROVE StreamInv(c)'
  <2>1. Sent' = Sent /\ Sent \in Nat
    BY <1>1, <1>2, SentOfLog, Zenon DEF Sent
  <2>2. /\ RunTo(shown[c], Len(shown[c])) /\ Len(shown[c]) \in Nat /\ Len(shown[c]) <= Len(log)
        /\ replay[c] # <<>> => /\ RunTo(replay[c], replay[c][Len(replay[c])]) /\ replay[c][Len(replay[c])] <= Len(log)
                               /\ replay[c][1] <= Len(shown[c]) + 1 /\ replay[c][Len(replay[c])] \in Nat
        /\ RunTo(buffer[c], Sent) /\ Len(buffer[c]) \in Nat /\ Len(buffer[c]) <= Sent
        /\ Served(c) => Knows(c, Sent - Len(buffer[c]))
        /\ \A p \in Publishers : channels[p] # <<>> /\ c \notin channels[p][1] =>
             buffer[c] = <<>> /\ (Served(c) => Knows(c, Sent + 1))
    BY <1>8, StreamFacts, Zenon
  <2>3. /\ RunTo(shown'[c], Len(shown'[c])) /\ Len(shown'[c]) \in Nat /\ Len(shown[c]) <= Len(shown'[c])
        /\ Len(shown'[c]) = poll[c].events[1] \/ Len(shown'[c]) = Len(shown[c])
    <3> DEFINE k == poll[c].events[1]
               t == mergeEvents(shown[c], Numbers(k))
    <3>1. RunTo(t, Len(t)) /\ Len(t) \in Nat /\ Len(shown[c]) <= Len(t) /\ (Len(t) = k \/ Len(t) = Len(shown[c]))
      <4>1. k \in Nat /\ RunTo(shown[c], Len(shown[c]))
        BY <2>2, <1>3, Zenon
      <4> HIDE DEF k
      <4> QED
        BY ONLY <4>1, MergedRun, Zenon
    <3>2. shown'[c] = t
      BY <1>4
    <3> HIDE DEF t
    <3> QED
      BY <3>1, <3>2, Zenon DEF k
  <2>4. shown'[c] \in Seq(Nat) /\ Len(shown'[c]) <= Len(log)
    BY <2>2, <2>3, <1>3, Zenon DEF RunTo
  <2>5. \A n \in Nat : Knows(c, n) => Knows(c, n)'
    BY <2>2, <2>3, <1>1, KnowsMore, Zenon DEF Knows
  <2>6. Sent - Len(buffer[c]) \in Nat /\ Sent + 1 \in Nat
    BY ONLY <2>1, <2>2
  <2>7. /\ Served(c)' => Knows(c, Sent - Len(buffer[c]))'
        /\ \A p \in Publishers : channels[p] # <<>> /\ c \notin channels[p][1] => (Served(c)' => Knows(c, Sent + 1)')
    <3>1. (Sent - Len(buffer[c]))' = Sent - Len(buffer[c]) /\ (Sent + 1)' = Sent + 1 /\ (Served(c)' <=> Served(c))
      BY <2>1, <1>1, Zenon DEF Served
    <3> QED
      BY <3>1, <2>2, <2>5, <2>6, Zenon DEF Knows
  <2>8. replay[c] # <<>> => replay[c][1] <= Len(shown'[c]) + 1
    <3> HAVE replay[c] # <<>>
    <3>1. replay[c][1] \in Nat
      BY <1>2 DEF EventsTypes
    <3> QED
      BY ONLY <3>1, <2>2, <2>3, replay[c] # <<>>
  <2> QED
    BY <2>1, <2>2, <2>3, <2>4, <2>7, <2>8, <1>1, Zenon DEF StreamInv
<1> QED
  BY <1>1, <1>4, <1>6, <1>7, <1>8, StreamStep, ZenonT(30)

(* One step per action of the specification. *)
LEMMA EventsInvNext ==
  ASSUME EventsInv, [EventsNext]_eventsVars
  PROVE  EventsInv'
<1>1. ASSUME NEW p \in Publishers, start(p) PROVE EventsInv'
  <2>1. "running" \in Active \cup Terminal /\ 1 \in {1, 2}
    BY DEF Active
  <2> QED
    BY <1>1, <2>1, CommitKeepsEventsInv, Zenon DEF start, CreateJobWithInitialEvent
<1>2. ASSUME NEW p \in Publishers, PublishEvent(p) PROVE EventsInv'
  <2>1. rowState \in Active \cup Terminal /\ 1 \in {1, 2} /\ Rank(rowState) \in Nat
    BY <1>2, RankOrder, Zenon DEF PublishEvent
  <2>2. Rank(rowState) <= Rank(rowState)
    BY ONLY <2>1
  <2> QED
    BY <1>2, <2>1, <2>2, CommitKeepsEventsInv, Zenon DEF PublishEvent, AppendJobEvent
<1>3. ASSUME NEW p \in Publishers, Cancel(p) PROVE EventsInv'
  <2>1. "cancel_requested" \in Active \cup Terminal /\ 1 \in {1, 2} /\ Rank(rowState) <= Rank("cancel_requested")
    BY <1>3, RankOrder DEF Active, Cancel, TransitionJobWithEvents
  <2> QED
    BY <1>3, <2>1, CommitKeepsEventsInv, Zenon DEF Cancel, TransitionJobWithEvents
<1>4. ASSUME NEW p \in Publishers, FinishSucceeded(p) PROVE EventsInv'
  <2>1. "succeeded" \in Active \cup Terminal /\ 1 \in {1, 2} /\ Rank(rowState) <= Rank("succeeded")
    BY <1>4, RankOrder DEF Active, Terminal, FinishSucceeded, TransitionJobWithEvents
  <2> QED
    BY <1>4, <2>1, CommitKeepsEventsInv, Zenon DEF FinishSucceeded, TransitionJobWithEvents
<1>5. ASSUME NEW p \in Publishers, finishTerminal(p) PROVE EventsInv'
  <2>1. "failed" \in Active \cup Terminal /\ 2 \in {1, 2} /\ Rank(rowState) <= Rank("failed")
    BY <1>5, RankOrder DEF Active, Terminal, finishTerminal, TransitionJobWithEvents
  <2> QED
    BY <1>5, <2>1, CommitKeepsEventsInv, Zenon DEF finishTerminal, TransitionJobWithEvents
<1>6. ASSUME NEW p \in Publishers, PublisherStep(p) PROVE EventsInv'
  BY <1>6, CopyKeepsEventsInv, SendKeepsEventsInv, UnlockKeepsEventsInv, Zenon DEF PublisherStep
<1>7. ASSUME NEW c \in Streams, HandlerStep(c) PROVE EventsInv'
  BY <1>7, ReplayKeepsEventsInv, WriteKeepsEventsInv, ForwardingKeepsEventsInv, ForwardKeepsEventsInv, Zenon DEF HandlerStep
<1>8. ASSUME NEW c \in Streams, SubscribeJob(c) \/ ReplayError(c) \/ Disconnect(c) PROVE EventsInv'
  BY <1>8, SubscribeKeepsEventsInv, ReplayErrorKeepsEventsInv, DisconnectKeepsEventsInv, Zenon
<1>9. ASSUME NEW c \in Streams, PollJob(c) \/ PollEvents(c) \/ ApplyPoll(c) PROVE EventsInv'
  BY <1>9, PollKeepsEventsInv, ApplyKeepsEventsInv, Zenon
<1>10. CASE UNCHANGED eventsVars
  <2>1. /\ rowState' = rowState /\ log' = log /\ eventLock' = eventLock /\ outbox' = outbox /\ channels' = channels
        /\ registered' = registered /\ buffer' = buffer /\ stream' = stream /\ replay' = replay
        /\ shown' = shown /\ poll' = poll /\ lost' = lost
    BY <1>10, Zenon DEF eventsVars, job, publisher, server, browser
  <2>2. EventsTypes' /\ LogInv' /\ OutboxInv' /\ RegisteredInv'
    BY <2>1, Zenon DEF EventsInv, EventsTypes, LogInv, EventStatesForward, OutboxInv, RegisteredInv, Connected, RunTo
  <2>3. \A c \in Streams \ lost : StreamInv(c)'
    BY <2>1, ZenonT(30) DEF EventsInv, StreamInv, RunTo, Knows, Served, Sent
  <2> QED
    BY <2>1, <2>2, <2>3, Zenon DEF EventsInv
<1> QED
  BY <1>1, <1>2, <1>3, <1>4, <1>5, <1>6, <1>7, <1>8, <1>9, <1>10, Zenon DEF EventsNext

(* An event that is known is shown or waits in the replay. *)
LEMMA KnownIsHeld ==
  ASSUME EventsInv, NEW c \in Streams, c \notin lost, NEW n \in Nat \ {0}, Knows(c, n)
  PROVE  n \in Elements(shown[c]) \cup Elements(replay[c])
<1>1. /\ RunTo(shown[c], Len(shown[c])) /\ Len(shown[c]) \in Nat
      /\ replay[c] # <<>> => /\ RunTo(replay[c], replay[c][Len(replay[c])]) /\ replay[c][1] <= Len(shown[c]) + 1
                             /\ replay[c][Len(replay[c])] \in Nat
  BY StreamFacts, Zenon
<1>2. Elements(shown[c]) = (Len(shown[c]) - Len(shown[c]) + 1)..Len(shown[c])
  BY <1>1, RunElements, Zenon
<1>3. n <= Len(shown[c]) => n \in Elements(shown[c])
  BY ONLY <1>1, <1>2, n \in Nat \ {0}
<1>4. ASSUME replay[c] # <<>>, n <= replay[c][Len(replay[c])], ~(n <= Len(shown[c]))
      PROVE  n \in Elements(replay[c])
  <2> DEFINE k == replay[c][Len(replay[c])]
  <2>1. k \in Nat /\ RunTo(replay[c], k)
    BY <1>1, <1>4, Zenon
  <2>2. replay[c] \in Seq(Nat)
    BY <2>1, Zenon DEF RunTo
  <2>3. Elements(replay[c]) = (k - Len(replay[c]) + 1)..k
    BY <2>1, RunElements, Zenon
  <2>4. Len(replay[c]) \in Nat /\ 1 \in 1..Len(replay[c])
    BY <1>4, <2>2
  <2>5. replay[c][1] = k - Len(replay[c]) + 1
    BY <2>1, <2>4, Zenon DEF RunTo
  <2>6. k - Len(replay[c]) + 1 <= n
    BY ONLY <2>1, <2>4, <2>5, <1>1, <1>4, n \in Nat \ {0}
  <2> HIDE DEF k
  <2>7. n <= k
    BY <1>4 DEF k
  <2> QED
    BY ONLY <2>1, <2>3, <2>4, <2>6, <2>7, n \in Nat \ {0}
<1> QED
  BY <1>3, <1>4, Zenon DEF Knows

(* The events of the log are known, wait in the channel or are still to be sent. *)
LEMMA EventsInvMeansFaithful ==
  ASSUME EventsInv
  PROVE  StreamIsFaithful
<1>1. EventsTypes /\ OutboxInv /\ Len(log) \in Nat /\ EventStatesForward /\ Sent \in Nat
  BY SentOfLog, Zenon DEF EventsInv, EventsTypes, LogInv
<1>2. ASSUME NEW c \in Streams, c \notin lost, Served(c), NEW n \in 1..Len(log)
      PROVE  n \in Elements(shown[c]) \cup Elements(replay[c]) \cup Elements(buffer[c])
                     \cup UNION {Elements(outbox[p]) : p \in Publishers}
  <2>1. n \in Nat \ {0}
    BY <1>1, <1>2
  <2>2. RunTo(buffer[c], Sent) /\ Len(buffer[c]) \in Nat /\ Len(buffer[c]) <= Sent /\ Knows(c, Sent - Len(buffer[c]))
    BY <1>2, StreamFacts, Zenon
  <2>3. CASE n <= Sent - Len(buffer[c])
    <3>1. Len(shown[c]) \in Nat /\ (replay[c] # <<>> => replay[c][Len(replay[c])] \in Nat)
      BY <1>2, StreamFacts, Zenon
    <3>2. Sent - Len(buffer[c]) \in Nat
      BY ONLY <1>1, <2>2
    <3>3. Knows(c, n)
      BY <2>1, <2>2, <2>3, <3>1, <3>2 DEF Knows
    <3> QED
      BY <1>2, <2>1, <3>3, KnownIsHeld, Zenon
  <2>4. CASE n > Sent - Len(buffer[c]) /\ n <= Sent
    <3>1. Elements(buffer[c]) = (Sent - Len(buffer[c]) + 1)..Sent
      BY <1>1, <2>2, RunElements, Zenon
    <3>2. n \in (Sent - Len(buffer[c]) + 1)..Sent
      BY ONLY <1>1, <2>1, <2>2, <2>4
    <3> QED
      BY <3>1, <3>2, Zenon
  <2>5. CASE n > Sent
    <3>1. eventLock # NoPublisher
      <4> SUFFICES ASSUME eventLock = NoPublisher PROVE FALSE
        OBVIOUS
      <4>1. Sent = Len(log)
        BY Zenon DEF Sent
      <4> QED
        BY ONLY <4>1, <2>5, <1>1, <1>2
    <3>2. eventLock \in Publishers /\ Sent = Len(log) - Len(outbox[eventLock])
      BY <3>1, <1>1, Zenon DEF EventsTypes, Sent
    <3>3. RunTo(outbox[eventLock], Len(log))
      BY <3>2, <1>1, Zenon DEF OutboxInv
    <3>4. Elements(outbox[eventLock]) = (Len(log) - Len(outbox[eventLock]) + 1)..Len(log)
      BY <1>1, <3>3, RunElements, Zenon
    <3>5. n \in (Sent + 1)..Len(log)
      BY ONLY <1>1, <1>2, <2>5
    <3> QED
      BY <3>2, <3>4, <3>5, Zenon
  <2> QED
    BY ONLY <2>1, <2>2, <2>3, <2>4, <2>5, <1>1
<1>3. ASSUME NEW c \in Streams \ lost, NEW i \in 1..Len(shown[c])
      PROVE  shown[c][i] = i
  <2>1. RunTo(shown[c], Len(shown[c])) /\ Len(shown[c]) \in Nat
    BY <1>3, StreamFacts, Zenon
  <2>2. shown[c][i] = Len(shown[c]) - Len(shown[c]) + i
    BY <2>1, <1>3, Zenon DEF RunTo
  <2> QED
    BY ONLY <2>1, <2>2, <1>3
<1>4. NothingMissed
  BY <1>2, Zenon DEF NothingMissed, Served
<1>5. ShownInOrder
  BY <1>3, Zenon DEF ShownInOrder
<1> QED
  BY <1>1, <1>4, <1>5, Zenon DEF StreamIsFaithful

(* What subscribing before the replay, the event lock and the deduplication of the hook are for: a
   stream that lost nothing to a full channel shows every event of its job once and in order, or
   has it waiting, whatever publishers, reconnects and polls do, for every number of publishers and
   streams and every capacity of a channel; and no event tells of a state the job had left. *)
THEOREM StreamFaithful == EventsSpec => []StreamIsFaithful
<1>1. EventsInit => EventsInv
  BY EventsInvInit
<1>2. EventsInv /\ [EventsNext]_eventsVars => EventsInv'
  BY EventsInvNext
<1>3. EventsInv => StreamIsFaithful
  BY EventsInvMeansFaithful
<1> QED
  BY <1>1, <1>2, <1>3, PTL DEF EventsSpec
===========================================================================
