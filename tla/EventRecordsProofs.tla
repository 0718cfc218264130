-------------------------- MODULE EventRecordsProofs --------------------------
(***************************************************************************)
(* What the goroutines of the event handler make of the notices, for any   *)
(* notices, configurations and number of instances, in whatever order they *)
(* run.                                                                    *)
(*                                                                         *)
(* History only grows, so what a row, a vote or an event says of its       *)
(* notice stays true; and each goroutine runs once.  The rest is            *)
(* accounting: JobsInv says which goroutines there may be, GivenInv what    *)
(* they have given and still may, DoneInv what they owe.                   *)
(***************************************************************************)
EXTENDS EventRecords, FiniteSetTheorems, TLAPS

Again == "LoggedOut again"

\* Goroutines carry a notice that was taken, a vote its voter, and an event
\* what may be told of its notice.
JobOK(j) ==
    /\ j = Job(j.what, j.n, j.arg)
    /\ j.n \in DOMAIN history
    /\ j.what = "vote" => /\ j.arg = Voter(history[j.n])
                          /\ history[j.n].choice # ""
    /\ j.what = "tell" => ~Unwanted(history[j.n])

JobsInv == \A j \in jobs : JobOK(j)

\* A handler is held up by a logout of its own instance that has not been
\* passed on for the second time.
BusyInv ==
    \A i \in Instances : busy[i] # 0 =>
        /\ busy[i] \in DOMAIN history
        /\ history[busy[i]].kind = "LoggedOut" /\ history[busy[i]].inst = i
        /\ Job("tell", busy[i], Again) \notin jobs

RecordsInv ==
    /\ stored \subseteq (DOMAIN history) \X (DOMAIN rows)
    /\ \A m \in DOMAIN rows : rows[m].n \in DOMAIN history

\* Every vote is one that its voter cast.
VotesInv ==
    \A v \in DOMAIN votes :
        /\ votes[v].n \in DOMAIN history /\ votes[v].inst \in Instances
        /\ v = Voter(history[votes[v].n]) /\ history[votes[v].n].choice # ""

LabelsInv ==
    \A k \in DOMAIN labels : /\ labels[k] \in DOMAIN history
                             /\ k[1] = history[labels[k]].inst

\* The second telling of the logout n is still to come.
ToCome(n) == \/ Job("tell", n, Again) \in jobs
             \/ \E i \in Instances : busy[i] = n

\* Copies of g given, and the goroutines that may still give one.
Counted(g) ==
    /\ g = <<g[1], g[2], g[3]>> /\ g[1] \in DOMAIN history
    /\ ~Unwanted(history[g[1]]) /\ g[2] # Again
    /\ g[2] # "LoggedOut" => given[g] = 1 /\ Job("tell", g[1], g[2]) \notin jobs
    /\ g[2] = "LoggedOut" =>
         LET first == Job("tell", g[1], "LoggedOut") \in jobs
         IN /\ given[g] <= 2
            /\ first \/ ToCome(g[1]) => given[g] = 1
            /\ ~(first /\ ToCome(g[1]))

GivenInv == IsABag(given) /\ \A g \in DOMAIN given : Counted(g)

\* Deliveries that are remembered were noticed.
SeenInv ==
    \A key \in seen : key[3] = "Delivered" =>
        \E m \in DOMAIN history :
            /\ history[m].kind = "Delivered" /\ history[m].inst = key[1]
            /\ history[m].ids[1] = key[2]

\* What is owed is on its way or done.
DoneInv ==
    \A n \in DOMAIN history : ~Unwanted(history[n]) /\ ~Excused(n) =>
        \/ Job("tell", n, EventFor(history[n])) \in jobs
        \/ Told(n, EventFor(history[n]))

EventsInv ==
    /\ set \in Configs
    /\ history \in Seq(Notices) /\ Len(history) <= MaxNotices
    /\ busy \in [Instances -> Nat]
    /\ JobsInv
    /\ BusyInv
    /\ RecordsInv
    /\ ReferralIsKept
    /\ VotesInv
    /\ LabelsInv
    /\ GivenInv
    /\ SeenInv
    /\ DoneInv

-----------------------------------------------------------------------------
(* Jobs, tables and bags.                                                   *)

LEMMA JobFields ==
    ASSUME NEW w, NEW n, NEW a
    PROVE  /\ Job(w, n, a).what = w /\ Job(w, n, a).n = n /\ Job(w, n, a).arg = a
           /\ Job(w, n, a) = Job(Job(w, n, a).what, Job(w, n, a).n, Job(w, n, a).arg)
BY DEF Job

\* Jobs that differ in what, notice or argument are different jobs.
LEMMA JobEqual ==
    ASSUME NEW w, NEW n, NEW a, NEW v, NEW m, NEW b, Job(w, n, a) = Job(v, m, b)
    PROVE  w = v /\ n = m /\ a = b
BY DEF Job

LEMMA Upserts ==
    ASSUME NEW table, NEW key, NEW r
    PROVE  /\ DOMAIN Upsert(table, key, r) = DOMAIN table \cup {key}
           /\ Upsert(table, key, r)[key] = r
           /\ \A k \in DOMAIN table : k # key => Upsert(table, key, r)[k] = table[k]
BY DEF Upsert

LEMMA AddToBag ==
    ASSUME NEW B, NEW R, IsABag(B)
    PROVE  LET C == B (+) SetToBag(R)
           IN /\ IsABag(C) /\ DOMAIN C = DOMAIN B \cup R
              /\ \A g \in DOMAIN B \ R : C[g] = B[g]
              /\ \A g \in R : C[g] = IF g \in DOMAIN B THEN B[g] + 1 ELSE 1
BY DEF IsABag, SetToBag, (+)

LEMMA EmptyIsBag == IsABag(EmptyBag) /\ DOMAIN EmptyBag = {}
BY DEF IsABag, SetToBag, EmptyBag

\* A notice that is taken is the last of the history, and changes no other.
LEMMA Grows ==
    ASSUME history \in Seq(Notices), NEW x \in Notices, history' = Append(history, x)
    PROVE  LET n == Len(history) + 1
           IN /\ history' \in Seq(Notices) /\ Len(history') = n
              /\ n \notin DOMAIN history /\ DOMAIN history' = DOMAIN history \cup {n}
              /\ history'[n] = x /\ n # 0
              /\ \A k \in DOMAIN history : history'[k] = history[k] /\ k < n /\ k \in Nat
<1>1. Len(history) \in Nat /\ DOMAIN history = 1 .. Len(history)
  OBVIOUS
<1>2. history' \in Seq(Notices) /\ Len(history') = Len(history) + 1
  OBVIOUS
<1>3. DOMAIN history' = 1 .. Len(history) + 1
  BY <1>2
<1> QED BY <1>1, <1>2, <1>3

\* What is wanted depends on the setup alone.
LEMMA SameWants ==
    ASSUME set' = set
    PROVE  /\ \A e, c : InstanceWants(e, c)' <=> InstanceWants(e, c)
           /\ \A e : SendToGlobalQueues(e)' = SendToGlobalQueues(e)
           /\ \A x : Unwanted(x)' <=> Unwanted(x)
BY DEF InstanceWants, SendToGlobalQueues, AmqpWants, NatsWants, Unwanted

\* An old notice is what it was, and repeats what it did.
LEMMA OldNotices ==
    ASSUME history \in Seq(Notices), NEW x \in Notices, history' = Append(history, x),
           set' = set, given' = given, NEW n \in DOMAIN history
    PROVE  /\ n \in DOMAIN history' /\ history'[n] = history[n]
           /\ Excused(n)' <=> Excused(n)
           /\ \A e : Told(n, e)' <=> Told(n, e)
<1>1. n \in DOMAIN history' /\ history'[n] = history[n]
  BY Grows
<1>2. n \in 1 .. Len(history) /\ DOMAIN history = 1 .. Len(history)
      /\ Len(history) \in Nat
  OBVIOUS
<1>3. \A m \in 1 .. n - 1 : m \in DOMAIN history
  BY <1>2
<1>4. \A m \in 1 .. n - 1 : history'[m] = history[m]
  BY <1>3, Grows
<1>5. Excused(n)' <=> Excused(n)
  BY <1>1, <1>4 DEF Excused, Repeats, MayPanic
<1>6. \A e : Told(n, e)' <=> Told(n, e)
  BY <1>1, SameWants DEF Told
<1> QED BY <1>1, <1>5, <1>6

-----------------------------------------------------------------------------
(* A notice is taken.                                                       *)

\* A goroutine that may come of the n-th notice x.
MayBegin(j, n, x) ==
    /\ j = Job(j.what, j.n, j.arg) /\ j.n = n
    /\ j.what = "vote" => j.arg = Voter(x) /\ x.choice # ""
    /\ j.what = "tell" => j.arg # Again /\ ~Unwanted(x)

\* What a handler may do with the n-th notice x of instance i: begin the
\* goroutines J, remember, and write a label.
Begins(i, n, x, J) ==
    /\ set' = set /\ rows' = rows /\ stored' = stored /\ votes' = votes
    /\ given' = given
    /\ history' = Append(history, x) /\ n = Len(history) + 1 /\ n <= MaxNotices
    /\ x \in Notices /\ x.inst = i /\ busy[i] = 0
    /\ jobs' = jobs \cup J
    /\ \A j \in J : MayBegin(j, n, x)
    /\ \/ Unwanted(x) \/ Excused(n)'
       \/ Job("tell", n, EventFor(x)) \in J
    /\ \/ busy' = busy
       \/ busy' = [busy EXCEPT ![i] = n] /\ x.kind = "LoggedOut"
    /\ \A key \in seen' :
          \/ key \in seen
          \/ key[3] = "Delivered" =>
               x.kind = "Delivered" /\ key[1] = i /\ key[2] = x.ids[1]
    /\ \/ labels' = labels
       \/ \E k : labels' = Upsert(labels, k, n) /\ k[1] = i

LEMMA BeginsKeeps ==
    ASSUME EventsInv, NEW i \in Instances, NEW n, NEW x, NEW J, Begins(i, n, x, J)
    PROVE  EventsInv'
<1>1. /\ history \in Seq(Notices) /\ x \in Notices /\ history' = Append(history, x)
      /\ set' = set /\ given' = given /\ jobs' = jobs \cup J
      /\ rows' = rows /\ stored' = stored /\ votes' = votes
  BY DEF EventsInv, Begins
<1>2. /\ history' \in Seq(Notices) /\ Len(history') = n /\ n \notin DOMAIN history
      /\ DOMAIN history' = DOMAIN history \cup {n} /\ history'[n] = x /\ n # 0
      /\ n \in Nat
      /\ \A k \in DOMAIN history : history'[k] = history[k] /\ k < n /\ k \in Nat
  <2>1. n = Len(history) + 1
    BY DEF Begins, MayBegin
  <2>2. Len(history) \in Nat
    BY <1>1
  <2> QED BY <1>1, <2>1, <2>2, Grows
<1>3. \A k \in DOMAIN history :
        (Excused(k)' <=> Excused(k)) /\ \A e : Told(k, e)' <=> Told(k, e)
  BY <1>1, OldNotices
<1>4. /\ set' \in Configs /\ Len(history') <= MaxNotices
      /\ busy' \in [Instances -> Nat]
  BY <1>1, <1>2 DEF EventsInv, Begins
<1>5. \A y : Unwanted(y)' <=> Unwanted(y)
  BY <1>1, SameWants
<1>6. JobsInv'
  <2>1. ASSUME NEW j \in jobs
        PROVE  JobOK(j)'
    <3>1. JobOK(j)
      BY DEF EventsInv, JobsInv
    <3> QED BY <1>2, <1>5, <3>1 DEF JobOK
  <2>2. ASSUME NEW j \in J
        PROVE  JobOK(j)'
    BY <1>2, <1>5, <2>2 DEF Begins, MayBegin, JobOK
  <2> QED BY <1>1, <2>1, <2>2 DEF JobsInv
<1>7. \A k \in DOMAIN history : \A w, a : Job(w, k, a) \in jobs' <=> Job(w, k, a) \in jobs
  <2>1. \A j \in J : j.n = n
    BY DEF Begins, MayBegin
  <2>2. ASSUME NEW k \in DOMAIN history, NEW w, NEW a
        PROVE  Job(w, k, a) \notin J
    <3>1. Job(w, k, a).n # n
      BY <1>2, JobFields
    <3> QED BY <2>1, <3>1
  <2> QED BY <1>1, <2>2
<1>8. \A a : Job("tell", n, a) \in jobs' => a # Again
  <2> SUFFICES ASSUME NEW a, Job("tell", n, a) \in jobs'
               PROVE  a # Again
    OBVIOUS
  <2>1. Job("tell", n, a).what = "tell" /\ Job("tell", n, a).n = n
        /\ Job("tell", n, a).arg = a
    BY JobFields
  <2>2. \A j \in jobs : j.n \in DOMAIN history
    BY DEF EventsInv, JobsInv, JobOK
  <2>3. Job("tell", n, a) \in J
    BY <1>1, <1>2, <2>1, <2>2
  <2>4. \A j \in J : j.what = "tell" => j.arg # Again
    BY DEF Begins, MayBegin
  <2> QED BY <2>1, <2>3, <2>4
<1>9. BusyInv'
  <2> SUFFICES ASSUME NEW k \in Instances, busy'[k] # 0
               PROVE  /\ busy'[k] \in DOMAIN history'
                      /\ history'[busy'[k]].kind = "LoggedOut"
                      /\ history'[busy'[k]].inst = k
                      /\ Job("tell", busy'[k], Again) \notin jobs'
    BY DEF BusyInv
  <2>1. CASE busy'[k] = busy[k]
    BY <1>2, <1>7, <2>1 DEF EventsInv, BusyInv
  <2>2. CASE busy'[k] # busy[k]
    <3>1. k = i /\ busy'[k] = n /\ x.kind = "LoggedOut" /\ x.inst = i
      BY <2>2 DEF Begins, MayBegin, EventsInv
    <3> QED BY <1>2, <1>8, <3>1
  <2> QED BY <2>1, <2>2
<1>10. RecordsInv' /\ ReferralIsKept'
  <2>1. RecordsInv'
    BY <1>1, <1>2 DEF EventsInv, RecordsInv
  <2>2. \A s \in stored : s[1] \in DOMAIN history
    BY DEF EventsInv, RecordsInv
  <2> QED BY <1>1, <1>2, <2>1, <2>2 DEF EventsInv, ReferralIsKept
<1>11. VotesInv'
  BY <1>1, <1>2 DEF EventsInv, VotesInv
<1>12. LabelsInv'
  <2>1. CASE labels' = labels
    BY <1>2, <2>1 DEF EventsInv, LabelsInv
  <2>2. CASE \E k : labels' = Upsert(labels, k, n) /\ k[1] = i
    <3>1. PICK k : labels' = Upsert(labels, k, n) /\ k[1] = i
      BY <2>2
    <3>2. DOMAIN labels' = DOMAIN labels \cup {k} /\ labels'[k] = n
          /\ \A l \in DOMAIN labels : l # k => labels'[l] = labels[l]
      <4>1. DOMAIN Upsert(labels, k, n) = DOMAIN labels \cup {k}
            /\ Upsert(labels, k, n)[k] = n
            /\ \A l \in DOMAIN labels : l # k => Upsert(labels, k, n)[l] = labels[l]
        BY DEF Upsert
      <4> QED BY <3>1, <4>1
    <3>3. x.inst = i
      BY DEF Begins, MayBegin
    <3> QED BY <1>2, <3>1, <3>2, <3>3 DEF EventsInv, LabelsInv
  <2> QED BY <2>1, <2>2 DEF Begins, MayBegin
<1>13. GivenInv'
  <2>1. ASSUME NEW g \in DOMAIN given
        PROVE  Counted(g)'
    <3>1. Counted(g) /\ g[1] \in DOMAIN history
      BY DEF EventsInv, GivenInv, Counted
    <3>2. ToCome(g[1])' <=> ToCome(g[1])
      <4>1. \A k \in Instances : busy'[k] = g[1] <=> busy[k] = g[1]
        <5>1. CASE busy' = busy
          BY <5>1
        <5>2. CASE busy' = [busy EXCEPT ![i] = n] /\ x.kind = "LoggedOut"
          <6>1. g[1] # n
            BY <1>2, <3>1
          <6>2. busy[i] # g[1]
            <7>1. busy[i] = 0
              BY DEF Begins, MayBegin
            <7>2. 0 \notin DOMAIN history
              BY <1>1
            <7> QED BY <3>1, <7>1, <7>2
          <6> QED BY <5>2, <6>1, <6>2 DEF EventsInv
        <5> QED BY <5>1, <5>2 DEF Begins, MayBegin
      <4> QED BY <1>7, <3>1, <4>1 DEF ToCome
    <3> QED BY <1>1, <1>2, <1>5, <1>7, <3>1, <3>2 DEF Counted
  <2> QED BY <1>1, <2>1 DEF EventsInv, GivenInv
<1>14. SeenInv'
  <2> SUFFICES ASSUME NEW key \in seen', key[3] = "Delivered"
               PROVE  \E m \in DOMAIN history' :
                        /\ history'[m].kind = "Delivered"
                        /\ history'[m].inst = key[1]
                        /\ history'[m].ids[1] = key[2]
    BY DEF SeenInv
  <2>1. CASE key \in seen
    <3>1. PICK m \in DOMAIN history :
                 /\ history[m].kind = "Delivered" /\ history[m].inst = key[1]
                 /\ history[m].ids[1] = key[2]
      BY <2>1 DEF EventsInv, SeenInv
    <3>2. m \in DOMAIN history' /\ history'[m] = history[m]
      BY <1>2
    <3> QED BY <3>1, <3>2
  <2>2. CASE key \notin seen
    <3>1. x.kind = "Delivered" /\ key[1] = i /\ key[2] = x.ids[1] /\ x.inst = i
      BY <2>2 DEF Begins, MayBegin
    <3>2. n \in DOMAIN history' /\ history'[n] = x
      BY <1>2
    <3> QED BY <3>1, <3>2
  <2> QED BY <2>1, <2>2
<1>15. DoneInv'
  <2>1. ASSUME NEW k \in DOMAIN history, NEW e, e = EventFor(history[k])
        PROVE  \/ Unwanted(history[k]) \/ Excused(k)'
               \/ Job("tell", k, e) \in jobs'
               \/ Told(k, e)'
    <3>1. \/ Unwanted(history[k]) \/ Excused(k)
          \/ Job("tell", k, e) \in jobs \/ Told(k, e)
      BY <2>1 DEF EventsInv, DoneInv
    <3> QED BY <1>3, <1>7, <3>1
  <2>2. \/ Unwanted(x) \/ Excused(n)'
        \/ Job("tell", n, EventFor(x)) \in jobs'
    BY <1>1 DEF Begins, MayBegin
  <2>3. ASSUME NEW k \in DOMAIN history'
        PROVE  \/ Unwanted(history[k])' \/ Excused(k)'
               \/ Job("tell", k, EventFor(history[k]))' \in jobs'
               \/ Told(k, EventFor(history[k]))'
    <3>1. CASE k \in DOMAIN history
      <4>1. history'[k] = history[k]
        BY <1>2, <3>1
      <4>2. PICK e : e = EventFor(history[k])
        OBVIOUS
      <4>3. EventFor(history[k])' = e
        BY <4>1, <4>2 DEF EventFor
      <4> QED BY <1>5, <2>1, <3>1, <4>1, <4>2, <4>3 DEF Told
    <3>2. CASE k = n
      BY <1>2, <1>5, <2>2, <3>2 DEF EventFor
    <3> QED BY <1>2, <3>1, <3>2
  <2> QED BY <2>3 DEF DoneInv
<1> QED
  BY <1>2, <1>4, <1>6, <1>9, <1>10, <1>11, <1>12, <1>13, <1>14, <1>15 DEF EventsInv

LEMMA Beginners ==
    ASSUME NEW n, NEW x, NEW a
    PROVE  /\ MayBegin(Job("row", n, a), n, x)
           /\ x.choice # "" => MayBegin(Job("vote", n, Voter(x)), n, x)
           /\ ~Unwanted(x) /\ a # Again => MayBegin(Job("tell", n, a), n, x)
<1>1. MayBegin(Job("row", n, a), n, x)
  BY DEF MayBegin, Job
<1>2. ASSUME x.choice # ""
      PROVE  MayBegin(Job("vote", n, Voter(x)), n, x)
  BY <1>2 DEF MayBegin, Job
<1>3. ASSUME ~Unwanted(x), a # Again
      PROVE  MayBegin(Job("tell", n, a), n, x)
  BY <1>3 DEF MayBegin, Job
<1> QED BY <1>1, <1>2, <1>3

\* What all handlers do with the notice they take.
LEMMA TakenBegins ==
    ASSUME EventsInv, NEW i \in Instances, NEW x \in Notices, Taken(i, x),
           NEW n, n = Len(history) + 1
    PROVE  /\ set' = set /\ rows' = rows /\ stored' = stored /\ votes' = votes
           /\ given' = given /\ history' = Append(history, x)
           /\ n <= MaxNotices /\ x.inst = i /\ busy[i] = 0
<1>1. Len(history) \in Nat
  BY DEF EventsInv
<1>2. n <= MaxNotices
  BY <1>1, RecordsAssumption DEF Taken
<1> QED BY <1>2 DEF Taken, tables

\* A notice that is not passed on.
LEMMA NoneTold ==
    ASSUME EventsInv, NEW i \in Instances, NEW x \in Notices, Taken(i, x),
           NEW n, n = Len(history) + 1, Unwanted(x) \/ Excused(n)',
           jobs' = jobs, busy' = busy, seen' = seen, labels' = labels
    PROVE  EventsInv'
<1>1. /\ set' = set /\ rows' = rows /\ stored' = stored /\ votes' = votes
      /\ given' = given /\ history' = Append(history, x)
      /\ n <= MaxNotices /\ x.inst = i /\ busy[i] = 0
  BY TakenBegins
<1>2. jobs' = jobs \cup {}
  OBVIOUS
<1>3. Begins(i, n, x, {})
  BY <1>1, <1>2 DEF Begins
<1> QED BY <1>3, BeginsKeeps

\* A notice that is passed on, and may hold the handler up or change a label.
LEMMA OneTold ==
    ASSUME EventsInv, NEW i \in Instances, NEW x \in Notices, Taken(i, x),
           NEW n, n = Len(history) + 1, ~Unwanted(x), EventFor(x) # Again,
           jobs' = jobs \cup {Job("tell", n, EventFor(x))}, seen' = seen,
           \/ busy' = busy
           \/ busy' = [busy EXCEPT ![i] = n] /\ x.kind = "LoggedOut",
           labels' = labels \/ \E k : labels' = Upsert(labels, k, n) /\ k[1] = i
    PROVE  EventsInv'
<1> DEFINE J == {Job("tell", n, EventFor(x))}
<1>1. /\ set' = set /\ rows' = rows /\ stored' = stored /\ votes' = votes
      /\ given' = given /\ history' = Append(history, x)
      /\ n <= MaxNotices /\ x.inst = i /\ busy[i] = 0
  BY TakenBegins
<1>2. \A j \in J : MayBegin(j, n, x)
  <2>1. MayBegin(Job("tell", n, EventFor(x)), n, x)
    BY Beginners
  <2> QED BY <2>1
<1>3. Job("tell", n, EventFor(x)) \in J /\ jobs' = jobs \cup J
  OBVIOUS
<1> HIDE DEF J
<1>4. Begins(i, n, x, J)
  BY <1>1, <1>2, <1>3 DEF Begins
<1> QED BY <1>4, BeginsKeeps

LEMMA HandleMessageOK ==
    ASSUME EventsInv, NEW i \in Instances, HandleMessage(i)
    PROVE  EventsInv'
<1>0. PICK n : n = Len(history) + 1
  OBVIOUS
<1>1. PICK x \in Notices :
        /\ x.kind = "Message"
        /\ Taken(i, x)
        /\ IF Ignores(x) \/ x.detail = "protocol" THEN jobs' = jobs
           ELSE \/ MayPanic(x) /\ jobs' = jobs
                \/ \E vote \in VoteJobs(n, x) :
                     jobs' = jobs \cup vote
                             \cup (IF set.save THEN {Job("row", n, x.ids[1])}
                                   ELSE {})
                             \cup (IF x.detail = "button"
                                   THEN {Job("tell", n, "ButtonClick")} ELSE {})
                             \cup {Job("tell", n, "Message")}
        /\ busy' = busy /\ seen' = seen /\ labels' = labels
  BY <1>0 DEF HandleMessage, Dispatch
<1>2. /\ set' = set /\ rows' = rows /\ stored' = stored /\ votes' = votes
      /\ given' = given /\ history' = Append(history, x)
      /\ n <= MaxNotices /\ x.inst = i /\ busy[i] = 0
  BY <1>0, <1>1, TakenBegins
<1>3. CASE Ignores(x) \/ x.detail = "protocol"
  <2>1. Unwanted(x)
    BY <1>1, <1>3 DEF Ignores, Unwanted
  <2>2. Taken(i, x) /\ jobs' = jobs
        /\ busy' = busy /\ seen' = seen /\ labels' = labels
    BY <1>1, <1>3
  <2> QED BY <1>0, <2>1, <2>2, NoneTold
<1>4. CASE MayPanic(x) /\ jobs' = jobs
  <2>1. history'[n] = x
    BY <1>0, <1>2, Grows DEF EventsInv
  <2>2. Excused(n)'
    BY <1>4, <2>1 DEF Excused, MayPanic
  <2>3. Taken(i, x) /\ busy' = busy /\ seen' = seen /\ labels' = labels
    BY <1>1
  <2> QED BY <1>0, <1>4, <2>2, <2>3, NoneTold
<1>5. CASE /\ ~(Ignores(x) \/ x.detail = "protocol")
           /\ ~(MayPanic(x) /\ jobs' = jobs)
  <2> DEFINE saves == IF set.save THEN {Job("row", n, x.ids[1])} ELSE {}
             clicks == IF x.detail = "button" THEN {Job("tell", n, "ButtonClick")}
                       ELSE {}
  <2>1. PICK vote \in VoteJobs(n, x) :
          jobs' = jobs \cup vote \cup saves \cup clicks
                  \cup {Job("tell", n, "Message")}
    BY <1>1, <1>5
  <2> DEFINE J == vote \cup saves \cup clicks \cup {Job("tell", n, "Message")}
  <2>2. ~Unwanted(x) /\ EventFor(x) = "Message"
    BY <1>1, <1>5 DEF Ignores, Unwanted, EventFor, Silent, Receipts
  <2>3. ASSUME NEW j \in J
        PROVE  MayBegin(j, n, x)
    <3>1. CASE j \in vote
      <4>1. x.choice # "" /\ j = Job("vote", n, Voter(x))
        BY <2>1, <3>1 DEF VoteJobs
      <4> QED BY <4>1, Beginners
    <3>2. CASE j \in saves
      <4>1. j = Job("row", n, x.ids[1])
        BY <3>2
      <4> QED BY <4>1, Beginners
    <3>3. CASE j \in clicks \cup {Job("tell", n, "Message")}
      <4>1. \E a : a # Again /\ j = Job("tell", n, a)
        BY <3>3 DEF Again
      <4> QED BY <2>2, <4>1, Beginners
    <3> QED BY <3>1, <3>2, <3>3
  <2>4. jobs' = jobs \cup J /\ Job("tell", n, EventFor(x)) \in J
    BY <2>1, <2>2
  <2> HIDE DEF J
  <2>5. busy' = busy /\ seen' = seen /\ labels' = labels
    BY <1>1
  <2>6. Begins(i, n, x, J)
    BY <1>0, <1>2, <2>3, <2>4, <2>5 DEF Begins
  <2> QED BY <2>6, BeginsKeeps
<1> QED BY <1>3, <1>4, <1>5

\* A delivery that is remembered repeats an earlier one.
LEMMA HandleReceiptOK ==
    ASSUME EventsInv, NEW i \in Instances, HandleReceipt(i)
    PROVE  EventsInv'
<1>0. PICK n : n = Len(history) + 1
  OBVIOUS
<1> DEFINE Key(x, m) == <<i, m, x.kind>>
           Ids(x) == {x.ids[k] : k \in DOMAIN x.ids}
           Fresh(x) == IF x.kind = "Read" THEN {m \in Ids(x) : Key(x, m) \notin seen}
                       ELSE {x.ids[1]}
           Row1(x) == IF set.save THEN {Job("row", Len(history) + 1, m) : m \in Fresh(x)}
                      ELSE {}
           Recorded(x) == x.kind \in {"Read", "Delivered"}
           Dropped(x) == \/ x.chat = "group" /\ set.ignoreGroups
                         \/ x.kind = "Played"
                         \/ x.kind = "Delivered" /\ Key(x, x.ids[1]) \in seen
<1>a. PICK x \in Notices :
        /\ x.kind \in Receipts
        /\ Taken(i, x)
        /\ seen' = IF Recorded(x) /\ ~Dropped(x)
                   THEN seen \cup {Key(x, m) : m \in Fresh(x)} ELSE seen
        /\ jobs' = IF Dropped(x) THEN jobs
                   ELSE jobs \cup Dispatch(Len(history) + 1, "Receipt")
                             \cup IF Recorded(x) THEN Row1(x) ELSE {}
        /\ UNCHANGED <<busy, labels>>
  BY Zenon DEF HandleReceipt
<1>1. /\ x.kind \in Receipts
      /\ Taken(i, x)
      /\ seen' = IF Recorded(x) /\ ~Dropped(x)
                 THEN seen \cup {Key(x, m) : m \in Fresh(x)} ELSE seen
      /\ jobs' = IF Dropped(x) THEN jobs
                 ELSE jobs \cup {Job("tell", n, "Receipt")}
                           \cup IF Recorded(x) THEN Row1(x) ELSE {}
      /\ busy' = busy /\ labels' = labels
  <2>1. Dispatch(Len(history) + 1, "Receipt") = {Job("tell", n, "Receipt")}
    BY <1>0 DEF Dispatch
  <2> HIDE DEF Key, Fresh, Row1, Recorded, Dropped
  <2> QED BY <1>a, <2>1
<1>2. /\ set' = set /\ rows' = rows /\ stored' = stored /\ votes' = votes
      /\ given' = given /\ history' = Append(history, x)
      /\ n <= MaxNotices /\ x.inst = i /\ busy[i] = 0
  BY <1>0, <1>1, TakenBegins
<1>3. CASE Dropped(x)
  <2>1. ASSUME \/ x.chat = "group" /\ set.ignoreGroups
               \/ x.kind = "Played"
        PROVE  Unwanted(x)
    BY <1>1, <2>1 DEF Unwanted
  <2>2. ASSUME x.kind = "Delivered" /\ Key(x, x.ids[1]) \in seen
        PROVE  Excused(n)'
    <3>1. PICK m \in DOMAIN history :
                 /\ history[m].kind = "Delivered" /\ history[m].inst = i
                 /\ history[m].ids[1] = x.ids[1]
      BY <2>2 DEF EventsInv, SeenInv
    <3>2. history'[n] = x /\ history'[m] = history[m]
      BY <1>0, <1>2, Grows DEF EventsInv
    <3>3. m \in 1 .. n - 1
      BY <1>0 DEF EventsInv
    <3> QED BY <1>2, <2>2, <3>1, <3>2, <3>3 DEF Excused, Repeats
  <2>3. Unwanted(x) \/ Excused(n)'
    BY <1>3, <2>1, <2>2
  <2>4. Taken(i, x) /\ jobs' = jobs
        /\ busy' = busy /\ seen' = seen /\ labels' = labels
    BY <1>1, <1>3
  <2> QED BY <1>0, <2>3, <2>4, NoneTold
<1>4. CASE ~Dropped(x)
  <2> DEFINE J == {Job("tell", n, "Receipt")}
                  \cup IF Recorded(x) THEN Row1(x) ELSE {}
  <2>1. ~Unwanted(x) /\ EventFor(x) = "Receipt"
    BY <1>1, <1>4 DEF Unwanted, EventFor, Silent, Receipts
  <2>2. ASSUME NEW j \in J
        PROVE  MayBegin(j, n, x)
    <3>1. \/ j = Job("tell", n, "Receipt")
          \/ \E m : j = Job("row", n, m)
      BY <1>0
    <3>2. "Receipt" # Again
      BY DEF Again
    <3>3. MayBegin(Job("tell", n, "Receipt"), n, x)
      BY <2>1, <3>2, Beginners
    <3>4. \A m : MayBegin(Job("row", n, m), n, x)
      BY Beginners
    <3> QED BY <3>1, <3>3, <3>4
  <2>3. jobs' = jobs \cup J /\ Job("tell", n, EventFor(x)) \in J
    BY <1>1, <1>4, <2>1
  <2>4. ASSUME NEW key \in seen', key \notin seen, key[3] = "Delivered"
        PROVE  x.kind = "Delivered" /\ key[1] = i /\ key[2] = x.ids[1]
    <3>1. PICK m \in Fresh(x) : key = Key(x, m)
      BY <1>1, <2>4
    <3> QED BY <2>4, <3>1
  <2>5. busy' = busy /\ labels' = labels
    BY <1>1
  <2> HIDE DEF J
  <2>6. Begins(i, n, x, J)
    BY <1>0, <1>2, <2>2, <2>3, <2>4, <2>5 DEF Begins
  <2> QED BY <2>6, BeginsKeeps
<1> QED BY <1>3, <1>4

LEMMA HandleLabelEditOK ==
    ASSUME EventsInv, NEW i \in Instances, HandleLabelEdit(i)
    PROVE  EventsInv'
<1>0. PICK n : n = Len(history) + 1
  OBVIOUS
<1>1. PICK x \in Notices :
        /\ x.kind = "LabelEdit"
        /\ Taken(i, x)
        /\ labels' = Upsert(labels, LabelKey(i, x), n) \/ labels' = labels
        /\ jobs' = jobs \cup {Job("tell", n, "LabelEdit")}
        /\ busy' = busy /\ seen' = seen
  BY <1>0 DEF HandleLabelEdit, Dispatch
<1>2. ~Unwanted(x) /\ EventFor(x) = "LabelEdit" /\ EventFor(x) # Again
  BY <1>1 DEF Unwanted, EventFor, Silent, Receipts, Again
<1>3. labels' = labels \/ \E k : labels' = Upsert(labels, k, n) /\ k[1] = i
  <2>1. LabelKey(i, x)[1] = i
    BY DEF LabelKey
  <2> QED BY <1>1, <2>1
<1>4. Taken(i, x) /\ jobs' = jobs \cup {Job("tell", n, EventFor(x))}
      /\ busy' = busy /\ seen' = seen
  BY <1>1, <1>2
<1> QED BY <1>0, <1>2, <1>3, <1>4, OneTold

LEMMA HandleCallOfferOK ==
    ASSUME EventsInv, NEW i \in Instances, HandleCallOffer(i)
    PROVE  EventsInv'
<1>0. PICK n : n = Len(history) + 1
  OBVIOUS
<1>1. PICK x \in Notices :
        /\ x.kind = "CallOffer"
        /\ Taken(i, x)
        /\ jobs' = IF set.rejectCall THEN jobs
                   ELSE jobs \cup {Job("tell", n, "CallOffer")}
        /\ busy' = busy /\ seen' = seen /\ labels' = labels
  BY <1>0 DEF HandleCallOffer, Dispatch
<1>2. Taken(i, x) /\ busy' = busy /\ seen' = seen /\ labels' = labels
  BY <1>1
<1>3. CASE set.rejectCall
  <2>1. Unwanted(x) /\ jobs' = jobs
    BY <1>1, <1>3 DEF Unwanted
  <2> QED BY <1>0, <1>2, <2>1, NoneTold
<1>4. CASE ~set.rejectCall
  <2>1. ~Unwanted(x) /\ EventFor(x) = "CallOffer" /\ EventFor(x) # Again
    BY <1>1, <1>4 DEF Unwanted, EventFor, Silent, Receipts, Again
  <2>2. jobs' = jobs \cup {Job("tell", n, EventFor(x))}
    BY <1>1, <1>4, <2>1
  <2> QED BY <1>0, <1>2, <2>1, <2>2, OneTold
<1> QED BY <1>3, <1>4

LEMMA HandleOtherOK ==
    ASSUME EventsInv, NEW i \in Instances, HandleOther(i)
    PROVE  EventsInv'
<1>0. PICK n : n = Len(history) + 1
  OBVIOUS
<1>1. PICK x \in Notices :
        /\ x.kind \in Plain \cup Silent \cup {"ViewOnce"}
        /\ Taken(i, x)
        /\ jobs' = IF x.kind \in Silent THEN jobs
                   ELSE jobs \cup {Job("tell", n, IF x.kind = "ViewOnce"
                                                  THEN "Message" ELSE x.kind)}
        /\ busy' = busy /\ seen' = seen /\ labels' = labels
  BY <1>0 DEF HandleOther, Dispatch
<1>2. Taken(i, x) /\ busy' = busy /\ seen' = seen /\ labels' = labels
  BY <1>1
<1>3. CASE x.kind \in Silent
  <2>1. Unwanted(x) /\ jobs' = jobs
    BY <1>1, <1>3 DEF Unwanted
  <2> QED BY <1>0, <1>2, <2>1, NoneTold
<1>4. CASE x.kind \notin Silent
  <2>1. x.kind \notin Receipts \cup {"Message", "CallOffer", Again}
    BY <1>1, <1>4 DEF Plain, Receipts, Again
  <2>2. ~Unwanted(x)
    BY <1>4, <2>1 DEF Unwanted, Receipts
  <2>3. EventFor(x) = (IF x.kind = "ViewOnce" THEN "Message" ELSE x.kind)
        /\ EventFor(x) # Again
    BY <2>1 DEF EventFor, Again
  <2>4. jobs' = jobs \cup {Job("tell", n, EventFor(x))}
    BY <1>1, <1>4, <2>3
  <2> QED BY <1>0, <1>2, <2>2, <2>3, <2>4, OneTold
<1> QED BY <1>3, <1>4

LEMMA HandleLoggedOutOK ==
    ASSUME EventsInv, NEW i \in Instances, HandleLoggedOut(i)
    PROVE  EventsInv'
<1>0. PICK n : n = Len(history) + 1
  OBVIOUS
<1>1. PICK x \in Notices :
        /\ x.kind = "LoggedOut"
        /\ Taken(i, x)
        /\ busy' = [busy EXCEPT ![i] = n]
        /\ jobs' = jobs \cup {Job("tell", n, "LoggedOut")}
        /\ seen' = seen /\ labels' = labels
  BY <1>0 DEF HandleLoggedOut, Dispatch
<1>2. ~Unwanted(x) /\ EventFor(x) = "LoggedOut" /\ EventFor(x) # Again
  BY <1>1 DEF Unwanted, EventFor, Silent, Receipts, Again
<1>3. Taken(i, x) /\ jobs' = jobs \cup {Job("tell", n, EventFor(x))}
      /\ seen' = seen /\ labels' = labels
  BY <1>1, <1>2
<1> QED BY <1>0, <1>1, <1>2, <1>3, OneTold

-----------------------------------------------------------------------------
(* The kill, the cache and the goroutines.                                  *)

\* Steps that take no notice.
Quietly == set' = set /\ history' = history

LEMMA SameNotices ==
    ASSUME Quietly
    PROVE  /\ \A x : Unwanted(x)' <=> Unwanted(x)
           /\ \A n : Excused(n)' <=> Excused(n)
           /\ \A e, c : InstanceWants(e, c)' <=> InstanceWants(e, c)
           /\ \A e : SendToGlobalQueues(e)' = SendToGlobalQueues(e)
<1>1. set' = set /\ history' = history
  BY DEF Quietly
<1>2. \A n : Excused(n)' <=> Excused(n)
  BY <1>1 DEF Excused, Repeats, MayPanic
<1> QED BY <1>1, <1>2, SameWants

\* No event is called as the second telling of a logout.
LEMMA EventNames ==
    ASSUME history \in Seq(Notices), NEW n \in DOMAIN history
    PROVE  EventFor(history[n]) # Again
<1>1. history[n].kind \in Kinds
  BY RecordsAssumption DEF Notice
<1>2. Again \notin Kinds
  BY DEF Again, Kinds, Plain, Receipts, Silent
<1> QED BY <1>1, <1>2 DEF EventFor, Again

LEMMA KillTakenOK ==
    ASSUME EventsInv, NEW i \in Instances, KillTaken(i)
    PROVE  EventsInv'
<1>1. PICK b : b = busy[i]
  OBVIOUS
<1>2. /\ b # 0 /\ busy' = [busy EXCEPT ![i] = 0]
      /\ jobs' = jobs \cup {Job("tell", b, Again)}
  <2>1. {Job(j.what, j.n, Again) : j \in {Job("tell", b, "LoggedOut")}}
          = {Job("tell", b, Again)}
    BY JobFields
  <2> QED BY <1>1, <2>1 DEF KillTaken, Dispatch, Again
<1>3. /\ set' = set /\ history' = history /\ seen' = seen /\ rows' = rows
      /\ stored' = stored /\ votes' = votes /\ labels' = labels /\ given' = given
      /\ Quietly
  BY DEF KillTaken, tables, Quietly
<1>4. /\ b \in DOMAIN history /\ history[b].kind = "LoggedOut"
      /\ history[b].inst = i
  BY <1>1, <1>2 DEF EventsInv, BusyInv
<1>5. ~Unwanted(history[b])
  BY <1>4 DEF Unwanted, Receipts, Silent
<1>6. \A n, a : a # Again =>
        (Job("tell", n, a) \in jobs' <=> Job("tell", n, a) \in jobs)
  BY <1>2, JobFields
<1>7. JobsInv'
  <2>1. ASSUME NEW j \in jobs
        PROVE  JobOK(j)'
    BY <1>3, SameNotices DEF EventsInv, JobsInv, JobOK
  <2>2. ASSUME NEW j, j = Job("tell", b, Again)
        PROVE  JobOK(j)'
    <3>1. j.what = "tell" /\ j.n = b /\ j = Job(j.what, j.n, j.arg)
      BY <2>2, JobFields
    <3> QED BY <1>3, <1>4, <1>5, <3>1, SameNotices DEF JobOK
  <2> QED BY <1>2, <2>1, <2>2 DEF JobsInv
<1>8. BusyInv'
  <2> SUFFICES ASSUME NEW k \in Instances, busy'[k] # 0
               PROVE  /\ busy'[k] \in DOMAIN history
                      /\ history[busy'[k]].kind = "LoggedOut"
                      /\ history[busy'[k]].inst = k
                      /\ Job("tell", busy'[k], Again) \notin jobs'
    BY <1>3 DEF BusyInv
  <2>1. k # i /\ busy'[k] = busy[k]
    BY <1>2 DEF EventsInv
  <2>2. /\ busy[k] \in DOMAIN history /\ history[busy[k]].kind = "LoggedOut"
        /\ history[busy[k]].inst = k /\ Job("tell", busy[k], Again) \notin jobs
    BY <2>1 DEF EventsInv, BusyInv
  <2>3. Job("tell", busy[k], Again) # Job("tell", b, Again)
    BY <1>4, <2>1, <2>2, JobFields
  <2> QED BY <1>2, <2>1, <2>2, <2>3
<1>9. GivenInv'
  <2>1. ASSUME NEW n \in DOMAIN history
        PROVE  ToCome(n)' <=> ToCome(n)
    <3>0. n # 0
      BY DEF EventsInv
    <3>1. CASE n = b
      BY <1>1, <1>2, <3>1 DEF ToCome
    <3>2. CASE n # b
      <4>1. Job("tell", n, Again) \in jobs' <=> Job("tell", n, Again) \in jobs
        BY <1>2, <3>2, JobFields
      <4>2. \A k \in Instances : busy'[k] = n <=> busy[k] = n
        BY <1>1, <1>2, <3>0, <3>2 DEF EventsInv
      <4> QED BY <4>1, <4>2 DEF ToCome
    <3> QED BY <3>1, <3>2
  <2>2. ASSUME NEW g \in DOMAIN given
        PROVE  Counted(g)'
    <3>1. Counted(g)
      BY DEF EventsInv, GivenInv
    <3>2. ToCome(g[1])' <=> ToCome(g[1])
      BY <2>1, <3>1 DEF Counted
    <3>3. Job("tell", g[1], g[2]) \in jobs' <=> Job("tell", g[1], g[2]) \in jobs
      BY <1>6, <3>1 DEF Counted
    <3>4. Job("tell", g[1], "LoggedOut") \in jobs'
            <=> Job("tell", g[1], "LoggedOut") \in jobs
      BY <1>6 DEF Again
    <3> QED BY <1>3, <3>1, <3>2, <3>3, <3>4, SameNotices DEF Counted
  <2> QED BY <1>3, <2>2 DEF EventsInv, GivenInv
<1>10. DoneInv'
  <2>1. ASSUME NEW n, NEW e
        PROVE  Told(n, e)' <=> Told(n, e)
    BY <1>3, SameNotices DEF Told
  <2>2. ASSUME NEW n \in DOMAIN history, NEW e, e = EventFor(history[n])
        PROVE  \/ Unwanted(history[n]) \/ Excused(n)
               \/ Job("tell", n, e) \in jobs' \/ Told(n, e)'
    BY <1>2, <2>1, <2>2 DEF EventsInv, DoneInv
  <2> QED BY <1>3, <2>2, SameNotices DEF DoneInv, EventFor
<1>11. busy' \in [Instances -> Nat]
  BY <1>2 DEF EventsInv
<1>12. /\ RecordsInv' /\ ReferralIsKept' /\ VotesInv' /\ LabelsInv' /\ SeenInv'
       /\ set' \in Configs /\ history' \in Seq(Notices) /\ Len(history') <= MaxNotices
  BY <1>3 DEF EventsInv, RecordsInv, ReferralIsKept, VotesInv, LabelsInv, SeenInv
<1> QED BY <1>7, <1>8, <1>9, <1>10, <1>11, <1>12 DEF EventsInv

\* Invariants that are untouched as long as nothing is told.
LEMMA UntoldKeeps ==
    ASSUME EventsInv, Quietly, given' = given, busy' = busy, labels' = labels,
           jobs' \subseteq jobs, \A j \in jobs : j.what = "tell" => j \in jobs',
           seen' \subseteq seen
    PROVE  /\ set' \in Configs /\ history' \in Seq(Notices)
           /\ Len(history') <= MaxNotices /\ busy' \in [Instances -> Nat]
           /\ JobsInv' /\ BusyInv' /\ LabelsInv' /\ GivenInv' /\ SeenInv' /\ DoneInv'
<1>1. set' = set /\ history' = history
  BY DEF Quietly
<1>2. ASSUME NEW n, NEW a
      PROVE  Job("tell", n, a) \in jobs' <=> Job("tell", n, a) \in jobs
  BY JobFields
<1>3. JobsInv'
  <2>1. ASSUME NEW j \in jobs
        PROVE  JobOK(j)'
    BY <1>1, SameNotices DEF EventsInv, JobsInv, JobOK
  <2> QED BY <2>1 DEF JobsInv
<1>4. BusyInv'
  BY <1>1, <1>2 DEF EventsInv, BusyInv
<1>5. GivenInv'
  <2>1. \A n : ToCome(n)' <=> ToCome(n)
    BY <1>2 DEF ToCome
  <2>2. ASSUME NEW g \in DOMAIN given
        PROVE  Counted(g)'
    <3>1. Counted(g)
      BY DEF EventsInv, GivenInv
    <3> QED BY <1>1, <1>2, <2>1, <3>1, SameNotices DEF Counted
  <2> QED BY <2>2 DEF EventsInv, GivenInv
<1>6. SeenInv'
  BY <1>1 DEF EventsInv, SeenInv
<1>7. DoneInv'
  <2>1. ASSUME NEW n, NEW e
        PROVE  Told(n, e)' <=> Told(n, e)
    BY <1>1, SameNotices DEF Told
  <2>2. ASSUME NEW n \in DOMAIN history, NEW e, e = EventFor(history[n])
        PROVE  \/ Unwanted(history[n]) \/ Excused(n)
               \/ Job("tell", n, e) \in jobs' \/ Told(n, e)'
    BY <1>2, <2>1, <2>2 DEF EventsInv, DoneInv
  <2> QED BY <1>1, <2>2, SameNotices DEF DoneInv, EventFor
<1>8. LabelsInv'
  BY <1>1 DEF EventsInv, LabelsInv
<1> QED BY <1>1, <1>3, <1>4, <1>5, <1>6, <1>7, <1>8 DEF EventsInv

LEMMA ForgetOK ==
    ASSUME EventsInv, Forget
    PROVE  EventsInv'
<1>1. /\ Quietly /\ given' = given /\ busy' = busy /\ labels' = labels
      /\ jobs' = jobs /\ rows' = rows /\ stored' = stored /\ votes' = votes
      /\ seen' \subseteq seen
  BY DEF Forget, tables, Quietly
<1>2. /\ set' \in Configs /\ history' \in Seq(Notices)
      /\ Len(history') <= MaxNotices /\ busy' \in [Instances -> Nat]
      /\ JobsInv' /\ BusyInv' /\ LabelsInv' /\ GivenInv' /\ SeenInv' /\ DoneInv'
  BY <1>1, UntoldKeeps
<1>3. RecordsInv' /\ ReferralIsKept' /\ VotesInv'
  BY <1>1 DEF EventsInv, RecordsInv, ReferralIsKept, VotesInv, Quietly
<1> QED BY <1>2, <1>3 DEF EventsInv

\* A goroutine that tells nothing.
LEMMA RunsKeeps ==
    ASSUME EventsInv, NEW j \in jobs, Runs(j), j.what # "tell", given' = given
    PROVE  /\ Quietly
           /\ set' \in Configs /\ history' \in Seq(Notices)
           /\ Len(history') <= MaxNotices /\ busy' \in [Instances -> Nat]
           /\ JobsInv' /\ BusyInv' /\ LabelsInv' /\ GivenInv' /\ SeenInv' /\ DoneInv'
<1>1. /\ Quietly /\ busy' = busy /\ labels' = labels /\ seen' \subseteq seen
      /\ jobs' \subseteq jobs /\ \A k \in jobs : k.what = "tell" => k \in jobs'
  BY DEF Runs, Quietly
<1> QED BY <1>1, UntoldKeeps

\* A row that is there keeps its referral, whatever is written over it.
LEMMA PersistMessageOK ==
    ASSUME EventsInv, PersistMessage
    PROVE  EventsInv'
<1>1. PICK j \in jobs :
        /\ j.what = "row" /\ Runs(j)
        /\ \/ InsertMessage(j.arg, j.n) /\ stored' = stored \cup {<<j.n, j.arg>>}
           \/ rows' = rows /\ stored' = stored
        /\ votes' = votes /\ given' = given
  BY DEF PersistMessage
<1>2. /\ Quietly
      /\ set' \in Configs /\ history' \in Seq(Notices)
      /\ Len(history') <= MaxNotices /\ busy' \in [Instances -> Nat]
      /\ JobsInv' /\ BusyInv' /\ LabelsInv' /\ GivenInv' /\ SeenInv' /\ DoneInv'
  BY <1>1, RunsKeeps
<1>3. history' = history
  BY <1>2 DEF Quietly
<1>4. VotesInv'
  BY <1>1, <1>3 DEF EventsInv, VotesInv
<1>5. RecordsInv' /\ ReferralIsKept'
  <2>1. CASE rows' = rows /\ stored' = stored
    BY <1>3, <2>1 DEF EventsInv, RecordsInv, ReferralIsKept
  <2>2. CASE InsertMessage(j.arg, j.n) /\ stored' = stored \cup {<<j.n, j.arg>>}
    <3> DEFINE m == j.arg
               n == j.n
               new == [Row(n) EXCEPT !.referral =
                         @ \/ (m \in DOMAIN rows /\ rows[m].referral)]
    <3>1. n \in DOMAIN history
      BY DEF EventsInv, JobsInv, JobOK
    <3>2. new.n = n
      BY DEF Row
    <3>3. /\ history[n].detail = "referral" => new.referral
          /\ m \in DOMAIN rows /\ rows[m].referral => new.referral
      BY DEF Row
    <3> HIDE DEF new
    <3>4. /\ DOMAIN rows' = DOMAIN rows \cup {m} /\ rows'[m] = new
          /\ \A k \in DOMAIN rows : k # m => rows'[k] = rows[k]
      BY <2>2 DEF InsertMessage, Upsert, new
    <3>5. RecordsInv'
      BY <1>3, <2>2, <3>1, <3>2, <3>4 DEF EventsInv, RecordsInv
    <3>6. ASSUME NEW s \in stored', history[s[1]].detail = "referral"
          PROVE  rows'[s[2]].referral
      <4>1. CASE s \in stored
        <5>1. s[2] \in DOMAIN rows /\ rows[s[2]].referral
          BY <3>6, <4>1 DEF EventsInv, RecordsInv, ReferralIsKept
        <5>2. CASE s[2] = m
          BY <3>3, <3>4, <5>1, <5>2
        <5>3. CASE s[2] # m
          BY <3>4, <5>1, <5>3
        <5> QED BY <5>2, <5>3
      <4>2. CASE s = <<n, m>>
        BY <3>3, <3>4, <3>6, <4>2
      <4> QED BY <2>2, <4>1, <4>2
    <3>7. ASSUME NEW k \in DOMAIN rows'
          PROVE  <<rows'[k].n, k>> \in stored'
      BY <2>2, <3>2, <3>4 DEF EventsInv, ReferralIsKept
    <3> QED BY <1>3, <3>5, <3>6, <3>7 DEF ReferralIsKept
  <2> QED BY <1>1, <2>1, <2>2
<1> QED BY <1>2, <1>4, <1>5 DEF EventsInv

LEMMA SavePollVoteOK ==
    ASSUME EventsInv, SavePollVote
    PROVE  EventsInv'
<1>1. PICK j \in jobs :
        /\ j.what = "vote" /\ Runs(j)
        /\ \/ votes' = Upsert(votes, j.arg,
                              [n |-> j.n, inst |-> IF j.arg \in DOMAIN votes
                                                   THEN votes[j.arg].inst
                                                   ELSE history[j.n].inst])
           \/ votes' = votes
        /\ rows' = rows /\ stored' = stored /\ given' = given
  BY DEF SavePollVote
<1>2. /\ Quietly
      /\ set' \in Configs /\ history' \in Seq(Notices)
      /\ Len(history') <= MaxNotices /\ busy' \in [Instances -> Nat]
      /\ JobsInv' /\ BusyInv' /\ LabelsInv' /\ GivenInv' /\ SeenInv' /\ DoneInv'
  BY <1>1, RunsKeeps
<1>3. history' = history
  BY <1>2 DEF Quietly
<1>4. RecordsInv' /\ ReferralIsKept'
  BY <1>1, <1>3 DEF EventsInv, RecordsInv, ReferralIsKept
<1>5. VotesInv'
  <2>1. CASE votes' = votes
    BY <1>3, <2>1 DEF EventsInv, VotesInv
  <2>2. CASE votes' # votes
    <3>1. /\ j.n \in DOMAIN history /\ j.arg = Voter(history[j.n])
          /\ history[j.n].choice # ""
      BY <1>1 DEF EventsInv, JobsInv, JobOK
    <3> DEFINE new == [n |-> j.n, inst |-> IF j.arg \in DOMAIN votes
                                           THEN votes[j.arg].inst
                                           ELSE history[j.n].inst]
    <3>2. history[j.n].inst \in Instances
      <4>0. \A n \in DOMAIN history : history[n] \in Notices
        BY DEF EventsInv
      <4>1. history[j.n] \in Notices
        BY <3>1, <4>0
      <4>2. history[j.n] \in Notice
        BY <4>1, RecordsAssumption
      <4> QED BY <4>2 DEF Notice
    <3>3. new.n = j.n /\ new.inst \in Instances
      BY <3>2 DEF EventsInv, VotesInv
    <3> HIDE DEF new
    <3>4. /\ DOMAIN votes' = DOMAIN votes \cup {j.arg} /\ votes'[j.arg] = new
          /\ \A k \in DOMAIN votes : k # j.arg => votes'[k] = votes[k]
      BY <1>1, <2>2 DEF Upsert, new
    <3> QED BY <1>3, <3>1, <3>3, <3>4 DEF EventsInv, VotesInv, Voter
  <2> QED BY <2>1, <2>2
<1> QED BY <1>2, <1>4, <1>5 DEF EventsInv

\* Every route that wants the event has it once, and a logout once for each of
\* its two tellings.
LEMMA TellOK ==
    ASSUME EventsInv, Tell
    PROVE  EventsInv'
<1>1. PICK j \in jobs :
        /\ j.what = "tell" /\ Runs(j) /\ UNCHANGED tables
        /\ given' = given (+) SetToBag({<<j.n, EventOf(j), r>> :
                       r \in CallWebhook(EventOf(j), history[j.n].chat)
                             \cup SendToGlobalQueues(EventOf(j))})
  BY DEF Tell
<1>2. PICK n, a, e : n = j.n /\ a = j.arg /\ e = EventOf(j)
  OBVIOUS
<1> DEFINE R == {<<n, e, r>> : r \in CallWebhook(e, history[n].chat)
                                     \cup SendToGlobalQueues(e)}
<1>3. /\ jobs' = jobs \ {j} /\ set' = set /\ history' = history /\ busy' = busy
      /\ seen' = seen /\ labels' = labels /\ rows' = rows /\ stored' = stored
      /\ votes' = votes /\ Quietly
  BY <1>1 DEF Runs, tables, Quietly
<1>4. given' = given (+) SetToBag(R)
  BY <1>1, <1>2
<1>5. /\ j = Job("tell", n, a) /\ n \in DOMAIN history /\ ~Unwanted(history[n])
  BY <1>1, <1>2 DEF EventsInv, JobsInv, JobOK
<1>6. e # Again /\ (a # Again => e = a) /\ (a = Again => e = "LoggedOut")
  BY <1>2 DEF EventOf, Again
<1>7. \A g \in R : g = <<g[1], g[2], g[3]>> /\ g[1] = n /\ g[2] = e
  OBVIOUS
<1>8. \A r : (r = "instance" /\ InstanceWants(e, history[n].chat))
               \/ r \in SendToGlobalQueues(e) => <<n, e, r>> \in R
  BY DEF CallWebhook
<1> HIDE DEF R
<1>9. /\ IsABag(given') /\ DOMAIN given' = DOMAIN given \cup R
      /\ \A g \in DOMAIN given \ R : given'[g] = given[g]
      /\ \A g \in R : given'[g] = IF g \in DOMAIN given THEN given[g] + 1 ELSE 1
  <2>1. IsABag(given)
    BY DEF EventsInv, GivenInv
  <2>2. /\ IsABag(given (+) SetToBag(R))
        /\ DOMAIN (given (+) SetToBag(R)) = DOMAIN given \cup R
        /\ \A g \in DOMAIN given \ R : (given (+) SetToBag(R))[g] = given[g]
        /\ \A g \in R : (given (+) SetToBag(R))[g]
                           = IF g \in DOMAIN given THEN given[g] + 1 ELSE 1
    BY <2>1, AddToBag
  <2> QED BY <1>4, <2>2
<1>10. \A k : ToCome(k)' => ToCome(k)
  BY <1>3 DEF ToCome
<1>11. JobsInv'
  BY <1>3, SameNotices DEF EventsInv, JobsInv, JobOK
<1>12. BusyInv' /\ RecordsInv' /\ ReferralIsKept' /\ VotesInv' /\ LabelsInv' /\ SeenInv'
  BY <1>3 DEF EventsInv, BusyInv, RecordsInv, ReferralIsKept, VotesInv, LabelsInv, SeenInv
<1>13. GivenInv'
  <2>1. ASSUME NEW g \in DOMAIN given \ R
        PROVE  Counted(g)'
    <3>1. Counted(g)
      BY DEF EventsInv, GivenInv
    <3>2. given'[g] = given[g] /\ jobs' \subseteq jobs
      BY <1>3, <1>9
    <3> QED BY <1>3, <1>10, <3>1, <3>2, SameNotices DEF Counted
  <2>2. ASSUME NEW g \in R
        PROVE  Counted(g)'
    <3>1. g = <<g[1], g[2], g[3]>> /\ g[1] = n /\ g[2] = e
      BY <1>7
    <3>2. given'[g] = IF g \in DOMAIN given THEN given[g] + 1 ELSE 1
      BY <1>9
    <3>3. g \in DOMAIN given => Counted(g)
      BY DEF EventsInv, GivenInv
    <3>4. \A b : b # a => (Job("tell", n, b) \in jobs' <=> Job("tell", n, b) \in jobs)
      BY <1>3, <1>5, JobEqual
    <3>5. Job("tell", n, a) \in jobs /\ Job("tell", n, a) \notin jobs'
      BY <1>3, <1>5
    <3>6. g[1] \in DOMAIN history' /\ ~Unwanted(history[g[1]])' /\ g[2] # Again
      BY <1>3, <1>5, <1>6, <3>1, SameNotices
    <3>7. ASSUME e # "LoggedOut"
          PROVE  given'[g] = 1 /\ Job("tell", n, e) \notin jobs'
      <4>1. a = e
        BY <1>6, <3>7
      <4>2. g \notin DOMAIN given
        BY <3>1, <3>3, <3>5, <3>7, <4>1 DEF Counted
      <4> QED BY <3>2, <3>5, <4>1, <4>2
    <3>8. ASSUME e = "LoggedOut"
          PROVE  LET first == Job("tell", n, "LoggedOut") \in jobs'
                 IN /\ given'[g] <= 2
                    /\ first \/ ToCome(n)' => given'[g] = 1
                    /\ ~(first /\ ToCome(n)')
      <4>0. g \in DOMAIN given =>
              /\ Job("tell", n, "LoggedOut") \in jobs \/ ToCome(n) => given[g] = 1
              /\ ~(Job("tell", n, "LoggedOut") \in jobs /\ ToCome(n))
        BY <3>1, <3>3, <3>8 DEF Counted
      <4>1. CASE a = "LoggedOut"
        <5>1. Job("tell", n, "LoggedOut") \in jobs
              /\ Job("tell", n, "LoggedOut") \notin jobs'
          BY <3>5, <4>1
        <5>2. g \in DOMAIN given => given'[g] = 2 /\ ~ToCome(n)'
          BY <1>10, <3>2, <4>0, <5>1
        <5>3. g \notin DOMAIN given => given'[g] = 1
          BY <3>2
        <5> QED BY <5>1, <5>2, <5>3
      <4>2. CASE a = Again
        <5>1. ToCome(n) /\ ~ToCome(n)'
          <6>1. Job("tell", n, Again) \in jobs /\ Job("tell", n, Again) \notin jobs'
            BY <3>5, <4>2
          <6>2. n # 0
            BY <1>5 DEF EventsInv
          <6>3. \A i \in Instances : busy[i] # n
            BY <6>1, <6>2 DEF EventsInv, BusyInv
          <6> QED BY <1>3, <6>1, <6>3 DEF ToCome
        <5>2. Job("tell", n, "LoggedOut") \in jobs' => Job("tell", n, "LoggedOut") \in jobs
          BY <1>3
        <5>3. g \in DOMAIN given => /\ given'[g] = 2
                                    /\ Job("tell", n, "LoggedOut") \notin jobs'
          BY <3>2, <4>0, <5>1, <5>2
        <5>4. g \notin DOMAIN given => given'[g] = 1
          BY <3>2
        <5> QED BY <5>1, <5>3, <5>4
      <4> QED BY <1>6, <3>8, <4>1, <4>2
    <3> QED BY <3>1, <3>6, <3>7, <3>8 DEF Counted
  <2> QED BY <1>9, <2>1, <2>2 DEF GivenInv
<1>14. DoneInv'
  <2>1. \A k, f : Told(k, f) => Told(k, f)'
    BY <1>3, <1>9, SameNotices DEF Told, BagIn, BagToSet
  <2>2. a # Again => Told(n, e)'
    BY <1>3, <1>8, <1>9, SameNotices DEF Told, BagIn, BagToSet
  <2>3. ASSUME NEW k \in DOMAIN history, NEW f, f = EventFor(history[k])
        PROVE  \/ Unwanted(history[k]) \/ Excused(k)
               \/ Job("tell", k, f) \in jobs' \/ Told(k, f)'
    <3>1. \/ Unwanted(history[k]) \/ Excused(k)
          \/ Job("tell", k, f) \in jobs \/ Told(k, f)
      BY <2>3 DEF EventsInv, DoneInv
    <3>2. CASE Job("tell", k, f) = j
      <4>1. k = n /\ f = a
        BY <1>5, <3>2, JobEqual
      <4>2. f # Again
        BY <2>3, EventNames DEF EventsInv
      <4> QED BY <1>6, <2>2, <4>1, <4>2
    <3>3. CASE Job("tell", k, f) # j
      BY <1>3, <2>1, <3>1, <3>3
    <3> QED BY <3>2, <3>3
  <2> QED BY <1>3, <2>3, SameNotices DEF DoneInv, EventFor
<1> QED BY <1>3, <1>11, <1>12, <1>13, <1>14 DEF EventsInv

-----------------------------------------------------------------------------
(* The inductive invariant, and what it means for the properties.           *)

LEMMA InitHolds ==
    ASSUME Init
    PROVE  EventsInv
<1>1. /\ set \in Configs /\ history = <<>> /\ busy = [i \in Instances |-> 0]
      /\ seen = {} /\ jobs = {} /\ stored = {}
      /\ rows = <<>> /\ votes = <<>> /\ labels = <<>> /\ given = EmptyBag
  BY DEF Init
<1>2. history \in Seq(Notices) /\ Len(history) <= MaxNotices /\ DOMAIN history = {}
  BY <1>1, RecordsAssumption
<1>3. DOMAIN rows = {} /\ DOMAIN votes = {} /\ DOMAIN labels = {}
  BY <1>1
<1>4. busy \in [Instances -> Nat] /\ BusyInv
  BY <1>1 DEF BusyInv
<1>5. JobsInv /\ RecordsInv /\ ReferralIsKept /\ VotesInv /\ LabelsInv /\ SeenInv
      /\ DoneInv
  BY <1>1, <1>2, <1>3
     DEF JobsInv, RecordsInv, ReferralIsKept, VotesInv, LabelsInv, SeenInv, DoneInv
<1>6. GivenInv
  BY <1>1, EmptyIsBag DEF GivenInv
<1> QED BY <1>1, <1>2, <1>4, <1>5, <1>6 DEF EventsInv

LEMMA StepHolds ==
    ASSUME EventsInv, [Next]_vars
    PROVE  EventsInv'
<1>1. CASE Handle
  <2>1. PICK i \in Instances :
          \/ HandleMessage(i) \/ HandleReceipt(i) \/ HandleLabelEdit(i)
          \/ HandleCallOffer(i) \/ HandleOther(i) \/ HandleLoggedOut(i)
          \/ KillTaken(i)
    BY <1>1 DEF Handle
  <2> QED BY <2>1, HandleMessageOK, HandleReceiptOK, HandleLabelEditOK,
             HandleCallOfferOK, HandleOtherOK, HandleLoggedOutOK, KillTakenOK
<1>2. CASE Forget
  BY <1>2, ForgetOK
<1>3. CASE PersistMessage
  BY <1>3, PersistMessageOK
<1>4. CASE SavePollVote
  BY <1>4, SavePollVoteOK
<1>5. CASE Tell
  BY <1>5, TellOK
<1>6. CASE UNCHANGED vars
  <2>1. /\ Quietly /\ given' = given /\ busy' = busy /\ labels' = labels
        /\ jobs' = jobs /\ seen' = seen /\ rows' = rows /\ stored' = stored
        /\ votes' = votes
    BY <1>6 DEF vars, tables, Quietly
  <2>2. /\ set' \in Configs /\ history' \in Seq(Notices)
        /\ Len(history') <= MaxNotices /\ busy' \in [Instances -> Nat]
        /\ JobsInv' /\ BusyInv' /\ LabelsInv' /\ GivenInv' /\ SeenInv' /\ DoneInv'
    BY <2>1, UntoldKeeps
  <2>3. RecordsInv' /\ ReferralIsKept' /\ VotesInv'
    BY <2>1 DEF EventsInv, RecordsInv, ReferralIsKept, VotesInv, Quietly
  <2> QED BY <2>2, <2>3 DEF EventsInv
<1> QED BY <1>1, <1>2, <1>3, <1>4, <1>5, <1>6 DEF Next

\* Whatever the order of the goroutines, EventsInv holds.
THEOREM EventsInvariance == Spec => []EventsInv
<1>1. Init => EventsInv
  BY InitHolds
<1>2. EventsInv /\ [Next]_vars => EventsInv'
  BY StepHolds
<1> QED BY <1>1, <1>2, PTL DEF Spec

\* The type invariant: what is written and given is of notices that were taken.
THEOREM EventsTypeInvariance == Spec => []EventsTypeOK
<1>1. EventsInv => EventsTypeOK
  <2> SUFFICES ASSUME EventsInv PROVE EventsTypeOK
    OBVIOUS
  <2>1. \A n \in DOMAIN history : history[n] \in Notices
    BY DEF EventsInv
  <2>2. \A i \in Instances : busy[i] \in {0} \cup DOMAIN history
    BY DEF EventsInv, BusyInv
  <2>3. \A j \in jobs : j.n \in DOMAIN history
    BY DEF EventsInv, JobsInv, JobOK
  <2>4. /\ \A m \in DOMAIN rows : rows[m].n \in DOMAIN history
        /\ \A v \in DOMAIN votes :
              votes[v].n \in DOMAIN history /\ votes[v].inst \in Instances
        /\ IsABag(given)
    BY DEF EventsInv, RecordsInv, VotesInv, GivenInv
  <2> QED BY <2>1, <2>2, <2>3, <2>4 DEF EventsInv, LabelsInv, EventsTypeOK
<1> QED BY <1>1, EventsInvariance, PTL

\* InsertMessage's referral outlives every later write of the row.
THEOREM ReferralStays == Spec => []ReferralIsKept
<1>1. EventsInv => ReferralIsKept
  BY DEF EventsInv
<1> QED BY <1>1, EventsInvariance, PTL

\* A voter whose notices all give its number has one row of votes, of one
\* instance, which holds one of the votes it cast.
THEOREM VotersAreCountedOnce == Spec => []VotersCountOnce
<1>1. EventsInv => VotersCountOnce
  <2> SUFFICES ASSUME EventsInv, NEW p
               PROVE  /\ \A v \in DOMAIN votes : v[1] = p => votes[v].n \in Casts(p)
                      /\ (\A n \in Casts(p) : history[n].as # "lid")
                            => Cardinality(CountedFor(p)) <= 1
    BY DEF VotersCountOnce
  <2> DEFINE v0 == <<p, "number">>
  <2>1. ASSUME NEW v \in DOMAIN votes, v[1] = p
        PROVE  votes[v].n \in Casts(p)
    <3>1. /\ votes[v].n \in DOMAIN history /\ v = Voter(history[votes[v].n])
          /\ history[votes[v].n].choice # ""
      BY DEF EventsInv, VotesInv
    <3>2. PICK x : x = history[votes[v].n]
      OBVIOUS
    <3>3. v[1] = x.who
      <4>1. PICK as : Voter(x) = <<x.who, as>>
        BY DEF Voter
      <4>2. v = <<x.who, as>>
        BY <3>1, <3>2, <4>1
      <4> QED BY <4>2
    <3> QED BY <2>1, <3>1, <3>2, <3>3 DEF Casts
  <2>2. ASSUME \A n \in Casts(p) : history[n].as # "lid"
        PROVE  Cardinality(CountedFor(p)) <= 1
    <3>1. ASSUME NEW x \in CountedFor(p)
          PROVE  x = <<votes[v0].inst, v0>>
      <4>1. /\ x[2] \in DOMAIN votes /\ x[2][1] = p /\ votes[x[2]].inst = x[1]
            /\ x = <<x[1], x[2]>>
        BY DEF PollVoters, CountedFor
      <4>2. votes[x[2]].n \in Casts(p) /\ x[2] = Voter(history[votes[x[2]].n])
        BY <2>1, <4>1 DEF EventsInv, VotesInv
      <4>3. x[2] = v0
        BY <2>2, <4>1, <4>2 DEF Voter
      <4> QED BY <4>1, <4>3
    <3>2. PICK one : one = <<votes[v0].inst, v0>>
      OBVIOUS
    <3>3. CountedFor(p) \subseteq {one}
      BY <3>1, <3>2
    <3>4. IsFiniteSet({one}) /\ Cardinality({one}) = 1
      BY FS_Singleton
    <3>5. Cardinality(CountedFor(p)) <= Cardinality({one})
      BY <3>3, <3>4, FS_Subset
    <3> QED BY <3>4, <3>5
  <2> QED BY <2>1, <2>2
<1> QED BY <1>1, EventsInvariance, PTL

\* From WhatsApp to the routes: nothing is given that is ignored, nothing too
\* often, and when all is done everything that was asked for was given.
THEOREM EventsAreGivenAsAsked == Spec => []GivenAsAsked
<1>1. EventsInv => GivenAsAsked
  <2> SUFFICES ASSUME EventsInv PROVE GivenAsAsked
    OBVIOUS
  <2>1. ASSUME NEW g \in BagToSet(given)
        PROVE  /\ given[g] <= IF g[2] = "LoggedOut" THEN 2 ELSE 1
               /\ ~Unwanted(history[g[1]])
    <3>1. Counted(g)
      BY DEF EventsInv, GivenInv, BagToSet
    <3>2. g[2] # "LoggedOut" => given[g] = 1
      BY <3>1 DEF Counted
    <3>3. g[2] = "LoggedOut" => given[g] <= 2
      BY <3>1 DEF Counted
    <3>4. ~Unwanted(history[g[1]])
      BY <3>1 DEF Counted
    <3> QED BY <3>2, <3>3, <3>4
  <2>2. ASSUME Quiet, NEW n \in DOMAIN history,
               ~Unwanted(history[n]), ~Excused(n)
        PROVE  Told(n, EventFor(history[n]))
    BY <2>2 DEF EventsInv, DoneInv, Quiet
  <2> QED BY <2>1, <2>2 DEF GivenAsAsked
<1> QED BY <1>1, EventsInvariance, PTL
=============================================================================
