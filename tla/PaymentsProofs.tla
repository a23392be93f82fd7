---------------------------- MODULE PaymentsProofs ----------------------------
(* Theorems about Payments, for any orders, handlers, processes and amounts. *)
EXTENDS Payments, Sums

\* The fields of a job that the orders depend on; the amounts it read are left open.
JobOK(h) ==
    /\ job[h] = [step |-> job[h].step, order |-> job[h].order, report |-> job[h].report,
                 quota |-> job[h].quota, topup |-> job[h].topup, gift |-> job[h].gift,
                 level |-> job[h].level, status |-> job[h].status]
    /\ job[h].step \in Steps
    /\ job[h].report \in Reports \cup {"none"}
    /\ job[h].order \in Orders \cup {None}
    /\ job[h].step # "idle" => job[h].order \in Orders

RecordOK(o) ==
    /\ "status" \in DOMAIN record[o]
    /\ record[o].status \in {"none", "granted", "reversed"}

Typed ==
    /\ kind \in [Orders -> Kinds]
    /\ provider \in [Orders -> {"open", "paid", "expired", "refunded"}]
    /\ due \in [Orders -> SUBSET Reports]
    /\ order \in [Orders -> {"none", "pending", "success", "expired", "refund", "used", "disabled"}]
    /\ credits \in [Orders -> Nat]
    /\ causes \in [Orders -> SUBSET Causes]
    /\ record = [o \in Orders |-> record[o]] /\ \A o \in Orders : RecordOK(o)
    /\ job = [h \in Handlers |-> job[h]] /\ \A h \in Handlers : JobOK(h)

\* What a report that is under way says of its order.
Known(o, r) ==
    /\ r = "paid" => kind[o] # "code" /\ provider[o] \in {"paid", "refunded"}
    /\ r = "expired" => kind[o] = "topup" /\ provider[o] = "expired"
    /\ r = "refund" => kind[o] = "charge" /\ provider[o] = "refunded"

Crediting(o) == {h \in Handlers : job[h].step = "crediting" /\ job[h].order = o}

\* What a handler at a step knows of its order.
JobSays(h) ==
    /\ job[h].step # "idle" => Known(job[h].order, job[h].report)
    /\ job[h].step \in Reports => job[h].report = job[h].step
    /\ job[h].report = "expired" => job[h].step = "expired"
    /\ job[h].report = "refund" => job[h].step \in {"refund", "revoking"}
    /\ job[h].step = "revoking" =>
         job[h].report = "refund" /\ order[job[h].order] = "success"
    /\ job[h].step = "manual" => job[h].report = "none" /\ kind[job[h].order] = "topup"
    /\ job[h].step \in {"inserting", "crediting"} =>
         job[h].report = "paid" /\ kind[job[h].order] = "crypto"
    /\ job[h].step \in {"recalc", "leveling"} => credits[job[h].order] > 0
    /\ job[h].step = "editing" =>
         /\ job[h].report = "none" /\ kind[job[h].order] = "code"
         /\ job[h].status \in CodeStatuses

OneRevoker ==
    \A g, h \in Handlers :
        job[g].step = "revoking" /\ job[h].step = "revoking" /\ job[g].order = job[h].order => g = h

\* How the credits of an order follow from its status, by kind.
CreditsAre(o) ==
    /\ kind[o] = "topup" =>
         /\ order[o] \in {"pending", "success", "expired"}
         /\ credits[o] = IF order[o] = "success" THEN 1 ELSE 0
         /\ order[o] = "expired" => provider[o] = "expired"
    /\ kind[o] = "charge" =>
         /\ order[o] \in {"pending", "success", "refund"}
         /\ credits[o] = IF order[o] = "pending" THEN 0 ELSE 1
    /\ kind[o] = "crypto" =>
         /\ order[o] \in {"none", "success"}
         /\ order[o] = "success" =>
              credits[o] > 0 \/ "dropped" \in causes[o] \/ Crediting(o) # {}
         /\ "race" \notin causes[o] =>
              /\ credits[o] <= 1
              /\ order[o] = "none" => credits[o] = 0 /\ Crediting(o) = {}
              /\ \A g, h \in Crediting(o) : g = h
              /\ Crediting(o) # {} => credits[o] = 0
    /\ kind[o] = "code" =>
         /\ order[o] \in CodeStatuses
         /\ "edited" \notin causes[o] => credits[o] = IF order[o] = "used" THEN 1 ELSE 0

RecordIs(o) ==
    /\ record[o].status = "granted" =>
         order[o] = "success" /\ o \in real /\ kind[o] \in {"topup", "charge"}
    /\ record[o].status = "reversed" => order[o] = "refund"

\* What the provider knows has been handled or is still under way.
Reported(o) ==
    /\ provider[o] = "expired" => kind[o] = "topup"
    /\ provider[o] \in {"paid", "refunded"} => kind[o] # "code"
    /\ provider[o] = "refunded" => kind[o] = "charge"
    /\ \A r \in due[o] : Known(o, r)
    /\ provider[o] \in {"paid", "refunded"} =>
         "paid" \in due[o] \/ credits[o] > 0 \/ "dropped" \in causes[o] \/ Crediting(o) # {}
    /\ provider[o] = "refunded" =>
         "refund" \in due[o] \/ order[o] = "refund" \/ causes[o] \cap {"early", "swallowed"} # {}

IInv ==
    /\ Typed
    /\ \A h \in Handlers : JobSays(h)
    /\ OneRevoker
    /\ \A o \in Orders : CreditsAre(o) /\ RecordIs(o) /\ Reported(o)

-----------------------------------------------------------------------------
(* Handlers and orders an action leaves alone. *)

OthersRest(h) == \A g \in Handlers : g # h => job'[g] = job[g]

\* All the invariant says of one order.
OrderInv(o) == CreditsAre(o) /\ RecordIs(o) /\ Reported(o)

SameOrder(o) ==
    /\ kind'[o] = kind[o] /\ provider'[o] = provider[o] /\ order'[o] = order[o]
    /\ due'[o] = due[o] /\ credits'[o] = credits[o] /\ causes'[o] = causes[o]
    /\ record'[o] = record[o] /\ (o \in real' <=> o \in real)

LEMMA OrderRests ==
    ASSUME NEW o \in Orders, SameOrder(o), Crediting(o)' = Crediting(o), OrderInv(o)
    PROVE  OrderInv(o)'
  BY DEF SameOrder, OrderInv, CreditsAre, RecordIs, Reported, Known

\* A handler that starts, ends or moves between steps other than crediting leaves
\* nobody else crediting its order, nor fewer.
LEMMA SameCrediting ==
    ASSUME NEW h \in Handlers, OthersRest(h), NEW o \in Orders,
           h \in Crediting(o) <=> (job'[h].step = "crediting" /\ job'[h].order = o)
    PROVE  Crediting(o)' = Crediting(o)
  BY DEF OthersRest, Crediting

\* What a job that did not change says stays true while nothing it speaks of changes
\* for the worse.
LEMMA JobRests ==
    ASSUME NEW g \in Handlers, job'[g] = job[g], JobOK(g), JobSays(g),
           kind' = kind, provider' = provider,
           job[g].step # "idle" => credits'[job[g].order] >= credits[job[g].order],
           job[g].step # "idle" => credits[job[g].order] \in Nat,
           job[g].step # "idle" => credits'[job[g].order] \in Nat,
           job[g].step = "revoking" => order'[job[g].order] = order[job[g].order]
    PROVE  JobSays(g)'
  BY DEF JobSays, Known, JobOK

LEMMA JobTyped ==
    ASSUME NEW h \in Handlers, OthersRest(h), \A g \in Handlers : JobOK(g), JobOK(h)'
    PROVE  \A g \in Handlers : JobOK(g)'
  BY DEF OthersRest, JobOK

LEMMA IInvInit == Init => IInv
<1> SUFFICES ASSUME Init PROVE IInv
  OBVIOUS
<1>1. kind \in [Orders -> Kinds]  BY PaymentsAssumption DEF Init, Kinds
<1>2. Typed
  BY <1>1 DEF Init, Typed, Kinds, JobOK, RecordOK, Idle, NoRecord, Steps
<1>3. \A h \in Handlers : JobSays(h)
  BY DEF Init, JobSays, Idle, Reports
<1>4. OneRevoker
  BY DEF Init, OneRevoker, Idle
<1>5. ASSUME NEW o \in Orders PROVE CreditsAre(o) /\ RecordIs(o) /\ Reported(o)
  <2>1. /\ provider[o] = "open" /\ due[o] = {} /\ credits[o] = 0 /\ causes[o] = {}
        /\ order[o] = IF kind[o] = "crypto" THEN "none" ELSE "pending"
        /\ record[o].status = "none"
    BY DEF Init, NoRecord
  <2>2. Crediting(o) = {}
    BY DEF Init, Idle, Crediting
  <2> QED  BY <2>1, <2>2 DEF CreditsAre, CodeStatuses, RecordIs, Reported
<1> QED  BY <1>2, <1>3, <1>4, <1>5 DEF IInv

-----------------------------------------------------------------------------
(* The provider, the users, and the start of a handler. *)

\* What the provider does sets what it knows and what it reports.
LEMMA ProviderActs ==
    ASSUME IInv, NEW o \in Orders,
           Pay(o) \/ SessionExpires(o) \/ RefundCharge(o) \/ Repeat(o)
    PROVE  IInv'
<1>1. /\ UNCHANGED <<kind, order, real, record, job, credits, causes>>
      /\ provider' \in [Orders -> {"open", "paid", "expired", "refunded"}]
      /\ due' \in [Orders -> SUBSET Reports]
      /\ \A q \in Orders : q # o => provider'[q] = provider[q] /\ due'[q] = due[q]
  <2>1. CASE Pay(o)
    BY <2>1 DEF IInv, Typed, Pay, Reports
  <2>2. CASE SessionExpires(o)
    BY <2>2 DEF IInv, Typed, SessionExpires, Reports
  <2>3. CASE RefundCharge(o)
    BY <2>3 DEF IInv, Typed, RefundCharge, Reports
  <2>4. CASE Repeat(o)
    BY <2>4 DEF IInv, Typed, Repeat, Reports
  <2> QED  BY <2>1, <2>2, <2>3, <2>4
<1>2. \A q \in Orders :
        /\ provider'[q] # provider[q] =>
             provider[q] = "open" \/ (provider[q] = "paid" /\ provider'[q] = "refunded")
        /\ due[q] \subseteq due'[q]
        /\ \A r \in due'[q] \ due[q] : Known(q, r)'
        /\ provider'[q] \in {"paid", "refunded"} /\ provider[q] = "open" => "paid" \in due'[q]
        /\ provider'[q] = "refunded" /\ provider[q] # "refunded" => "refund" \in due'[q]
        /\ provider[q] = "open" => provider'[q] # "refunded"
        /\ provider'[q] # provider[q] =>
             /\ provider'[q] = "expired" => kind[q] = "topup"
             /\ provider'[q] \in {"paid", "refunded"} => kind[q] # "code"
             /\ provider'[q] = "refunded" => kind[q] = "charge"
  <2>1. CASE Pay(o)
    <3>1. /\ kind[o] # "code" /\ provider[o] = "open" /\ provider'[o] = "paid"
          /\ due'[o] = due[o] \cup {"paid"}
      BY <2>1 DEF IInv, Typed, Pay
    <3> QED  BY <1>1, <3>1 DEF Known
  <2>2. CASE SessionExpires(o)
    <3>1. /\ kind[o] = "topup" /\ provider[o] = "open" /\ provider'[o] = "expired"
          /\ due'[o] = due[o] \cup {"expired"}
      BY <2>2 DEF IInv, Typed, SessionExpires
    <3> QED  BY <1>1, <3>1 DEF Known
  <2>3. CASE RefundCharge(o)
    <3>1. /\ kind[o] = "charge" /\ provider[o] = "paid" /\ provider'[o] = "refunded"
          /\ due'[o] = due[o] \cup {"refund"}
      BY <2>3 DEF IInv, Typed, RefundCharge
    <3> QED  BY <1>1, <3>1 DEF Known
  <2>4. CASE Repeat(o)
    <3>1. PICK r : /\ provider'[o] = provider[o] /\ due'[o] = due[o] \cup {r}
                   /\ \/ provider[o] = "paid" /\ r = "paid"
                      \/ provider[o] = "expired" /\ r = "expired"
                      \/ provider[o] = "refunded" /\ r \in {"paid", "refund"}
      BY <2>4 DEF IInv, Typed, Repeat
    <3>2. Reported(o)
      BY DEF IInv
    <3> QED  BY <1>1, <3>1, <3>2 DEF Known, Reported
  <2> QED  BY <2>1, <2>2, <2>3, <2>4
<1>3. Typed'
  BY <1>1 DEF IInv, Typed, JobOK, RecordOK
<1>4. ASSUME NEW q \in Orders, NEW r, Known(q, r) PROVE Known(q, r)'
  BY <1>1, <1>2, <1>4 DEF IInv, Typed, Known
<1>5. \A h \in Handlers : JobSays(h)'
  BY <1>1, <1>4 DEF IInv, Typed, JobOK, JobSays
<1>6. OneRevoker'
  BY <1>1 DEF IInv, OneRevoker
<1>7. ASSUME NEW q \in Orders PROVE CreditsAre(q)' /\ RecordIs(q)' /\ Reported(q)'
  <2>1. Crediting(q)' = Crediting(q)
    BY <1>1 DEF Crediting
  <2>2. CreditsAre(q)'
    BY <1>1, <1>2, <2>1 DEF IInv, Typed, CreditsAre
  <2>3. RecordIs(q)'
    BY <1>1 DEF IInv, RecordIs
  <2>4. Reported(q)'
    BY <1>1, <1>2, <1>4, <2>1 DEF IInv, Typed, Reported
  <2> QED  BY <2>2, <2>3, <2>4
<1> QED  BY <1>3, <1>5, <1>6, <1>7 DEF IInv

LEMMA SpendKeeps ==
    ASSUME IInv, NEW u \in Users, Spend(u)
    PROVE  IInv'
<1>1. UNCHANGED <<kind, provider, due, order, real, record, job, credits, causes>>
  BY DEF Spend
<1>2. Typed'
  BY <1>1 DEF IInv, Typed, JobOK, RecordOK
<1>3. (\A h \in Handlers : JobSays(h))' /\ OneRevoker'
  BY <1>1 DEF IInv, JobSays, Known, OneRevoker
<1>4. ASSUME NEW o \in Orders PROVE OrderInv(o)'
  BY <1>1, OrderRests DEF IInv, OrderInv, SameOrder, Crediting
<1> QED  BY <1>2, <1>3, <1>4 DEF IInv, OrderInv

\* A handler starts with what the provider, the administrator or the row says.
LEMMA HandlerStarts ==
    ASSUME IInv, NEW h \in Handlers, NEW o \in Orders,
           \/ \E r \in Reports : Deliver(h, o, r)
           \/ CompleteManually(h, o) \/ EditReads(h, o)
    PROVE  IInv'
<1>1. /\ UNCHANGED <<kind, provider, due, order, real, record, credits, causes>>
      /\ job[h].step = "idle" /\ OthersRest(h) /\ job' = [g \in Handlers |-> job'[g]]
  BY DEF IInv, Typed, Deliver, CompleteManually, EditReads, OthersRest, world
<1>2. /\ JobOK(h)' /\ JobSays(h)'
      /\ job'[h].step \notin {"revoking", "crediting"}
  <2>1. ASSUME NEW r \in Reports, Deliver(h, o, r)
        PROVE  job'[h] = [Idle EXCEPT !.step = r, !.order = o, !.report = r] /\ Known(o, r)
    BY <2>1 DEF IInv, Typed, Deliver, Reported
  <2>2. CASE \E r \in Reports : Deliver(h, o, r)
    <3> PICK r \in Reports : Deliver(h, o, r)
      BY <2>2
    <3>1. /\ job'[h] = [Idle EXCEPT !.step = r, !.order = o, !.report = r] /\ Known(o, r)
          /\ Known(o, r)' <=> Known(o, r)
      BY <1>1, <2>1 DEF Known
    <3>2. JobOK(h)'
      BY <3>1 DEF JobOK, Idle, Steps, Reports
    <3>3. /\ job'[h].step = r /\ job'[h].order = o /\ job'[h].report = r
          /\ r \in {"paid", "expired", "refund"}
      BY <3>1 DEF Idle, Reports
    <3>4. JobSays(h)'
      BY <3>1, <3>3 DEF JobSays, Reports
    <3> QED  BY <3>2, <3>3, <3>4
  <2>3. CASE CompleteManually(h, o)
    <3>1. job'[h] = [Idle EXCEPT !.step = "manual", !.order = o] /\ kind[o] = "topup"
      BY <2>3 DEF IInv, Typed, CompleteManually
    <3> QED  BY <1>1, <3>1 DEF JobOK, JobSays, Known, Idle, Steps, Reports
  <2>4. CASE EditReads(h, o)
    <3> PICK s \in CodeStatuses :
               job' = [job EXCEPT ![h] = [Idle EXCEPT !.step = "editing", !.order = o, !.status = s]]
      BY <2>4 DEF EditReads
    <3>1. /\ job'[h] = [Idle EXCEPT !.step = "editing", !.order = o, !.status = s]
          /\ kind[o] = "code" /\ s \in CodeStatuses
      BY <2>4 DEF IInv, Typed, EditReads
    <3> QED  BY <1>1, <3>1 DEF JobOK, JobSays, Known, Idle, Steps, Reports
  <2> QED  BY <2>2, <2>3, <2>4
<1>3. Typed'
  <2>1. \A g \in Handlers : JobOK(g)'
    BY <1>1, <1>2, JobTyped DEF IInv, Typed
  <2> QED  BY <1>1, <2>1 DEF IInv, Typed, RecordOK
<1>4. \A g \in Handlers : JobSays(g)'
  BY <1>1, <1>2, JobRests DEF IInv, Typed, OthersRest, JobOK
<1>5. OneRevoker'
  BY <1>1, <1>2 DEF IInv, OneRevoker, OthersRest
<1>6. ASSUME NEW q \in Orders PROVE OrderInv(q)'
  <2>1. Crediting(q)' = Crediting(q)
    BY <1>1, <1>2, SameCrediting DEF Crediting
  <2> QED  BY <1>1, <2>1, OrderRests DEF IInv, OrderInv, SameOrder
<1> QED  BY <1>3, <1>4, <1>5, <1>6 DEF IInv, OrderInv

-----------------------------------------------------------------------------
(* What the steps of a handler have in common. *)

LEMMA IdleFields ==
    /\ Idle.step = "idle" /\ Idle.order = None /\ Idle.report = "none"
    /\ Idle = [step |-> Idle.step, order |-> Idle.order, report |-> Idle.report,
               quota |-> Idle.quota, topup |-> Idle.topup, gift |-> Idle.gift,
               level |-> Idle.level, status |-> Idle.status]
  BY DEF Idle

LEMMA HandlersOrder ==
    ASSUME IInv, NEW h \in Handlers, job[h].step # "idle"
    PROVE  /\ Order(h) \in Orders /\ Order(h) = job[h].order
           /\ JobOK(h) /\ JobSays(h) /\ OrderInv(Order(h))
  BY DEF IInv, Typed, JobOK, Order, OrderInv

LEMMA GoMoves ==
    ASSUME Typed, NEW h \in Handlers, NEW s \in Steps, Go(h, s), job[h].step # "idle"
    PROVE  /\ OthersRest(h) /\ job' = [g \in Handlers |-> job'[g]] /\ JobOK(h)'
           /\ job'[h].step = s /\ job'[h].order = job[h].order
           /\ job'[h].report = job[h].report /\ job'[h].status = job[h].status
<1>1. JobOK(h)
  BY DEF Typed
<1>2. OthersRest(h) /\ job' = [g \in Handlers |-> job'[g]]
  BY DEF Typed, Go, OthersRest
<1>3. job'[h] = [step |-> s, order |-> job[h].order, report |-> job[h].report,
                 quota |-> job[h].quota, topup |-> job[h].topup, gift |-> job[h].gift,
                 level |-> job[h].level, status |-> job[h].status]
  BY <1>1 DEF Typed, Go, JobOK
<1> QED  BY <1>1, <1>2, <1>3 DEF JobOK

\* An answer ends the handler, and takes at most the report it was given.
LEMMA AnswerMoves ==
    ASSUME Typed, NEW h \in Handlers, NEW b \in BOOLEAN, Answer(h, b), Order(h) \in Orders
    PROVE  /\ OthersRest(h) /\ job' = [g \in Handlers |-> job'[g]] /\ JobOK(h)' /\ JobSays(h)'
           /\ job'[h] = Idle
           /\ due' \in [Orders -> SUBSET Reports]
           /\ \A o \in Orders : o # Order(h) => due'[o] = due[o]
           /\ \A r \in due[Order(h)] : r \in due'[Order(h)] \/ (b /\ r = job[h].report)
           /\ due'[Order(h)] \subseteq due[Order(h)]
<1>1. OthersRest(h) /\ job' = [g \in Handlers |-> job'[g]] /\ job'[h] = Idle
  BY DEF Typed, Answer, OthersRest
<1>2. JobOK(h)' /\ JobSays(h)'
  <2>1. /\ job'[h].step = "idle" /\ job'[h].order = None /\ job'[h].report = "none"
        /\ job'[h] = [step |-> job'[h].step, order |-> job'[h].order, report |-> job'[h].report,
                      quota |-> job'[h].quota, topup |-> job'[h].topup, gift |-> job'[h].gift,
                      level |-> job'[h].level, status |-> job'[h].status]
    BY <1>1, IdleFields
  <2> QED  BY <2>1 DEF JobOK, JobSays, Steps, Reports
<1>3. CASE b
  BY <1>1, <1>2, <1>3 DEF Typed, Answer
<1>4. CASE ~b
  BY <1>1, <1>2, <1>4 DEF Typed, Answer
<1> QED  BY <1>3, <1>4

\* A handler's step keeps the invariant if it keeps what concerns its own order.
LEMMA HandlerMoves ==
    ASSUME IInv, NEW h \in Handlers, NEW o \in Orders,
           job[h].step # "idle", job[h].order = o, job'[h].order \in {o, None},
           UNCHANGED <<kind, provider>>,
           OthersRest(h), Typed', JobSays(h)', OrderInv(o)',
           \A q \in Orders : q # o => SameOrder(q),
           credits'[o] >= credits[o],
           \A g \in Handlers : g # h /\ job[g].step = "revoking" /\ job[g].order = o =>
              order'[o] = order[o] /\ job'[h].step # "revoking"
    PROVE  IInv'
<1>1. ASSUME NEW g \in Handlers, g # h PROVE JobSays(g)'
  <2>1. /\ job'[g] = job[g] /\ JobOK(g) /\ JobSays(g)
        /\ \A q \in Orders : credits[q] \in Nat /\ credits'[q] \in Nat
    BY <1>1 DEF IInv, Typed, OthersRest
  <2>2. job[g].step # "idle" =>
          /\ job[g].order \in Orders
          /\ credits'[job[g].order] >= credits[job[g].order]
          /\ job[g].step = "revoking" => order'[job[g].order] = order[job[g].order]
    BY <1>1, <2>1 DEF JobOK, SameOrder
  <2> QED  BY <2>1, <2>2, JobRests
<1>2. OneRevoker'
  <2> SUFFICES ASSUME NEW f \in Handlers, NEW g \in Handlers,
                      job'[f].step = "revoking", job'[g].step = "revoking",
                      job'[f].order = job'[g].order
               PROVE  f = g
    BY DEF OneRevoker
  <2>1. CASE f # h /\ g # h
    BY <2>1 DEF IInv, OneRevoker, OthersRest
  <2>2. job'[f].order \in Orders
    BY DEF Typed, JobOK
  <2> QED  BY <2>1, <2>2, PaymentsAssumption DEF OthersRest
<1>3. ASSUME NEW q \in Orders PROVE OrderInv(q)'
  <2>1. CASE q # o
    <3>1. Crediting(q)' = Crediting(q)
      BY <2>1, PaymentsAssumption DEF OthersRest, Crediting
    <3> QED  BY <2>1, <3>1, OrderRests DEF IInv, OrderInv
  <2> QED  BY <2>1
<1> QED  BY <1>1, <1>2, <1>3 DEF IInv, OrderInv

\* An answer keeps what concerns its order if what is answered as handled has been,
\* and a credit that is given up is noted.
LEMMA AnsweredOrder ==
    ASSUME IInv, NEW h \in Handlers, NEW o \in Orders, NEW b \in BOOLEAN,
           job[h].step # "idle", Order(h) = o, Answer(h, b),
           kind'[o] = kind[o], provider'[o] = provider[o], order'[o] = order[o],
           credits'[o] = credits[o], record'[o] = record[o], o \in real' <=> o \in real,
           causes[o] \subseteq causes'[o],
           h \in Crediting(o) => "dropped" \in causes'[o],
           b /\ job[h].report = "paid" =>
              credits[o] > 0 \/ "dropped" \in causes'[o] \/ Crediting(o)' # {},
           b /\ job[h].report = "refund" =>
              order[o] = "refund" \/ causes'[o] \cap {"early", "swallowed"} # {}
    PROVE  OrderInv(o)'
<1>1. /\ OthersRest(h) /\ job'[h] = Idle
      /\ \A r \in due[o] : r \in due'[o] \/ (b /\ r = job[h].report)
      /\ due'[o] \subseteq due[o]
  BY AnswerMoves DEF IInv
<1>2. Crediting(o)' = Crediting(o) \ {h}
  <2>1. job'[h].step = "idle"
    BY <1>1, IdleFields
  <2> QED  BY <1>1, <2>1 DEF OthersRest, Crediting
<1>3. CreditsAre(o) /\ RecordIs(o) /\ Reported(o)
  BY DEF IInv
<1>4. CreditsAre(o)'
  BY <1>2, <1>3 DEF CreditsAre
<1>5. RecordIs(o)'
  BY <1>3 DEF RecordIs
<1>6. Reported(o)'
  BY <1>1, <1>2, <1>3 DEF Reported, Known
<1> QED  BY <1>4, <1>5, <1>6 DEF OrderInv

-----------------------------------------------------------------------------
(* The steps of the handlers. *)

\* A grant touches the record of its order, and only if something is granted.
LEMMA GrantMoves ==
    ASSUME Typed, NEW o \in Orders, NEW b \in BOOLEAN, NEW n, CreditAndGrant(o, b, n)
    PROVE  /\ record' = [q \in Orders |-> record'[q]] /\ \A q \in Orders : RecordOK(q)'
           /\ \A q \in Orders : q # o => record'[q] = record[q]
           /\ record'[o] = record[o] \/ (record'[o].status = "granted" /\ n # 0)
<1> DEFINE granted == [status |-> "granted", quota |-> n, reversed |-> 0]
<1>1. record' = record \/ (record' = [record EXCEPT ![o] = granted] /\ n # 0)
  <2>1. CASE n # 0 /\ record[o].status = "none"
    BY <2>1 DEF CreditAndGrant, NotGranted
  <2>2. CASE n = 0 \/ record[o].status # "none"
    BY <2>2 DEF CreditAndGrant, NotGranted
  <2> QED  BY <2>1, <2>2
<1>2. CASE record' = record
  BY <1>2 DEF Typed, RecordOK
<1>3. CASE record' = [record EXCEPT ![o] = granted] /\ n # 0
  BY <1>3 DEF Typed, RecordOK
<1> QED  BY <1>1, <1>2, <1>3

\* The transaction that credits an open order: of a report, or of an administrator.
LEMMA CreditMoves ==
    ASSUME IInv, NEW h \in Handlers, NEW o \in Orders, Order(h) = o,
           job[h].step # "idle", job[h].step # "crediting", job[h].report \in {"paid", "none"},
           kind[o] \in {"topup", "charge"}, order[o] = "pending",
           NEW b \in BOOLEAN, NEW n, CreditAndGrant(o, b, n), Credited(o, b), n # 0 => b,
           Go(h, "recalc"), UNCHANGED <<kind, provider, due, causes>>
    PROVE  IInv'
<1>1. /\ OthersRest(h) /\ job' = [g \in Handlers |-> job'[g]] /\ JobOK(h)'
      /\ job'[h].step = "recalc" /\ job'[h].order = o /\ job'[h].report = job[h].report
  BY GoMoves DEF IInv, Steps, Order
<1>2. /\ record' = [q \in Orders |-> record'[q]] /\ \A q \in Orders : RecordOK(q)'
      /\ \A q \in Orders : q # o => record'[q] = record[q]
      /\ record'[o] = record[o] \/ (record'[o].status = "granted" /\ n # 0)
  BY GrantMoves DEF IInv
<1>3. /\ order' = [order EXCEPT ![o] = "success"]
      /\ credits' = [credits EXCEPT ![o] = @ + 1]
      /\ credits[o] \in Nat /\ credits'[o] = credits[o] + 1 /\ order'[o] = "success"
      /\ \A q \in Orders : q # o => (q \in real' <=> q \in real)
      /\ b => o \in real'
  BY DEF IInv, Typed, Credited
<1>4. Typed'
  <2>1. \A g \in Handlers : JobOK(g)'
    BY <1>1, JobTyped DEF IInv, Typed
  <2>2. order' \in [Orders -> {"none", "pending", "success", "expired", "refund", "used",
                               "disabled"}]
    BY <1>3 DEF IInv, Typed
  <2>3. credits' \in [Orders -> Nat]
    BY <1>3 DEF IInv, Typed
  <2> QED  BY <1>1, <1>2, <2>1, <2>2, <2>3 DEF IInv, Typed
<1>5. JobSays(h)'
  BY <1>1, <1>3, HandlersOrder DEF JobSays, Known, Reports
<1>6. OrderInv(o)'
  <2>1. Crediting(o)' = Crediting(o)
    BY <1>1, SameCrediting DEF Crediting
  <2>2. CreditsAre(o) /\ RecordIs(o) /\ Reported(o) /\ credits[o] = 0
    BY DEF IInv, CreditsAre
  <2>3. CreditsAre(o)'
    BY <1>3, <2>2 DEF CreditsAre
  <2>4. RecordIs(o)'
    BY <1>2, <1>3, <2>2 DEF RecordIs
  <2>5. Reported(o)'
    BY <1>3, <2>1, <2>2 DEF Reported, Known
  <2> QED  BY <2>3, <2>4, <2>5 DEF OrderInv
<1>7. \A q \in Orders : q # o => SameOrder(q)
  BY <1>2, <1>3 DEF IInv, Typed, SameOrder
<1>8. \A g \in Handlers : job[g].step = "revoking" => job[g].order # o
  BY DEF IInv, JobSays
<1> QED
  BY <1>1, <1>3, <1>4, <1>5, <1>6, <1>7, <1>8, HandlerMoves DEF Order

\* An answer that changes nothing else of any order but its causes.
LEMMA AnswerKeeps ==
    ASSUME IInv, NEW h \in Handlers, NEW o \in Orders, NEW b \in BOOLEAN,
           job[h].step # "idle", Order(h) = o, Answer(h, b),
           UNCHANGED <<kind, provider, order, credits, record, real>>,
           causes' \in [Orders -> SUBSET Causes],
           \A q \in Orders : q # o => causes'[q] = causes[q],
           causes[o] \subseteq causes'[o],
           job[h].step = "crediting" => "dropped" \in causes'[o],
           b /\ job[h].report = "paid" =>
              credits[o] > 0 \/ "dropped" \in causes'[o] \/ Crediting(o) \ {h} # {},
           b /\ job[h].report = "refund" =>
              order[o] = "refund" \/ causes'[o] \cap {"early", "swallowed"} # {}
    PROVE  IInv'
<1>1. /\ OthersRest(h) /\ job' = [g \in Handlers |-> job'[g]] /\ JobOK(h)' /\ JobSays(h)'
      /\ job'[h] = Idle
      /\ due' \in [Orders -> SUBSET Reports]
      /\ \A q \in Orders : q # o => due'[q] = due[q]
  BY AnswerMoves DEF IInv
<1>2. Crediting(o)' = Crediting(o) \ {h}
  <2>1. job'[h].step = "idle"
    BY <1>1, IdleFields
  <2> QED  BY <1>1, <2>1 DEF OthersRest, Crediting
<1>3. Typed'
  <2>1. \A g \in Handlers : JobOK(g)'
    BY <1>1, JobTyped DEF IInv, Typed
  <2> QED  BY <1>1, <2>1 DEF IInv, Typed, RecordOK
<1>4. OrderInv(o)'
  BY <1>2, AnsweredOrder DEF Crediting
<1>5. \A q \in Orders : q # o => SameOrder(q)
  BY <1>1 DEF SameOrder
<1>6. job[h].order = o /\ job'[h].order = None /\ job'[h].step # "revoking"
  BY <1>1, IdleFields DEF Order
<1>7. credits'[o] >= credits[o] /\ order'[o] = order[o]
  BY DEF IInv, Typed
<1> QED
  BY <1>1, <1>3, <1>4, <1>5, <1>6, <1>7, HandlerMoves

LEMMA CompleteKeeps ==
    ASSUME IInv, NEW h \in Handlers, Complete(h)
    PROVE  IInv'
<1>0. PICK o \in Orders : o = Order(h)
  <2>1. job[h].step # "idle"
    BY DEF Complete
  <2> QED  BY <2>1, HandlersOrder
<1>1. /\ job[h].step \in {"paid", "manual"} /\ o \in Orders /\ kind[o] = "topup"
      /\ job[h].report \in {"paid", "none"}
      /\ job[h].step = "paid" => provider[o] \in {"paid", "refunded"}
      /\ job[h].step = "manual" => job[h].report = "none"
  BY <1>0, HandlersOrder DEF Complete, JobSays, Known, Reports
<1>2. CASE Open(o)
  <2>1. PICK n \in IF job[h].step = "paid" THEN Commissions ELSE {0} :
           CreditAndGrant(o, job[h].step = "paid", n)
    BY <1>0, <1>2 DEF Complete
  <2>2. n # 0 => job[h].step = "paid"
    BY <2>1
  <2> QED  BY <1>0, <1>1, <1>2, <2>1, <2>2, CreditMoves DEF Complete, Open, world
<1>3. CASE ~Open(o)
  <2>1. /\ Answer(h, TRUE) /\ UNCHANGED <<kind, provider, order, real, record, credits, causes>>
    BY <1>0, <1>3 DEF Complete, world
  <2>2. job[h].report = "paid" => credits[o] > 0
    BY <1>0, <1>1, <1>3 DEF IInv, CreditsAre, Open, JobSays, Reports
  <2> QED  BY <1>0, <1>1, <2>1, <2>2, AnswerKeeps DEF IInv, Typed
<1> QED  BY <1>2, <1>3

\* Order o goes to status st, and its handler h ends with answer b.
StatusStep(h, o, b, st) ==
    /\ Order(h) = o /\ job[h].step # "idle" /\ Answer(h, b)
    /\ UNCHANGED <<kind, provider, real, credits>>
    /\ causes' \in [Orders -> SUBSET Causes]
    /\ \A q \in Orders : q # o => causes'[q] = causes[q]
    /\ order' = [order EXCEPT ![o] = st]
    /\ record' = [q \in Orders |-> record'[q]]
    /\ \A q \in Orders : RecordOK(q)' /\ (q # o => record'[q] = record[q])
    /\ \A g \in Handlers : g # h /\ job[g].step = "revoking" => job[g].order # o
    /\ OrderInv(o)'

LEMMA StatusMoves ==
    ASSUME IInv, NEW h \in Handlers, NEW o \in Orders, NEW b \in BOOLEAN,
           NEW st \in {"none", "pending", "success", "expired", "refund", "used",
                       "disabled"},
           StatusStep(h, o, b, st)
    PROVE  IInv'
<1> USE DEF StatusStep
<1>1. Typed
  BY DEF IInv
<1>2. /\ OthersRest(h) /\ job' = [g \in Handlers |-> job'[g]] /\ JobOK(h)' /\ JobSays(h)'
      /\ job'[h] = Idle
      /\ due' \in [Orders -> SUBSET Reports]
      /\ \A q \in Orders : q # o => due'[q] = due[q]
  BY <1>1, AnswerMoves
<1>3. job'[h].order = None
  BY <1>2, IdleFields
<1>4. Typed'
  <2>1. \A g \in Handlers : JobOK(g)'
    BY <1>2, JobTyped DEF IInv, Typed
  <2> QED  BY <1>2, <2>1 DEF IInv, Typed
<1>5. \A q \in Orders : q # o => SameOrder(q)
  BY <1>1, <1>2 DEF Typed, SameOrder
<1>6. credits'[o] >= credits[o] /\ job[h].order = o
  BY <1>1 DEF Typed, Order
<1> QED  BY <1>2, <1>3, <1>4, <1>5, <1>6, HandlerMoves

LEMMA ExpireKeeps ==
    ASSUME IInv, NEW h \in Handlers, Expire(h)
    PROVE  IInv'
<1>0. PICK o \in Orders : o = Order(h)
  <2>1. job[h].step # "idle"
    BY DEF Expire
  <2> QED  BY <2>1, HandlersOrder
<1>1. /\ job[h].step = "expired" /\ job[h].report = "expired" /\ job[h].order = o
      /\ o \in Orders /\ kind[o] = "topup" /\ provider[o] = "expired"
  BY <1>0, HandlersOrder DEF Expire, JobSays, Known, Reports
<1>2. /\ Answer(h, TRUE) /\ UNCHANGED <<kind, provider, real, record, credits, causes>>
      /\ order' = order \/ (order[o] = "pending" /\ order' = [order EXCEPT ![o] = "expired"])
  BY <1>0 DEF Expire, Open, world
<1>3. CASE order' = order
  BY <1>0, <1>1, <1>2, <1>3, AnswerKeeps DEF IInv, Typed
<1>4. CASE order[o] = "pending" /\ order' = [order EXCEPT ![o] = "expired"]
  <2>1. /\ record' = [q \in Orders |-> record'[q]] /\ \A q \in Orders : RecordOK(q)'
        /\ \A q \in Orders : record'[q] = record[q]
    BY <1>2 DEF IInv, Typed, RecordOK
  <2>2. \A g \in Handlers : job[g].step = "revoking" => job[g].order # o
    BY <1>4 DEF IInv, JobSays
  <2>3. due'[o] \subseteq due[o]
    <3>1. Typed /\ Answer(h, TRUE) /\ TRUE \in BOOLEAN /\ Order(h) = o
      BY <1>0, <1>2 DEF IInv
    <3> QED  BY <3>1, AnswerMoves
  <2>4. OrderInv(o)'
    <3>1. CreditsAre(o) /\ RecordIs(o) /\ Reported(o) /\ order'[o] = "expired"
      BY <1>1, <1>4 DEF IInv, Typed
    <3>2. CreditsAre(o)'
      BY <1>1, <1>2, <1>4, <3>1 DEF CreditsAre
    <3>3. RecordIs(o)'
      BY <1>2, <1>4, <3>1 DEF RecordIs
    <3>4. Reported(o)'
      BY <1>1, <1>2, <2>3, <3>1 DEF Reported, Known
    <3> QED  BY <3>2, <3>3, <3>4 DEF OrderInv
  <2>5. job[h].step # "idle" /\ causes' \in [Orders -> SUBSET Causes]
    BY <1>1, <1>2 DEF IInv, Typed
  <2>6. StatusStep(h, o, TRUE, "expired")
    BY <1>0, <1>2, <1>4, <2>1, <2>2, <2>4, <2>5 DEF StatusStep
  <2> QED  BY <2>6, StatusMoves
<1> QED  BY <1>2, <1>3, <1>4

LEMMA ChargeSuccessKeeps ==
    ASSUME IInv, NEW h \in Handlers, ChargeSuccess(h)
    PROVE  IInv'
<1>0. PICK o \in Orders : o = Order(h)
  <2>1. job[h].step # "idle"
    BY DEF ChargeSuccess
  <2> QED  BY <2>1, HandlersOrder
<1>1. /\ job[h].step = "paid" /\ job[h].report = "paid" /\ o \in Orders /\ kind[o] = "charge"
  BY <1>0, HandlersOrder DEF ChargeSuccess, JobSays, Reports
<1>2. CASE Open(o)
  <2>1. PICK n \in Commissions : CreditAndGrant(o, TRUE, n)
    BY <1>0, <1>2 DEF ChargeSuccess
  <2> QED  BY <1>0, <1>1, <1>2, <2>1, CreditMoves DEF ChargeSuccess, Open, world
<1>3. CASE ~Open(o)
  <2>1. /\ Answer(h, FALSE) /\ UNCHANGED <<kind, provider, order, real, record, credits, causes>>
    BY <1>0, <1>3 DEF ChargeSuccess, world
  <2> QED  BY <1>0, <1>1, <2>1, AnswerKeeps DEF IInv, Typed
<1> QED  BY <1>2, <1>3

LEMMA RefundReadsKeeps ==
    ASSUME IInv, NEW h \in Handlers, RefundReads(h)
    PROVE  IInv'
<1>0. PICK o \in Orders : o = Order(h)
  <2>1. job[h].step # "idle"
    BY DEF RefundReads
  <2> QED  BY <2>1, HandlersOrder
<1>1. /\ job[h].step = "refund" /\ job[h].report = "refund" /\ job[h].order = o
      /\ kind[o] = "charge" /\ provider[o] = "refunded" /\ JobOK(h)
  BY <1>0, HandlersOrder DEF RefundReads, JobSays, Known, Reports
<1>2. UNCHANGED <<kind, provider, order, real, record, credits>>
  BY DEF RefundReads, world
<1>3. CASE Refundable(o)
  <2>1. PICK q, t, g : job' = [job EXCEPT ![h].step = "revoking", ![h].quota = q, ![h].topup = t,
                                          ![h].gift = g]
    <3>1. job' = [job EXCEPT ![h].step = "revoking",
                    ![h].quota = Greater(0, Lesser(Amount, account[Buyer].quota)),
                    ![h].topup = Greater(0, Lesser(Amount, account[Buyer].topup)),
                    ![h].gift = IF record[o].status = "granted"
                                THEN Greater(0, Lesser(record[o].quota, account[Inviter].quota))
                                ELSE 0]
      BY <1>0, <1>3 DEF RefundReads
    <3> QED  BY <3>1, Zenon
  <2>2. /\ OthersRest(h) /\ job' = [f \in Handlers |-> job'[f]]
        /\ job'[h] = [step |-> "revoking", order |-> job[h].order, report |-> job[h].report,
                      quota |-> q, topup |-> t, gift |-> g,
                      level |-> job[h].level, status |-> job[h].status]
    BY <1>1, <2>1 DEF IInv, Typed, OthersRest, JobOK
  <2>3. /\ JobOK(h)' /\ job'[h].step = "revoking" /\ job'[h].order = o
        /\ job'[h].report = "refund"
    BY <1>1, <2>2 DEF JobOK, Steps
  <2>4. UNCHANGED <<due, causes>>
    BY <1>0, <1>3 DEF RefundReads
  <2>5. Typed'
    <3>1. \A f \in Handlers : JobOK(f)'
      BY <2>2, <2>3, JobTyped DEF IInv, Typed
    <3> QED  BY <1>2, <2>2, <2>4, <3>1 DEF IInv, Typed, RecordOK
  <2>6. JobSays(h)'
    BY <1>1, <1>2, <1>3, <2>3 DEF JobSays, Known, Refundable, Reports
  <2>7. OrderInv(o)'
    <3>1. Crediting(o)' = Crediting(o)
      BY <1>1, <2>2, <2>3, SameCrediting DEF Crediting
    <3> QED  BY <1>2, <2>4, <3>1, OrderRests DEF IInv, OrderInv, SameOrder
  <2>8. \A f \in Handlers : job[f].step = "revoking" => job[f].order # o
    BY <1>0 DEF RefundReads, RowLocked
  <2>9. credits'[o] >= credits[o] /\ \A p \in Orders : SameOrder(p)
    BY <1>2, <2>4 DEF IInv, Typed, SameOrder
  <2> QED  BY <1>1, <1>2, <2>2, <2>3, <2>5, <2>6, <2>7, <2>8, <2>9, HandlerMoves
<1>4. CASE ~Refundable(o)
  <2>1. /\ Answer(h, TRUE) /\ TRUE \in BOOLEAN
        /\ IF order[o] = "pending" THEN causes' = [causes EXCEPT ![o] = @ \cup {"early"}]
           ELSE causes' = causes
    BY <1>0, <1>4 DEF RefundReads, Open, Blame
  <2>2. /\ causes' \in [Orders -> SUBSET Causes]
        /\ \A q \in Orders : q # o => causes'[q] = causes[q]
        /\ causes[o] \subseteq causes'[o]
        /\ order[o] = "pending" => "early" \in causes'[o]
    BY <2>1 DEF IInv, Typed, Causes
  <2>3. order[o] = "refund" \/ "early" \in causes'[o]
    BY <1>1, <1>4, <2>2 DEF IInv, CreditsAre, Refundable
  <2> QED  BY <1>0, <1>1, <1>2, <2>1, <2>2, <2>3, AnswerKeeps
<1> QED  BY <1>3, <1>4

LEMMA ReversedRecord ==
    ASSUME NEW r, NEW n, "status" \in DOMAIN r
    PROVE  Reversed(r, n).status = "reversed" /\ DOMAIN Reversed(r, n) = DOMAIN r
  BY DEF Reversed

LEMMA RefundCommitsKeeps ==
    ASSUME IInv, NEW h \in Handlers, RefundCommits(h)
    PROVE  IInv'
<1>0. PICK o \in Orders : o = Order(h)
  <2>1. job[h].step # "idle"
    BY DEF RefundCommits
  <2> QED  BY <2>1, HandlersOrder
<1>1. /\ job[h].step = "revoking" /\ job[h].report = "refund" /\ job[h].order = o
      /\ kind[o] = "charge" /\ order[o] = "success"
  BY <1>0, HandlersOrder DEF RefundCommits, JobSays, Known
<1>2. /\ Answer(h, TRUE) /\ order' = [order EXCEPT ![o] = "refund"]
      /\ UNCHANGED <<kind, provider, real, credits, causes>>
  BY <1>0 DEF RefundCommits, world
<1>3. /\ record' = [q \in Orders |-> record'[q]] /\ \A q \in Orders : RecordOK(q)'
      /\ \A q \in Orders : q # o => record'[q] = record[q]
      /\ record'[o].status # "granted"
  <2>1. CASE record[o].status = "granted"
    <3>1. record' = [record EXCEPT ![o] = Reversed(record[o], job[h].gift)]
      BY <1>0, <2>1 DEF RefundCommits, IInv, Typed
    <3>2. /\ Reversed(record[o], job[h].gift).status = "reversed"
          /\ "status" \in DOMAIN Reversed(record[o], job[h].gift)
      BY ReversedRecord DEF IInv, Typed, RecordOK
    <3> QED  BY <3>1, <3>2 DEF IInv, Typed, RecordOK
  <2>2. CASE record[o].status # "granted"
    BY <1>0, <2>2 DEF RefundCommits, IInv, Typed, RecordOK
  <2> QED  BY <2>1, <2>2
<1>4. \A g \in Handlers : g # h /\ job[g].step = "revoking" => job[g].order # o
  BY <1>1 DEF IInv, OneRevoker
<1>5. OrderInv(o)'
  <2>1. CreditsAre(o) /\ Reported(o) /\ order'[o] = "refund"
    BY <1>2 DEF IInv, Typed
  <2>2. CreditsAre(o)'
    BY <1>1, <1>2, <2>1 DEF CreditsAre
  <2>3. RecordIs(o)'
    BY <1>3, <2>1 DEF RecordIs
  <2>4. credits[o] > 0 /\ due'[o] \subseteq due[o]
    <3>1. Typed /\ Answer(h, TRUE) /\ TRUE \in BOOLEAN /\ Order(h) = o
      BY <1>0, <1>2 DEF IInv
    <3>2. due'[o] \subseteq due[o]
      BY <3>1, AnswerMoves
    <3> QED  BY <1>1, <2>1, <3>2 DEF CreditsAre
  <2>5. Reported(o)'
    BY <1>2, <2>1, <2>4 DEF Reported, Known
  <2> QED  BY <2>2, <2>3, <2>5 DEF OrderInv
<1>6. job[h].step # "idle" /\ causes' \in [Orders -> SUBSET Causes]
  BY <1>1, <1>2 DEF IInv, Typed
<1>7. StatusStep(h, o, TRUE, "refund")
  BY <1>0, <1>2, <1>3, <1>4, <1>5, <1>6 DEF StatusStep
<1> QED  BY <1>7, StatusMoves

LEMMA EditSavesKeeps ==
    ASSUME IInv, NEW h \in Handlers, EditSaves(h)
    PROVE  IInv'
<1>0. PICK o \in Orders : o = Order(h)
  <2>1. job[h].step # "idle"
    BY DEF EditSaves
  <2> QED  BY <2>1, HandlersOrder
<1>1. /\ job[h].step = "editing" /\ job[h].order = o /\ kind[o] = "code"
      /\ job[h].status \in CodeStatuses
  BY <1>0, HandlersOrder DEF EditSaves, JobSays
<1>2. /\ Answer(h, FALSE) /\ order' = [order EXCEPT ![o] = job[h].status]
      /\ UNCHANGED <<kind, provider, due, real, record, credits>>
      /\ IF (order[o] = "used") = (job[h].status = "used") THEN causes' = causes
         ELSE causes' = [causes EXCEPT ![o] = @ \cup {"edited"}]
  BY <1>0 DEF EditSaves, Answer, Blame, world
<1>3. /\ causes' \in [Orders -> SUBSET Causes]
      /\ \A q \in Orders : q # o => causes'[q] = causes[q]
      /\ causes[o] \subseteq causes'[o]
      /\ (order[o] = "used" <=> job[h].status = "used") \/ "edited" \in causes'[o]
      /\ order'[o] = job[h].status
  BY <1>2 DEF IInv, Typed, Causes
<1>4. /\ record' = [q \in Orders |-> record'[q]] /\ \A q \in Orders : RecordOK(q)'
      /\ \A q \in Orders : record'[q] = record[q]
  BY <1>2 DEF IInv, Typed, RecordOK
<1>5. \A g \in Handlers : job[g].step = "revoking" => job[g].order # o
  BY <1>1 DEF IInv, JobSays, Known
<1>6. OrderInv(o)'
  <2>1. CreditsAre(o) /\ RecordIs(o) /\ Reported(o)
    BY DEF IInv
  <2>2. CreditsAre(o)'
    BY <1>1, <1>2, <1>3, <2>1 DEF CreditsAre
  <2>3. RecordIs(o)'
    BY <1>1, <1>2, <2>1 DEF RecordIs, CreditsAre, CodeStatuses
  <2>4. Reported(o)'
    BY <1>1, <1>2, <2>1 DEF Reported, Known
  <2> QED  BY <2>2, <2>3, <2>4 DEF OrderInv
<1>7. job[h].step # "idle"
  BY <1>1
<1>8. StatusStep(h, o, FALSE, job[h].status)
  BY <1>0, <1>2, <1>3, <1>4, <1>5, <1>6, <1>7 DEF StatusStep
<1>9. /\ FALSE \in BOOLEAN
      /\ job[h].status \in {"none", "pending", "success", "expired", "refund", "used", "disabled"}
  BY <1>1 DEF CodeStatuses
<1> QED  BY <1>8, <1>9, StatusMoves

LEMMA CryptoFindKeeps ==
    ASSUME IInv, NEW h \in Handlers, CryptoFind(h)
    PROVE  IInv'
<1>0. PICK o \in Orders : o = Order(h)
  <2>1. job[h].step # "idle"
    BY DEF CryptoFind
  <2> QED  BY <2>1, HandlersOrder
<1>1. /\ job[h].step = "paid" /\ job[h].report = "paid" /\ job[h].order = o
      /\ kind[o] = "crypto" /\ Known(o, "paid")
  BY <1>0, HandlersOrder DEF CryptoFind, JobSays, Reports
<1>2. UNCHANGED <<kind, provider, order, real, record, credits, causes>>
  BY DEF CryptoFind, world
<1>3. CASE order[o] = "none"
  <2>1. Go(h, "inserting") /\ due' = due
    BY <1>0, <1>3 DEF CryptoFind
  <2>2. /\ OthersRest(h) /\ job' = [g \in Handlers |-> job'[g]] /\ JobOK(h)'
        /\ job'[h].step = "inserting" /\ job'[h].order = o /\ job'[h].report = "paid"
    BY <1>1, <2>1, GoMoves DEF IInv, Steps
  <2>3. Typed'
    <3>1. \A g \in Handlers : JobOK(g)'
      BY <2>2, JobTyped DEF IInv, Typed
    <3> QED  BY <1>2, <2>1, <2>2, <3>1 DEF IInv, Typed, RecordOK
  <2>4. JobSays(h)'
    BY <1>1, <1>2, <2>2 DEF JobSays, Known, Reports
  <2>5. OrderInv(o)'
    <3>1. Crediting(o)' = Crediting(o)
      BY <1>1, <2>2, SameCrediting DEF Crediting
    <3> QED  BY <1>2, <2>1, <3>1, OrderRests DEF IInv, OrderInv, SameOrder
  <2>6. credits'[o] >= credits[o] /\ \A q \in Orders : SameOrder(q)
    BY <1>2, <2>1 DEF IInv, Typed, SameOrder
  <2> QED  BY <1>1, <1>2, <2>2, <2>3, <2>4, <2>5, <2>6, HandlerMoves
<1>4. CASE order[o] # "none"
  <2>1. Answer(h, TRUE) /\ TRUE \in BOOLEAN
    BY <1>0, <1>4 DEF CryptoFind
  <2>2. credits[o] > 0 \/ "dropped" \in causes'[o] \/ Crediting(o) \ {h} # {}
    BY <1>1, <1>2, <1>4 DEF IInv, CreditsAre, Crediting
  <2>3. causes' \in [Orders -> SUBSET Causes]
    BY <1>2 DEF IInv, Typed
  <2> QED  BY <1>0, <1>1, <1>2, <2>1, <2>2, <2>3, AnswerKeeps
<1> QED  BY <1>3, <1>4

LEMMA CryptoInsertKeeps ==
    ASSUME IInv, NEW h \in Handlers, CryptoInsert(h)
    PROVE  IInv'
<1>0. PICK o \in Orders : o = Order(h)
  <2>1. job[h].step # "idle"
    BY DEF CryptoInsert
  <2> QED  BY <2>1, HandlersOrder
<1>1. /\ job[h].step = "inserting" /\ job[h].report = "paid" /\ job[h].order = o
      /\ kind[o] = "crypto" /\ Known(o, "paid")
  BY <1>0, HandlersOrder DEF CryptoInsert, JobSays
<1>2. /\ UNCHANGED <<kind, provider, due, record, credits>>
      /\ order' = [order EXCEPT ![o] = "success"] /\ real' = real \cup {o}
      /\ Go(h, "crediting")
      /\ IF order[o] = "none" THEN causes' = causes
         ELSE causes' = [causes EXCEPT ![o] = @ \cup {"race"}]
  BY <1>0 DEF CryptoInsert, Blame, world
<1>3. /\ OthersRest(h) /\ job' = [g \in Handlers |-> job'[g]] /\ JobOK(h)'
      /\ job'[h].step = "crediting" /\ job'[h].order = o /\ job'[h].report = "paid"
  BY <1>1, <1>2, GoMoves DEF IInv, Steps
<1>4. /\ causes' \in [Orders -> SUBSET Causes]
      /\ \A q \in Orders : q # o => causes'[q] = causes[q]
      /\ causes[o] \subseteq causes'[o]
      /\ order[o] = "none" \/ "race" \in causes'[o]
      /\ order'[o] = "success"
  BY <1>2 DEF IInv, Typed, Causes
<1>5. Typed'
  <2>1. \A g \in Handlers : JobOK(g)'
    BY <1>3, JobTyped DEF IInv, Typed
  <2>2. order' \in [Orders -> {"none", "pending", "success", "expired", "refund", "used",
                               "disabled"}]
    BY <1>2 DEF IInv, Typed
  <2> QED  BY <1>2, <1>3, <1>4, <2>1, <2>2 DEF IInv, Typed, RecordOK
<1>6. JobSays(h)'
  BY <1>1, <1>2, <1>3 DEF JobSays, Known, Reports
<1>7. OrderInv(o)'
  <2>1. Crediting(o)' = Crediting(o) \cup {h}
    BY <1>3 DEF OthersRest, Crediting
  <2>2. CreditsAre(o) /\ RecordIs(o) /\ Reported(o)
    BY DEF IInv
  <2>3. CreditsAre(o)'
    BY <1>1, <1>2, <1>4, <2>1, <2>2 DEF CreditsAre
  <2>4. RecordIs(o)'
    BY <1>1, <1>2, <2>2 DEF RecordIs, CreditsAre
  <2>5. Reported(o)'
    BY <1>1, <1>2, <2>1, <2>2 DEF Reported, Known
  <2> QED  BY <2>3, <2>4, <2>5 DEF OrderInv
<1>8. \A q \in Orders : q # o => SameOrder(q)
  BY <1>2, <1>4 DEF IInv, Typed, SameOrder
<1>9. /\ credits'[o] >= credits[o] /\ job[h].step # "idle"
      /\ \A g \in Handlers : job[g].step = "revoking" => job[g].order # o
  BY <1>1, <1>2 DEF IInv, Typed, JobSays, Known
<1> QED  BY <1>1, <1>2, <1>3, <1>5, <1>6, <1>7, <1>8, <1>9, HandlerMoves

LEMMA CryptoCreditKeeps ==
    ASSUME IInv, NEW h \in Handlers, CryptoCredit(h)
    PROVE  IInv'
<1>0. PICK o \in Orders : o = Order(h)
  <2>1. job[h].step # "idle"
    BY DEF CryptoCredit
  <2> QED  BY <2>1, HandlersOrder
<1>1. /\ job[h].step = "crediting" /\ job[h].report = "paid" /\ job[h].order = o
      /\ kind[o] = "crypto" /\ Known(o, "paid") /\ h \in Crediting(o)
  BY <1>0, HandlersOrder DEF CryptoCredit, JobSays, Crediting
<1>2. /\ UNCHANGED <<kind, provider, due, order, real, record, causes>>
      /\ credits' = [credits EXCEPT ![o] = @ + 1]
      /\ Go(h, "recalc")
  BY <1>0 DEF CryptoCredit, world
<1>3. /\ OthersRest(h) /\ job' = [g \in Handlers |-> job'[g]] /\ JobOK(h)'
      /\ job'[h].step = "recalc" /\ job'[h].order = o /\ job'[h].report = "paid"
  BY <1>1, <1>2, GoMoves DEF IInv, Steps
<1>4. /\ credits' \in [Orders -> Nat] /\ credits'[o] = credits[o] + 1 /\ credits[o] \in Nat
      /\ \A q \in Orders : q # o => credits'[q] = credits[q]
  BY <1>2 DEF IInv, Typed
<1>5. Typed'
  <2>1. \A g \in Handlers : JobOK(g)'
    BY <1>3, JobTyped DEF IInv, Typed
  <2> QED  BY <1>2, <1>3, <1>4, <2>1 DEF IInv, Typed, RecordOK
<1>6. JobSays(h)'
  BY <1>1, <1>2, <1>3, <1>4 DEF JobSays, Known, Reports
<1>7. OrderInv(o)'
  <2>1. Crediting(o)' = Crediting(o) \ {h}
    BY <1>3 DEF OthersRest, Crediting
  <2>2. CreditsAre(o) /\ RecordIs(o) /\ Reported(o)
    BY DEF IInv
  <2>3. CreditsAre(o)'
    BY <1>1, <1>2, <1>4, <2>1, <2>2 DEF CreditsAre
  <2>4. RecordIs(o)'
    BY <1>2, <2>2 DEF RecordIs
  <2>5. Reported(o)'
    BY <1>1, <1>2, <1>4, <2>2 DEF Reported, Known
  <2> QED  BY <2>3, <2>4, <2>5 DEF OrderInv
<1>8. \A q \in Orders : q # o => SameOrder(q)
  BY <1>2, <1>4 DEF SameOrder
<1>9. /\ credits'[o] >= credits[o] /\ job[h].step # "idle"
      /\ \A g \in Handlers : job[g].step = "revoking" => job[g].order # o
  BY <1>1, <1>4 DEF IInv, JobSays, Known
<1> QED  BY <1>1, <1>2, <1>3, <1>5, <1>6, <1>7, <1>8, <1>9, HandlerMoves

LEMMA RedeemKeeps ==
    ASSUME IInv, NEW o \in Orders, Redeem(o)
    PROVE  IInv'
<1>1. /\ kind[o] = "code" /\ order[o] = "pending"
      /\ UNCHANGED <<kind, provider, due, real, record, job, causes>>
      /\ order' = [order EXCEPT ![o] = "used"]
      /\ credits' = [credits EXCEPT ![o] = @ + 1]
  BY DEF Redeem, Open, Credited, world
<1>2. /\ credits' \in [Orders -> Nat] /\ credits'[o] = credits[o] + 1 /\ credits[o] \in Nat
      /\ order' \in [Orders -> {"none", "pending", "success", "expired", "refund", "used",
                                "disabled"}]
      /\ order'[o] = "used"
      /\ \A q \in Orders : q # o => credits'[q] = credits[q] /\ order'[q] = order[q]
      /\ \A q \in Orders : credits'[q] >= credits[q]
  BY <1>1 DEF IInv, Typed
<1>3. Typed'
  BY <1>1, <1>2 DEF IInv, Typed, RecordOK, JobOK
<1>4. ASSUME NEW h \in Handlers PROVE JobSays(h)'
  <2>1. JobOK(h) /\ JobSays(h) /\ \A q \in Orders : credits[q] \in Nat /\ credits'[q] \in Nat
    BY <1>2 DEF IInv, Typed
  <2>2. job[h].step = "revoking" => order'[job[h].order] = order[job[h].order]
    BY <1>1, <1>2, <2>1 DEF JobSays, Known, JobOK
  <2> QED  BY <1>1, <1>2, <2>1, <2>2, JobRests DEF JobOK
<1>5. OneRevoker'
  BY <1>1 DEF IInv, OneRevoker
<1>6. ASSUME NEW q \in Orders PROVE OrderInv(q)'
  <2>1. Crediting(q)' = Crediting(q)
    BY <1>1 DEF Crediting
  <2>2. CASE q # o
    BY <1>1, <1>2, <2>1, <2>2, OrderRests DEF IInv, OrderInv, SameOrder
  <2>3. CASE q = o
    <3>1. CreditsAre(o) /\ RecordIs(o) /\ Reported(o)
      BY DEF IInv
    <3>2. CreditsAre(o)' /\ RecordIs(o)'
      BY <1>1, <1>2, <3>1 DEF CreditsAre, CodeStatuses, RecordIs
    <3>3. Reported(o)'
      BY <1>1, <1>2, <3>1 DEF Reported, Known
    <3> QED  BY <2>3, <3>2, <3>3 DEF OrderInv
  <2> QED  BY <2>2, <2>3
<1> QED  BY <1>3, <1>4, <1>5, <1>6 DEF IInv, OrderInv

LEMMA RecalcKeeps ==
    ASSUME IInv, NEW h \in Handlers, RecalcReads(h) \/ RecalcWrites(h)
    PROVE  IInv'
<1>0. PICK o \in Orders : o = Order(h)
  <2>1. job[h].step # "idle"
    BY DEF RecalcReads, RecalcWrites
  <2> QED  BY <2>1, HandlersOrder
<1>1. /\ job[h].step \in {"recalc", "leveling"} /\ job[h].order = o /\ JobOK(h)
      /\ credits[o] > 0 /\ job[h].report # "refund" /\ Known(o, job[h].report)
      /\ job[h].report # "expired"
  BY <1>0, HandlersOrder DEF RecalcReads, RecalcWrites, JobSays
<1>2. UNCHANGED <<kind, provider, order, real, record, credits, causes>>
  BY DEF RecalcReads, RecalcWrites, world
<1>3. CASE Answer(h, TRUE)
  <2>1. causes' \in [Orders -> SUBSET Causes] /\ TRUE \in BOOLEAN
    BY <1>2 DEF IInv, Typed
  <2> QED  BY <1>0, <1>1, <1>2, <1>3, <2>1, AnswerKeeps
<1>4. ASSUME NEW l, job' = [job EXCEPT ![h].step = "leveling", ![h].level = l], due' = due
      PROVE  IInv'
  <2>1. /\ OthersRest(h) /\ job' = [g \in Handlers |-> job'[g]]
        /\ job'[h] = [step |-> "leveling", order |-> job[h].order, report |-> job[h].report,
                      quota |-> job[h].quota, topup |-> job[h].topup, gift |-> job[h].gift,
                      level |-> l, status |-> job[h].status]
    BY <1>1, <1>4 DEF IInv, Typed, OthersRest, JobOK
  <2>2. /\ JobOK(h)' /\ job'[h].step = "leveling" /\ job'[h].order = o
        /\ job'[h].report = job[h].report
    BY <1>1, <2>1 DEF JobOK, Steps
  <2>3. Typed'
    <3>1. \A g \in Handlers : JobOK(g)'
      BY <2>1, <2>2, JobTyped DEF IInv, Typed
    <3> QED  BY <1>2, <1>4, <2>1, <3>1 DEF IInv, Typed, RecordOK
  <2>4. JobSays(h)'
    BY <1>1, <1>2, <2>2 DEF JobSays, Known, Reports
  <2>5. OrderInv(o)'
    <3>1. Crediting(o)' = Crediting(o)
      BY <1>1, <2>1, <2>2, SameCrediting DEF Crediting
    <3> QED  BY <1>2, <1>4, <3>1, OrderRests DEF IInv, OrderInv, SameOrder
  <2>6. credits'[o] >= credits[o] /\ \A q \in Orders : SameOrder(q)
    BY <1>2, <1>4 DEF IInv, Typed, SameOrder
  <2> QED  BY <1>1, <1>2, <2>1, <2>2, <2>3, <2>4, <2>5, <2>6, HandlerMoves
<1>5. Answer(h, TRUE) \/ \E l : /\ job' = [job EXCEPT ![h].step = "leveling", ![h].level = l]
                                /\ due' = due
  BY DEF RecalcReads, RecalcWrites
<1> QED  BY <1>3, <1>4, <1>5

LEMMA RefundSwallowedKeeps ==
    ASSUME IInv, NEW h \in Handlers, RefundSwallowed(h)
    PROVE  IInv'
<1>0. PICK o \in Orders : o = Order(h)
  <2>1. job[h].step # "idle"
    BY DEF RefundSwallowed
  <2> QED  BY <2>1, HandlersOrder
<1>1. /\ job[h].step = "refund" /\ job[h].report = "refund" /\ Answer(h, TRUE)
      /\ UNCHANGED <<kind, provider, order, real, record, credits>>
  BY <1>0, HandlersOrder DEF RefundSwallowed, JobSays, Reports, world
<1>2. IF order[o] = "refund" THEN causes' = causes
      ELSE causes' = [causes EXCEPT ![o] = @ \cup {"swallowed"}]
  BY <1>0 DEF RefundSwallowed, Blame
<1>3. /\ causes' \in [Orders -> SUBSET Causes]
      /\ \A q \in Orders : q # o => causes'[q] = causes[q]
      /\ causes[o] \subseteq causes'[o]
      /\ order[o] = "refund" \/ "swallowed" \in causes'[o]
  BY <1>2 DEF IInv, Typed, Causes
<1> QED  BY <1>0, <1>1, <1>3, AnswerKeeps

LEMMA FailKeeps ==
    ASSUME IInv, NEW h \in Handlers, Fail(h)
    PROVE  IInv'
<1>0. PICK o \in Orders : o = Order(h)
  <2>1. job[h].step # "idle"
    BY DEF Fail
  <2> QED  BY <2>1, HandlersOrder
<1>1. /\ job[h].step # "idle" /\ job[h].order = o /\ JobSays(h)
      /\ UNCHANGED <<kind, provider, order, real, record, credits>>
  BY <1>0, HandlersOrder DEF Fail, world
<1>2. PICK b \in BOOLEAN : Answer(h, b) /\ (b => job[h].step \in {"recalc", "leveling"})
  BY DEF Fail
<1>3. IF job[h].step = "crediting" THEN causes' = [causes EXCEPT ![o] = @ \cup {"dropped"}]
      ELSE causes' = causes
  BY <1>0 DEF Fail, Blame
<1>4. /\ causes' \in [Orders -> SUBSET Causes]
      /\ \A q \in Orders : q # o => causes'[q] = causes[q]
      /\ causes[o] \subseteq causes'[o]
      /\ job[h].step = "crediting" => "dropped" \in causes'[o]
  BY <1>3 DEF IInv, Typed, Causes
<1>5. b => credits[o] > 0 /\ job[h].report # "refund"
  BY <1>1, <1>2 DEF JobSays
<1> QED  BY <1>0, <1>1, <1>2, <1>4, <1>5, AnswerKeeps

-----------------------------------------------------------------------------
LEMMA IInvNext == IInv /\ [Next]_vars => IInv'
<1> SUFFICES ASSUME IInv, [Next]_vars PROVE IInv'
  OBVIOUS
<1>1. ASSUME NEW o \in Orders,
             Pay(o) \/ SessionExpires(o) \/ RefundCharge(o) \/ Repeat(o) \/ Redeem(o)
      PROVE  IInv'
  BY <1>1, ProviderActs, RedeemKeeps
<1>2. ASSUME NEW u \in Users, Spend(u) PROVE IInv'
  BY <1>2, SpendKeeps
<1>3. ASSUME NEW h \in Handlers, NEW o \in Orders,
             \/ CompleteManually(h, o) \/ EditReads(h, o)
             \/ \E r \in Reports : Deliver(h, o, r)
      PROVE  IInv'
  BY <1>3, HandlerStarts
<1>4. ASSUME NEW h \in Handlers, Work(h) PROVE IInv'
  BY <1>4, CompleteKeeps, ExpireKeeps, ChargeSuccessKeeps, RefundReadsKeeps, RefundCommitsKeeps,
     CryptoFindKeeps, CryptoInsertKeeps, CryptoCreditKeeps, EditSavesKeeps, RecalcKeeps DEF Work
<1>5. ASSUME NEW h \in Handlers, Fail(h) PROVE IInv'
  BY <1>5, FailKeeps
<1>7. ASSUME NEW h \in Handlers, RefundSwallowed(h) PROVE IInv'
  BY <1>7, RefundSwallowedKeeps
<1>6. CASE UNCHANGED vars
  <2>1. UNCHANGED <<kind, provider, due, order, real, record, job, credits, causes>>
    BY <1>6 DEF vars
  <2>2. Typed'
    BY <2>1 DEF IInv, Typed, JobOK, RecordOK
  <2>3. (\A h \in Handlers : JobSays(h))' /\ OneRevoker'
    BY <2>1 DEF IInv, JobSays, Known, OneRevoker
  <2>4. ASSUME NEW o \in Orders PROVE OrderInv(o)'
    BY <2>1, OrderRests DEF IInv, OrderInv, SameOrder, Crediting
  <2> QED  BY <2>2, <2>3, <2>4 DEF IInv, OrderInv
<1> QED  BY <1>1, <1>2, <1>3, <1>4, <1>5, <1>6, <1>7 DEF Next

LEMMA IInvHolds == Spec => []IInv
  BY IInvInit, IInvNext, PTL DEF Spec

-----------------------------------------------------------------------------
\* However many handlers, processes and orders: an order is credited once at most,
\* unless two processes take the same crypto report or an administrator's edit makes a
\* used code usable again.
THEOREM CreditedOnceHolds == Spec => []CreditedOnce
<1>1. IInv => CreditedOnce
  <2> SUFFICES ASSUME IInv, NEW o \in Orders, causes[o] \cap {"race", "edited"} = {}
               PROVE  credits[o] <= 1
    BY DEF CreditedOnce, IInv, Typed
  <2>1. CreditsAre(o) /\ credits[o] \in Nat /\ kind[o] \in Kinds
    BY DEF IInv, Typed
  <2> QED  BY <2>1 DEF CreditsAre, Kinds
<1> QED  BY <1>1, IInvHolds, PTL

\* A commission stands exactly as long as the payment it was granted for.
THEOREM CommissionHolds == Spec => []CommissionFollowsPayment
<1>1. IInv => CommissionFollowsPayment
  BY DEF IInv, RecordIs, CommissionFollowsPayment
<1> QED  BY <1>1, IInvHolds, PTL

\* A report that is no longer due was handled, whichever handlers failed, but for the
\* three ways that are named.
THEOREM AnsweredHolds == Spec => []AnsweredIsHandled
<1>1. IInv => AnsweredIsHandled
  <2> SUFFICES ASSUME IInv, NEW o \in Orders
               PROVE  /\ provider[o] \in {"paid", "refunded"} /\ Unattended(o, "paid") =>
                            credits[o] > 0 \/ "dropped" \in causes[o]
                      /\ provider[o] = "refunded" /\ Unattended(o, "refund") =>
                            order[o] = "refund" \/ causes[o] \cap {"early", "swallowed"} # {}
    BY DEF AnsweredIsHandled
  <2>1. Reported(o)
    BY DEF IInv
  <2> QED  BY <2>1 DEF Reported, Unattended, Crediting
<1> QED  BY <1>1, IInvHolds, PTL

-----------------------------------------------------------------------------
(* The books.                                                              *)

\* The accounts' amounts; the levels are left open.
AccountOK(u) ==
    /\ {"quota", "topup", "gift"} \subseteq DOMAIN account[u]
    /\ account[u].quota \in Int /\ account[u].topup \in Int /\ account[u].gift \in Int

MoneyTyped ==
    /\ account = [u \in Users |-> account[u]] /\ \A u \in Users : AccountOK(u)
    /\ spent \in [Users -> Int] /\ lost \in [Orders -> Int]

\* What an order's status says of its payment, its commission and its refund.
LedgerOf(o) ==
    /\ {"status", "quota", "reversed"} \subseteq DOMAIN record[o]
    /\ record[o].quota \in Int /\ record[o].reversed \in Int
    /\ record[o].status = "none" => Kept(o) = 0
    /\ record[o].status = "granted" => record[o].reversed = 0
    /\ order[o] # "refund" => lost[o] = 0
    /\ kind[o] = "topup" => (o \in real => order[o] = "success")
    /\ kind[o] = "charge" => (o \in real <=> order[o] \in {"success", "refund"})
    /\ kind[o] = "crypto" => (o \in real <=> order[o] = "success")
    /\ kind[o] = "code" => o \notin real

Quiet == \A o \in Orders : causes[o] \cap {"race", "edited", "dropped"} = {}

\* What a refund under way has read to take back: the payment in full, and no
\* commission that was not granted.
TakesBack(h) ==
    job[h].step = "revoking" =>
        /\ job[h].quota \in Int /\ job[h].topup \in Int /\ job[h].gift \in Int
        /\ record[job[h].order].status # "granted" => job[h].gift = 0
        /\ Quiet => job[h].topup = Amount

\* The orders whose credit has reached the buyer's account.
InBank(o) == order[o] \in {"success", "used"} /\ Crediting(o) = {}
Banked == {o \in Orders : InBank(o)}

KeptBy == [o \in Orders |-> Kept(o)]

Even ==
    /\ account[Buyer].topup = Amount * Cardinality(Banked \cap real)
    /\ account[Buyer].quota + spent[Buyer] = Amount * Cardinality(Banked) + SumFunction(lost)
    /\ account[Inviter].gift = SumFunction(KeptBy)
    /\ account[Inviter].quota + spent[Inviter] = account[Inviter].gift

\* The books are even at every step between a payment and its credit too.
BInv ==
    /\ MoneyTyped
    /\ \A o \in Orders : LedgerOf(o)
    /\ \A h \in Handlers : TakesBack(h)
    /\ Quiet => Even

\* The amounts of the accounts that the books are about.
AmountsRest ==
    /\ account'[Buyer].quota = account[Buyer].quota
    /\ account'[Buyer].topup = account[Buyer].topup
    /\ account'[Inviter].quota = account[Inviter].quota
    /\ account'[Inviter].gift = account[Inviter].gift

LEMMA Times ==
    ASSUME NEW n \in Nat
    PROVE  Amount * (n + 1) = Amount * n + Amount /\ Amount * n \in Nat /\ Amount \in Nat
  BY PaymentsAssumption

LEMMA BankedFinite ==
    IsFiniteSet(Banked) /\ IsFiniteSet(Banked \cap real) /\ IsFiniteSet(Orders)
<1>1. IsFiniteSet(Orders)
  BY PaymentsAssumption
<1>2. Banked \subseteq Orders /\ Banked \cap real \subseteq Orders
  BY DEF Banked
<1> QED  BY <1>1, <1>2, FS_Subset

LEMMA KeptTyped == ASSUME \A o \in Orders : LedgerOf(o) PROVE KeptBy \in [Orders -> Int]
  BY DEF LedgerOf, KeptBy, Kept

LEMMA SumOrders ==
    ASSUME NEW f \in [Orders -> Int], NEW o \in Orders, NEW d \in Int
    PROVE  /\ SumFunction(f) \in Int
           /\ SumFunction([f EXCEPT ![o] = @ + d]) = SumFunction(f) + d
<1>1. IsFiniteSet(Orders)
  BY PaymentsAssumption
<1>2. SumFunction(f) \in Int
  BY <1>1, SumType
<1>3. SumFunction([f EXCEPT ![o] = @ + d]) = SumFunction(f) + d
  BY <1>1, SumChanges
<1> QED  BY <1>2, <1>3

\* A credit moves the buyer's account as it moves the orders in the bank, and the
\* inviter's as the commissions.
LEMMA EvenCredited ==
    ASSUME MoneyTyped, Even, KeptBy \in [Orders -> Int], NEW o \in Orders, o \notin Banked,
           Banked' = Banked \cup {o},
           \/ /\ (Banked \cap real)' = (Banked \cap real) \cup {o}
              /\ account'[Buyer].topup = account[Buyer].topup + Amount
           \/ /\ (Banked \cap real)' = Banked \cap real
              /\ account'[Buyer].topup = account[Buyer].topup,
           NEW n \in Int, KeptBy' = [KeptBy EXCEPT ![o] = @ + n], UNCHANGED <<lost, spent>>,
           account'[Buyer].quota = account[Buyer].quota + Amount,
           account'[Inviter].quota = account[Inviter].quota + n,
           account'[Inviter].gift = account[Inviter].gift + n
    PROVE  Even'
<1>1. /\ Cardinality(Banked) \in Nat /\ Cardinality(Banked') = Cardinality(Banked) + 1
      /\ Cardinality(Banked \cap real) \in Nat
      /\ Cardinality((Banked \cap real) \cup {o}) = Cardinality(Banked \cap real) + 1
  BY BankedFinite, FS_CardinalityType, FS_AddElement
<1>2. SumFunction(KeptBy') = SumFunction(KeptBy) + n /\ SumFunction(KeptBy) \in Int
  <2>1. SumFunction([KeptBy EXCEPT ![o] = @ + n]) = SumFunction(KeptBy) + n
    BY SumOrders
  <2>2. SumFunction(KeptBy) \in Int
    BY SumOrders
  <2> QED  BY <2>1, <2>2
<1>3. SumFunction(lost) \in Int /\ SumFunction(lost') = SumFunction(lost)
  BY SumOrders DEF MoneyTyped
<1>4. /\ account[Buyer].quota \in Int /\ account[Buyer].topup \in Int
      /\ account[Inviter].quota \in Int /\ account[Inviter].gift \in Int
      /\ spent[Buyer] \in Int /\ spent[Inviter] \in Int
  BY PaymentsAssumption DEF MoneyTyped, AccountOK
<1>5. account'[Buyer].topup = Amount * Cardinality((Banked \cap real)')
  <2>1. account[Buyer].topup = Amount * Cardinality(Banked \cap real)
    BY DEF Even
  <2>2. CASE /\ (Banked \cap real)' = (Banked \cap real) \cup {o}
             /\ account'[Buyer].topup = account[Buyer].topup + Amount
    <3>1. Amount * (Cardinality(Banked \cap real) + 1) = Amount * Cardinality(Banked \cap real) + Amount
      BY <1>1, Times
    <3> QED  BY <1>1, <2>1, <2>2, <3>1
  <2>3. CASE /\ (Banked \cap real)' = Banked \cap real
             /\ account'[Buyer].topup = account[Buyer].topup
    BY <2>1, <2>3
  <2> QED  BY <2>2, <2>3
<1>6. account'[Buyer].quota + spent'[Buyer] = Amount * Cardinality(Banked') + SumFunction(lost')
  <2>1. Amount * (Cardinality(Banked) + 1) = Amount * Cardinality(Banked) + Amount
        /\ Amount * Cardinality(Banked) \in Int /\ Amount \in Int
    BY <1>1, Times
  <2>2. account[Buyer].quota + spent[Buyer] = Amount * Cardinality(Banked) + SumFunction(lost)
    BY DEF Even
  <2>3. Amount * Cardinality(Banked') = Amount * Cardinality(Banked) + Amount
    BY <1>1, <2>1
  <2> QED  BY <1>3, <1>4, <2>1, <2>2, <2>3
<1>7. /\ account'[Inviter].gift = SumFunction(KeptBy')
      /\ account'[Inviter].quota + spent'[Inviter] = account'[Inviter].gift
  <2>1. /\ account[Inviter].gift = SumFunction(KeptBy)
        /\ account[Inviter].quota + spent[Inviter] = account[Inviter].gift
    BY DEF Even
  <2> QED  BY <1>2, <1>4, <2>1
<1> QED  BY <1>5, <1>6, <1>7 DEF Even

\* A refund takes the payment back from the books and the accounts, and notes what
\* it could not take.
LEMMA EvenRefunded ==
    ASSUME MoneyTyped, Even, KeptBy \in [Orders -> Int], NEW o \in Banked \cap real,
           Banked' = Banked \ {o}, (Banked \cap real)' = (Banked \cap real) \ {o},
           NEW q \in Int, NEW g \in Int,
           lost' = [lost EXCEPT ![o] = @ + (Amount - q)],
           KeptBy' = [KeptBy EXCEPT ![o] = @ + (-g)], UNCHANGED spent,
           account'[Buyer].quota = account[Buyer].quota - q,
           account'[Buyer].topup = account[Buyer].topup - Amount,
           account'[Inviter].quota = account[Inviter].quota - g,
           account'[Inviter].gift = account[Inviter].gift - g
    PROVE  Even'
<1>0. o \in Orders /\ o \in Banked /\ Amount - q \in Int /\ -g \in Int /\ Amount \in Int
  BY PaymentsAssumption DEF Banked
<1>1. /\ Cardinality(Banked') \in Nat /\ Cardinality(Banked) = Cardinality(Banked') + 1
      /\ Cardinality((Banked \cap real)') \in Nat
      /\ Cardinality(Banked \cap real) = Cardinality((Banked \cap real)') + 1
  <2>1. IsFiniteSet(Banked \ {o}) /\ IsFiniteSet((Banked \cap real) \ {o})
    BY BankedFinite, FS_Subset
  <2>2. /\ Cardinality(Banked \ {o}) \in Nat /\ Cardinality((Banked \cap real) \ {o}) \in Nat
        /\ Cardinality(Banked) \in Nat /\ Cardinality(Banked \cap real) \in Nat
    BY <2>1, BankedFinite, FS_CardinalityType
  <2>3. /\ Cardinality(Banked \ {o}) = Cardinality(Banked) - 1
        /\ Cardinality((Banked \cap real) \ {o}) = Cardinality(Banked \cap real) - 1
    BY <1>0, BankedFinite, FS_RemoveElement
  <2>4. Banked' = Banked \ {o} /\ (Banked \cap real)' = (Banked \cap real) \ {o}
    OBVIOUS
  <2>5. /\ Cardinality(Banked') = Cardinality(Banked \ {o})
        /\ Cardinality((Banked \cap real)') = Cardinality((Banked \cap real) \ {o})
    BY <2>4
  <2> QED  BY <2>2, <2>3, <2>5
<1>2. SumFunction(KeptBy') = SumFunction(KeptBy) + (-g) /\ SumFunction(KeptBy) \in Int
  <2>1. SumFunction([KeptBy EXCEPT ![o] = @ + (-g)]) = SumFunction(KeptBy) + (-g)
    BY <1>0, SumOrders
  <2>2. SumFunction(KeptBy) \in Int
    BY <1>0, SumOrders
  <2> QED  BY <2>1, <2>2
<1>3. SumFunction(lost) \in Int /\ SumFunction(lost') = SumFunction(lost) + (Amount - q)
  <2>1. SumFunction([lost EXCEPT ![o] = @ + (Amount - q)]) = SumFunction(lost) + (Amount - q)
    BY <1>0, SumOrders DEF MoneyTyped
  <2>2. SumFunction(lost) \in Int
    BY <1>0, SumOrders DEF MoneyTyped
  <2> QED  BY <2>1, <2>2
<1>4. /\ account[Buyer].quota \in Int /\ account[Buyer].topup \in Int
      /\ account[Inviter].quota \in Int /\ account[Inviter].gift \in Int
      /\ spent[Buyer] \in Int /\ spent[Inviter] \in Int
  BY PaymentsAssumption DEF MoneyTyped, AccountOK
<1>5. /\ Amount * Cardinality(Banked) = Amount * Cardinality(Banked') + Amount
      /\ Amount * Cardinality(Banked') \in Int
      /\ Amount * Cardinality(Banked \cap real) = Amount * Cardinality((Banked \cap real)') + Amount
      /\ Amount * Cardinality((Banked \cap real)') \in Int
  BY <1>1, Times
<1>6. account'[Buyer].topup = Amount * Cardinality((Banked \cap real)')
  <2>1. account[Buyer].topup = Amount * Cardinality(Banked \cap real)
    BY DEF Even
  <2> QED  BY <1>0, <1>4, <1>5, <2>1
<1>7. account'[Buyer].quota + spent'[Buyer] = Amount * Cardinality(Banked') + SumFunction(lost')
  <2>1. account[Buyer].quota + spent[Buyer] = Amount * Cardinality(Banked) + SumFunction(lost)
    BY DEF Even
  <2> QED  BY <1>0, <1>3, <1>4, <1>5, <2>1
<1>8. /\ account'[Inviter].gift = SumFunction(KeptBy')
      /\ account'[Inviter].quota + spent'[Inviter] = account'[Inviter].gift
  <2>1. /\ account[Inviter].gift = SumFunction(KeptBy)
        /\ account[Inviter].quota + spent[Inviter] = account[Inviter].gift
    BY DEF Even
  <2> QED  BY <1>0, <1>2, <1>4, <2>1
<1> QED  BY <1>6, <1>7, <1>8 DEF Even

LEMMA EvenRests ==
    ASSUME Even, Banked' = Banked, (Banked \cap real)' = Banked \cap real,
           KeptBy' = KeptBy, UNCHANGED <<lost, spent>>, AmountsRest
    PROVE  Even'
  BY DEF Even, AmountsRest

-----------------------------------------------------------------------------
\* The causes that excuse the books are never forgotten.
LEMMA CausesGrow ==
    ASSUME Typed, [Next]_vars
    PROVE  Quiet' => Quiet
<1>1. ASSUME NEW o, NEW c, Blame(o, c) PROVE \A q \in Orders : causes[q] \subseteq causes'[q]
  BY <1>1 DEF Typed, Blame
<1>2. causes' = causes \/ \E o, c : Blame(o, c)
  <2>1. ASSUME NEW o \in Orders,
               Pay(o) \/ SessionExpires(o) \/ RefundCharge(o) \/ Repeat(o) \/ Redeem(o)
        PROVE  causes' = causes
    BY <2>1 DEF Pay, SessionExpires, RefundCharge, Repeat, Redeem
  <2>2. ASSUME NEW u \in Users, Spend(u) PROVE causes' = causes
    BY <2>2 DEF Spend
  <2>3. ASSUME NEW h \in Handlers, NEW o \in Orders,
               \/ CompleteManually(h, o) \/ EditReads(h, o)
               \/ \E r \in Reports : Deliver(h, o, r)
        PROVE  causes' = causes
    BY <2>3 DEF CompleteManually, EditReads, Deliver
  <2>4. ASSUME NEW h \in Handlers,
               \/ Complete(h) \/ Expire(h) \/ ChargeSuccess(h) \/ RefundCommits(h)
               \/ CryptoFind(h) \/ CryptoCredit(h) \/ RecalcReads(h) \/ RecalcWrites(h)
        PROVE  causes' = causes
    BY <2>4 DEF Complete, Expire, ChargeSuccess, RefundCommits, CryptoFind, CryptoCredit,
       RecalcReads, RecalcWrites
  <2>5. ASSUME NEW h \in Handlers,
               \/ RefundReads(h) \/ RefundSwallowed(h) \/ CryptoInsert(h)
               \/ EditSaves(h) \/ Fail(h)
        PROVE  causes' = causes \/ \E o, c : Blame(o, c)
    BY <2>5, Zenon DEF RefundReads, RefundSwallowed, CryptoInsert, EditSaves, Fail
  <2>6. CASE UNCHANGED vars
    BY <2>6 DEF vars
  <2> QED  BY <2>1, <2>2, <2>3, <2>4, <2>5, <2>6 DEF Next, Work
<1>3. \A q \in Orders : causes[q] \subseteq causes'[q]
  BY <1>1, <1>2
<1> QED  BY <1>3 DEF Quiet

LEMMA LedgerRests ==
    ASSUME NEW o \in Orders, LedgerOf(o), kind'[o] = kind[o], order'[o] = order[o],
           record'[o] = record[o], lost'[o] = lost[o], o \in real' <=> o \in real
    PROVE  LedgerOf(o)'
  BY DEF LedgerOf, Kept

LEMMA TakesBackRests ==
    ASSUME NEW g \in Handlers, TakesBack(g), job'[g] = job[g], Quiet' => Quiet,
           job[g].step = "revoking" =>
             record'[job[g].order].status = record[job[g].order].status
    PROVE  TakesBack(g)'
  BY DEF TakesBack

\* A handler that is not crediting before or after its step.
LEMMA CreditingRests ==
    ASSUME NEW h \in Handlers, OthersRest(h), job[h].step # "crediting",
           job'[h].step # "crediting"
    PROVE  \A o \in Orders : Crediting(o)' = Crediting(o)
  BY SameCrediting DEF Crediting

LEMMA NoCrediting ==
    ASSUME IInv, NEW o \in Orders, kind[o] # "crypto"
    PROVE  Crediting(o) = {}
  BY DEF IInv, JobSays, Crediting

\* A step that changes no order, record or amount.
LEMMA BooksRest ==
    ASSUME BInv, Quiet' => Quiet, UNCHANGED <<kind, order, real, record, lost, spent>>,
           MoneyTyped', AmountsRest,
           \A h \in Handlers : TakesBack(h)',
           Quiet' => \A o \in Orders : Crediting(o)' = Crediting(o)
    PROVE  BInv'
<1>1. \A o \in Orders : LedgerOf(o)'
  BY LedgerRests DEF BInv
<1>2. ASSUME Quiet' PROVE Even'
  <2>1. Banked' = Banked
    BY <1>2 DEF Banked, InBank
  <2>2. (Banked \cap real)' = Banked \cap real /\ KeptBy' = KeptBy
    BY <2>1 DEF KeptBy, Kept
  <2> QED  BY <1>2, <2>1, <2>2, EvenRests DEF BInv
<1> QED  BY <1>1, <1>2 DEF BInv

\* A handler's step that changes none either, and is no part of a refund.
HandlerOnly(h) ==
    /\ UNCHANGED <<kind, order, real, record, lost, spent>>
    /\ MoneyTyped' /\ AmountsRest /\ OthersRest(h)
    /\ job'[h].step \notin {"revoking", "crediting"}
    /\ job[h].step = "crediting" => ~Quiet'

LEMMA HandlerRests ==
    ASSUME BInv, Quiet' => Quiet, NEW h \in Handlers, HandlerOnly(h)
    PROVE  BInv'
<1> USE DEF HandlerOnly
<1>1. ASSUME NEW g \in Handlers PROVE TakesBack(g)'
  <2>1. CASE g = h
    BY <2>1 DEF TakesBack
  <2>2. CASE g # h
    BY <2>2, TakesBackRests DEF BInv, OthersRest
  <2> QED  BY <2>1, <2>2
<1>2. Quiet' => \A o \in Orders : Crediting(o)' = Crediting(o)
  BY CreditingRests
<1> QED  BY <1>1, <1>2, BooksRest

LEMMA AccountRests ==
    ASSUME MoneyTyped, UNCHANGED <<account, spent, lost>>
    PROVE  MoneyTyped' /\ AmountsRest
  BY DEF MoneyTyped, AccountOK, AmountsRest

\* A step that changes orders, but neither the bank nor an amount.
LEMMA BankRests ==
    ASSUME BInv, Quiet' => Quiet, \A q \in Orders : LedgerOf(q)',
           \A g \in Handlers : TakesBack(g)', MoneyTyped', AmountsRest, UNCHANGED <<lost, spent>>,
           \A q \in Orders : Kept(q)' = Kept(q),
           Quiet' => \A q \in Orders : InBank(q)' <=> InBank(q),
           \A q \in Orders : InBank(q) => (q \in real' <=> q \in real)
    PROVE  BInv'
<1>1. ASSUME Quiet' PROVE Even'
  <2>1. Banked' = Banked
    BY <1>1 DEF Banked
  <2>2. (Banked \cap real)' = Banked \cap real
    BY <2>1 DEF Banked
  <2>3. KeptBy' = KeptBy
    BY DEF KeptBy
  <2> QED  BY <1>1, <2>1, <2>2, <2>3, EvenRests DEF BInv
<1> QED  BY <1>1 DEF BInv

-----------------------------------------------------------------------------
(* The accounts. *)

\* What a step adds to the amounts of the two accounts.
AccountsMove(bq, bt, iq, ig) ==
    /\ account' = [u \in Users |-> account'[u]] /\ \A u \in Users : AccountOK(u)'
    /\ account'[Buyer].quota = account[Buyer].quota + bq
    /\ account'[Buyer].topup = account[Buyer].topup + bt
    /\ account'[Inviter].quota = account[Inviter].quota + iq
    /\ account'[Inviter].gift = account[Inviter].gift + ig

LEMMA TwoUsers == Buyer \in Users /\ Inviter \in Users /\ Buyer # Inviter
  BY PaymentsAssumption

LEMMA GrantAccounts ==
    ASSUME MoneyTyped, NEW a \in Int, NEW b \in Int, NEW c \in Int,
           account' = [account EXCEPT ![Buyer].quota = @ + a, ![Buyer].topup = @ + b,
                                      ![Inviter].quota = @ + c, ![Inviter].gift = @ + c]
    PROVE  AccountsMove(a, b, c, c)
<1>1. account' = [u \in Users |-> account'[u]]
  BY DEF MoneyTyped
<1>2. \A u \in Users : u # Buyer /\ u # Inviter => account'[u] = account[u]
  BY DEF MoneyTyped
<1>3. account'[Buyer].quota = account[Buyer].quota + a
  BY TwoUsers DEF MoneyTyped, AccountOK
<1>4. account'[Buyer].topup = account[Buyer].topup + b
  BY TwoUsers DEF MoneyTyped, AccountOK
<1>5. /\ account'[Buyer].gift = account[Buyer].gift
      /\ DOMAIN account'[Buyer] = DOMAIN account[Buyer]
  BY TwoUsers DEF MoneyTyped, AccountOK
<1>6. account'[Inviter].quota = account[Inviter].quota + c
  BY TwoUsers DEF MoneyTyped, AccountOK
<1>7. account'[Inviter].gift = account[Inviter].gift + c
  BY TwoUsers DEF MoneyTyped, AccountOK
<1>8. /\ account'[Inviter].topup = account[Inviter].topup
      /\ DOMAIN account'[Inviter] = DOMAIN account[Inviter]
  BY TwoUsers DEF MoneyTyped, AccountOK
<1>9. \A u \in Users : AccountOK(u)
  BY DEF MoneyTyped
<1>10. AccountOK(Buyer)' /\ AccountOK(Inviter)'
  BY <1>3, <1>4, <1>5, <1>6, <1>7, <1>8, <1>9, TwoUsers DEF AccountOK
<1>11. \A u \in Users : AccountOK(u)'
  BY <1>2, <1>9, <1>10 DEF AccountOK
<1> QED  BY <1>1, <1>3, <1>4, <1>6, <1>7, <1>11 DEF AccountsMove

LEMMA RefundAccounts ==
    ASSUME MoneyTyped, NEW a \in Int, NEW b \in Int, NEW c \in Int,
           account' = [account EXCEPT ![Buyer].quota = @ - a, ![Buyer].topup = @ - b,
                                      ![Inviter].quota = @ - c, ![Inviter].gift = @ - c]
    PROVE  /\ account' = [u \in Users |-> account'[u]] /\ \A u \in Users : AccountOK(u)'
           /\ account'[Buyer].quota = account[Buyer].quota - a
           /\ account'[Buyer].topup = account[Buyer].topup - b
           /\ account'[Inviter].quota = account[Inviter].quota - c
           /\ account'[Inviter].gift = account[Inviter].gift - c
<1>1. account' = [u \in Users |-> account'[u]]
  BY DEF MoneyTyped
<1>2. \A u \in Users : u # Buyer /\ u # Inviter => account'[u] = account[u]
  BY DEF MoneyTyped
<1>3. account'[Buyer].quota = account[Buyer].quota - a
  BY TwoUsers DEF MoneyTyped, AccountOK
<1>4. account'[Buyer].topup = account[Buyer].topup - b
  BY TwoUsers DEF MoneyTyped, AccountOK
<1>5. /\ account'[Buyer].gift = account[Buyer].gift
      /\ DOMAIN account'[Buyer] = DOMAIN account[Buyer]
  BY TwoUsers DEF MoneyTyped, AccountOK
<1>6. account'[Inviter].quota = account[Inviter].quota - c
  BY TwoUsers DEF MoneyTyped, AccountOK
<1>7. account'[Inviter].gift = account[Inviter].gift - c
  BY TwoUsers DEF MoneyTyped, AccountOK
<1>8. /\ account'[Inviter].topup = account[Inviter].topup
      /\ DOMAIN account'[Inviter] = DOMAIN account[Inviter]
  BY TwoUsers DEF MoneyTyped, AccountOK
<1>9. \A u \in Users : AccountOK(u)
  BY DEF MoneyTyped
<1>10. AccountOK(Buyer)' /\ AccountOK(Inviter)'
  BY <1>3, <1>4, <1>5, <1>6, <1>7, <1>8, <1>9, TwoUsers DEF AccountOK
<1>11. \A u \in Users : AccountOK(u)'
  BY <1>2, <1>9, <1>10 DEF AccountOK
<1> QED  BY <1>1, <1>3, <1>4, <1>6, <1>7, <1>11 DEF AccountsMove

LEMMA CryptoAccounts ==
    ASSUME MoneyTyped, NEW a \in Int,
           account' = [account EXCEPT ![Buyer].quota = @ + a, ![Buyer].topup = @ + a]
    PROVE  AccountsMove(a, a, 0, 0)
<1>1. account' = [u \in Users |-> account'[u]]
  BY DEF MoneyTyped
<1>2. \A u \in Users : u # Buyer /\ u # Inviter => account'[u] = account[u]
  BY DEF MoneyTyped
<1>3. account'[Buyer].quota = account[Buyer].quota + a
  BY TwoUsers DEF MoneyTyped, AccountOK
<1>4. account'[Buyer].topup = account[Buyer].topup + a
  BY TwoUsers DEF MoneyTyped, AccountOK
<1>5. /\ account'[Buyer].gift = account[Buyer].gift
      /\ DOMAIN account'[Buyer] = DOMAIN account[Buyer]
  BY TwoUsers DEF MoneyTyped, AccountOK
<1>6. account'[Inviter] = account[Inviter]
  BY TwoUsers DEF MoneyTyped
<1>7. \A u \in Users : AccountOK(u)
  BY DEF MoneyTyped
<1>8. AccountOK(Buyer)'
  BY <1>3, <1>4, <1>5, <1>7, TwoUsers DEF AccountOK
<1>9. \A u \in Users : AccountOK(u)'
  BY <1>2, <1>6, <1>7, <1>8 DEF AccountOK
<1>10. account[Inviter].quota \in Int /\ account[Inviter].gift \in Int
  BY <1>7, TwoUsers DEF AccountOK
<1>11. /\ account'[Inviter].quota = account[Inviter].quota + 0
       /\ account'[Inviter].gift = account[Inviter].gift + 0
  <2>1. \A n \in Int : n + 0 = n
    OBVIOUS
  <2> QED  BY <1>6, <1>10, <2>1, Zenon
<1> QED  BY <1>1, <1>3, <1>4, <1>9, <1>11 DEF AccountsMove

LEMMA RedeemAccounts ==
    ASSUME MoneyTyped, NEW a \in Int, account' = [account EXCEPT ![Buyer].quota = @ + a]
    PROVE  AccountsMove(a, 0, 0, 0)
  BY TwoUsers DEF MoneyTyped, AccountOK, AccountsMove

LEMMA LevelAccounts ==
    ASSUME MoneyTyped, NEW l, account' = [account EXCEPT ![Buyer].level = l],
           UNCHANGED <<spent, lost>>
    PROVE  MoneyTyped' /\ AmountsRest
  BY TwoUsers DEF MoneyTyped, AccountOK, AmountsRest

-----------------------------------------------------------------------------
(* Steps that move money. *)

\* A credit: the order enters the bank, the amount the account, and the commission
\* the inviter's account and the books.
LEMMA CreditBooks ==
    ASSUME BInv, Quiet, NEW o \in Orders, ~InBank(o), InBank(o)',
           \A q \in Orders : q # o => /\ InBank(q)' <=> InBank(q)
                                      /\ q \in real' <=> q \in real
                                      /\ Kept(q)' = Kept(q),
           NEW n \in Int, Kept(o)' = Kept(o) + n, UNCHANGED <<lost, spent>>,
           NEW p, AccountsMove(Amount, p, n, n),
           \/ o \in real' /\ p = Amount
           \/ o \notin real' /\ p = 0
    PROVE  Even'
<1>1. o \notin Banked /\ Banked' = Banked \cup {o}
  BY DEF Banked
<1>2. KeptBy \in [Orders -> Int]
  BY KeptTyped DEF BInv
<1>3. KeptBy' = [KeptBy EXCEPT ![o] = @ + n]
  BY DEF KeptBy
<1>4. /\ account'[Buyer].quota = account[Buyer].quota + Amount
      /\ account'[Inviter].quota = account[Inviter].quota + n
      /\ account'[Inviter].gift = account[Inviter].gift + n
      /\ account'[Buyer].topup = account[Buyer].topup + p
  BY DEF AccountsMove
<1>5. \/ /\ (Banked \cap real)' = (Banked \cap real) \cup {o}
         /\ account'[Buyer].topup = account[Buyer].topup + Amount
      \/ /\ (Banked \cap real)' = Banked \cap real
         /\ account'[Buyer].topup = account[Buyer].topup
  <2>1. \A q \in Orders : q # o => (q \in (Banked \cap real)' <=> q \in Banked \cap real)
    BY DEF Banked
  <2>2. Banked \subseteq Orders /\ Banked' \subseteq Orders
    BY DEF Banked
  <2>3. CASE o \in real' /\ p = Amount
    <3>1. (Banked \cap real)' = (Banked \cap real) \cup {o}
      BY <1>1, <2>1, <2>2, <2>3
    <3> QED  BY <1>4, <2>3, <3>1
  <2>4. CASE o \notin real' /\ p = 0
    <3>1. (Banked \cap real)' = Banked \cap real
      BY <1>1, <2>1, <2>2, <2>4
    <3>2. account[Buyer].topup \in Int
      BY TwoUsers DEF BInv, MoneyTyped, AccountOK
    <3> QED  BY <1>4, <2>4, <3>1, <3>2
  <2> QED  BY <2>3, <2>4
<1> QED  BY <1>1, <1>2, <1>3, <1>4, <1>5, EvenCredited DEF BInv

LEMMA MovesTyped ==
    ASSUME MoneyTyped, NEW a, NEW b, NEW c, NEW d, AccountsMove(a, b, c, d), UNCHANGED <<lost, spent>>
    PROVE  MoneyTyped'
  BY DEF MoneyTyped, AccountsMove

-----------------------------------------------------------------------------
(* Steps that move no money. *)

LEMMA ProviderBooks ==
    ASSUME IInv, BInv, Quiet' => Quiet, NEW o \in Orders,
           Pay(o) \/ SessionExpires(o) \/ RefundCharge(o) \/ Repeat(o)
    PROVE  BInv'
<1>1. UNCHANGED <<kind, order, real, record, lost, spent, account, job>>
  BY DEF Pay, SessionExpires, RefundCharge, Repeat
<1>2. MoneyTyped' /\ AmountsRest
  BY <1>1, AccountRests DEF BInv
<1>3. \A h \in Handlers : TakesBack(h)'
  BY <1>1, TakesBackRests DEF BInv
<1>4. \A q \in Orders : Crediting(q)' = Crediting(q)
  BY <1>1 DEF Crediting
<1> QED  BY <1>1, <1>2, <1>3, <1>4, BooksRest

LEMMA StutterBooks ==
    ASSUME IInv, BInv, Quiet' => Quiet, UNCHANGED vars
    PROVE  BInv'
<1>1. UNCHANGED <<kind, order, real, record, lost, spent, account, job>>
  BY DEF vars
<1>2. MoneyTyped' /\ AmountsRest
  BY <1>1, AccountRests DEF BInv
<1>3. \A h \in Handlers : TakesBack(h)'
  BY <1>1, TakesBackRests DEF BInv
<1>4. \A q \in Orders : Crediting(q)' = Crediting(q)
  BY <1>1 DEF Crediting
<1> QED  BY <1>1, <1>2, <1>3, <1>4, BooksRest

\* A handler starts on order o.
StartsOn(h, o) ==
    \/ \E r \in Reports : Deliver(h, o, r)
    \/ CompleteManually(h, o) \/ EditReads(h, o)

LEMMA StartBooks ==
    ASSUME IInv, BInv, Quiet' => Quiet, NEW h \in Handlers, NEW o \in Orders, StartsOn(h, o)
    PROVE  BInv'
<1>1. /\ UNCHANGED <<kind, order, real, record, lost, spent, account>>
      /\ job[h].step = "idle"
  <2>1. CASE \E r \in Reports : Deliver(h, o, r)  BY ONLY <2>1 DEF Deliver, world
  <2>2. CASE CompleteManually(h, o)  BY ONLY <2>2 DEF CompleteManually, world
  <2>3. CASE EditReads(h, o)  BY ONLY <2>3 DEF EditReads, world
  <2> QED  BY <2>1, <2>2, <2>3 DEF StartsOn
<1>2. OthersRest(h) /\ job'[h].step \notin {"revoking", "crediting"}
  <2>1. job = [g \in Handlers |-> job[g]]  BY DEF IInv, Typed
  <2>2. CASE \E r \in Reports : Deliver(h, o, r)
    BY ONLY <2>1, <2>2 DEF Deliver, OthersRest, Idle, Reports
  <2>3. CASE CompleteManually(h, o)
    BY ONLY <2>1, <2>3 DEF CompleteManually, OthersRest, Idle
  <2>4. CASE EditReads(h, o)
    BY ONLY <2>1, <2>4 DEF EditReads, OthersRest, Idle
  <2> QED  BY <2>2, <2>3, <2>4 DEF StartsOn
<1>3. MoneyTyped' /\ AmountsRest
  BY <1>1, AccountRests DEF BInv
<1>4. job[h].step # "crediting"
  BY <1>1
<1>5. HandlerOnly(h)
  BY <1>1, <1>2, <1>3, <1>4 DEF HandlerOnly
<1> QED  BY <1>5, HandlerRests

\* A handler's answer.
LEMMA AnswerBooks ==
    ASSUME IInv, BInv, Quiet' => Quiet, NEW h \in Handlers, NEW b \in BOOLEAN, Answer(h, b),
           job[h].step # "idle", UNCHANGED <<kind, order, real, record, lost, spent>>,
           MoneyTyped', AmountsRest, job[h].step = "crediting" => ~Quiet'
    PROVE  BInv'
<1>1. OthersRest(h) /\ job'[h] = Idle
  BY HandlersOrder, AnswerMoves DEF IInv
<1>2. HandlerOnly(h)
  BY <1>1, IdleFields DEF HandlerOnly
<1> QED  BY <1>2, HandlerRests

LEMMA FailBooks ==
    ASSUME IInv, BInv, Quiet' => Quiet, NEW h \in Handlers, Fail(h)
    PROVE  BInv'
<1>1. job[h].step # "idle" /\ UNCHANGED <<kind, order, real, record, lost, spent, account>>
  BY DEF Fail, world
<1>2. PICK b \in BOOLEAN : Answer(h, b)
  BY DEF Fail
<1>3. ASSUME job[h].step = "crediting" PROVE ~Quiet'
  <2>1. Order(h) \in Orders /\ causes' = [causes EXCEPT ![Order(h)] = @ \cup {"dropped"}]
    BY <1>1, <1>3, HandlersOrder DEF Fail, Blame
  <2>2. "dropped" \in causes'[Order(h)]
    BY <2>1 DEF IInv, Typed
  <2> QED  BY <2>1, <2>2 DEF Quiet
<1>4. MoneyTyped' /\ AmountsRest
  BY <1>1, AccountRests DEF BInv
<1> QED  BY <1>1, <1>2, <1>3, <1>4, AnswerBooks

LEMMA RefundSwallowedBooks ==
    ASSUME IInv, BInv, Quiet' => Quiet, NEW h \in Handlers, RefundSwallowed(h)
    PROVE  BInv'
<1>1. /\ job[h].step = "refund" /\ Answer(h, TRUE)
      /\ UNCHANGED <<kind, order, real, record, lost, spent, account>>
  BY DEF RefundSwallowed, world
<1>2. MoneyTyped' /\ AmountsRest
  BY <1>1, AccountRests DEF BInv
<1> QED  BY <1>1, <1>2, AnswerBooks

LEMMA SpendBooks ==
    ASSUME IInv, BInv, Quiet' => Quiet, NEW u \in Users, Spend(u)
    PROVE  BInv'
<1>1. /\ UNCHANGED <<kind, order, real, record, lost, job>>
      /\ account' = [account EXCEPT ![u].quota = @ - 1] /\ spent' = [spent EXCEPT ![u] = @ + 1]
  BY DEF Spend
<1>2. /\ account' = [v \in Users |-> account'[v]]
      /\ \A v \in Users : v # u => account'[v] = account[v]
      /\ account'[u].quota = account[u].quota - 1 /\ account'[u].topup = account[u].topup
      /\ account'[u].gift = account[u].gift /\ DOMAIN account'[u] = DOMAIN account[u]
  BY <1>1 DEF BInv, MoneyTyped, AccountOK
<1>3. spent' \in [Users -> Int] /\ \A v \in Users : spent'[v] = IF v = u THEN spent[v] + 1 ELSE spent[v]
  BY <1>1 DEF BInv, MoneyTyped
<1>4. \A v \in Users : AccountOK(v) /\ spent[v] \in Int
  BY DEF BInv, MoneyTyped
<1>5. /\ \A v \in Users : AccountOK(v)'
      /\ \A v \in Users : /\ account'[v].quota + spent'[v] = account[v].quota + spent[v]
                          /\ account'[v].topup = account[v].topup
                          /\ account'[v].gift = account[v].gift
  <2>1. AccountOK(u)'
    BY <1>2, <1>4 DEF AccountOK
  <2>2. \A v \in Users : AccountOK(v)'
    BY <1>2, <1>4, <2>1 DEF AccountOK
  <2>3. ASSUME NEW v \in Users
        PROVE  /\ account'[v].quota + spent'[v] = account[v].quota + spent[v]
               /\ account'[v].topup = account[v].topup
               /\ account'[v].gift = account[v].gift
    BY <1>2, <1>3, <1>4 DEF AccountOK
  <2> QED  BY <2>2, <2>3
<1>6. MoneyTyped'
  <2>1. lost' \in [Orders -> Int]
    BY <1>1 DEF BInv, MoneyTyped
  <2> QED  BY <1>2, <1>3, <1>5, <2>1 DEF MoneyTyped
<1>7. \A o \in Orders : LedgerOf(o)'
  BY <1>1, LedgerRests DEF BInv
<1>8. \A h \in Handlers : TakesBack(h)'
  BY <1>1, TakesBackRests DEF BInv
<1>9. ASSUME Quiet' PROVE Even'
  <2>1. Banked' = Banked /\ (Banked \cap real)' = Banked \cap real /\ KeptBy' = KeptBy
    BY <1>1 DEF Banked, InBank, Crediting, KeptBy, Kept
  <2>2. Even
    BY <1>9 DEF BInv
  <2> QED  BY <1>1, <1>5, <2>1, <2>2, TwoUsers DEF Even
<1> QED  BY <1>6, <1>7, <1>8, <1>9 DEF BInv

LEMMA RecalcBooks ==
    ASSUME IInv, BInv, Quiet' => Quiet, NEW h \in Handlers, RecalcReads(h) \/ RecalcWrites(h)
    PROVE  BInv'
<1>1. /\ job[h].step \in {"recalc", "leveling"}
      /\ UNCHANGED <<kind, order, real, record, lost, spent>>
  BY DEF RecalcReads, RecalcWrites, world
<1>2. MoneyTyped' /\ AmountsRest
  <2>1. CASE UNCHANGED account
    BY <1>1, <2>1, AccountRests DEF BInv
  <2>2. CASE account' = [account EXCEPT ![Buyer].level = job[h].level]
    BY <1>1, <2>2, LevelAccounts DEF BInv
  <2> QED  BY <2>1, <2>2 DEF RecalcReads, RecalcWrites
<1>3. CASE Answer(h, TRUE)
  BY <1>1, <1>2, <1>3, AnswerBooks
<1>4. ASSUME NEW l, job' = [job EXCEPT ![h].step = "leveling", ![h].level = l]
      PROVE  BInv'
  <2>1. OthersRest(h) /\ job'[h].step = "leveling"
    BY <1>4 DEF IInv, Typed, OthersRest, JobOK
  <2>2. HandlerOnly(h)
    BY <1>1, <1>2, <2>1 DEF HandlerOnly
  <2> QED  BY <2>2, HandlerRests
<1>5. Answer(h, TRUE) \/ \E l : job' = [job EXCEPT ![h].step = "leveling", ![h].level = l]
  BY DEF RecalcReads, RecalcWrites
<1> QED  BY <1>3, <1>4, <1>5

LEMMA CryptoFindBooks ==
    ASSUME IInv, BInv, Quiet' => Quiet, NEW h \in Handlers, CryptoFind(h)
    PROVE  BInv'
<1>1. /\ job[h].step = "paid"
      /\ UNCHANGED <<kind, order, real, record, lost, spent, account>>
  BY DEF CryptoFind, world
<1>2. MoneyTyped' /\ AmountsRest
  BY <1>1, AccountRests DEF BInv
<1>3. CASE Answer(h, TRUE)
  BY <1>1, <1>2, <1>3, AnswerBooks
<1>4. CASE Go(h, "inserting")
  <2>1. OthersRest(h) /\ job'[h].step = "inserting"
    BY <1>1, <1>4, GoMoves DEF IInv, Steps
  <2>2. HandlerOnly(h)
    BY <1>1, <1>2, <2>1 DEF HandlerOnly
  <2> QED  BY <2>2, HandlerRests
<1> QED  BY <1>3, <1>4 DEF CryptoFind

-----------------------------------------------------------------------------
(* Steps of an order. *)

\* A refund under way keeps what it has read, when the step touches another order.
LEMMA OthersTakeBack ==
    ASSUME IInv, BInv, Quiet' => Quiet, NEW h \in Handlers, OthersRest(h), NEW o \in Orders,
           \A q \in Orders : q # o => record'[q] = record[q],
           \A g \in Handlers : g # h /\ job[g].step = "revoking" => job[g].order # o,
           TakesBack(h)'
    PROVE  \A g \in Handlers : TakesBack(g)'
<1>1. ASSUME NEW g \in Handlers, g # h PROVE TakesBack(g)'
  <2>1. job'[g] = job[g] /\ TakesBack(g) /\ JobOK(g)
    BY <1>1 DEF OthersRest, BInv, IInv, Typed
  <2>2. job[g].step = "revoking" =>
          record'[job[g].order].status = record[job[g].order].status
    BY <1>1, <2>1 DEF JobOK
  <2> QED  BY <2>1, <2>2, TakesBackRests
<1> QED  BY <1>1

\* What is granted is in the books.
LEMMA GrantBooks ==
    ASSUME MoneyTyped, NEW o \in Orders, LedgerOf(o), record = [q \in Orders |-> record[q]],
           record[o].status = "none", NEW b \in BOOLEAN, NEW n \in Nat, CreditAndGrant(o, b, n)
    PROVE  /\ AccountsMove(Amount, PaidFor(b), n, n)
           /\ \A q \in Orders : q # o => record'[q] = record[q]
           /\ Kept(o)' = Kept(o) + n
           /\ {"status", "quota", "reversed"} \subseteq DOMAIN record'[o]
           /\ (record'[o].quota \in Int /\ record'[o].reversed = 0) \/ record'[o] = record[o]
           /\ record'[o].status = "none" => Kept(o)' = 0
<1> DEFINE granted == [status |-> "granted", quota |-> n, reversed |-> 0]
<1>1. /\ account' = [account EXCEPT ![Buyer].quota = @ + Amount, ![Buyer].topup = @ + PaidFor(b),
                                    ![Inviter].quota = @ + n, ![Inviter].gift = @ + n]
      /\ record' = IF n > 0 THEN [record EXCEPT ![o] = granted] ELSE record
  BY DEF CreditAndGrant, NotGranted
<1>2. AccountsMove(Amount, PaidFor(b), n, n)
  <2>1. Amount \in Int /\ n \in Int
    BY PaymentsAssumption
  <2>2. PICK p \in Int : p = PaidFor(b)
    BY PaymentsAssumption DEF PaidFor
  <2>3. account' = [account EXCEPT ![Buyer].quota = @ + Amount, ![Buyer].topup = @ + p,
                                   ![Inviter].quota = @ + n, ![Inviter].gift = @ + n]
    BY <1>1, <2>2
  <2>4. AccountsMove(Amount, p, n, n)
    BY <2>1, <2>3, GrantAccounts
  <2> QED  BY <2>2, <2>4
<1>3. Kept(o) = 0
  BY DEF LedgerOf
<1>4. CASE n > 0
  <2>1. record'[o] = granted /\ \A q \in Orders : q # o => record'[q] = record[q]
    BY <1>1, <1>4
  <2>2. Kept(o)' = n
    BY <2>1 DEF Kept
  <2> QED  BY <1>2, <1>3, <2>1, <2>2
<1>5. CASE n = 0
  <2>1. record' = record
    BY <1>1, <1>5
  <2>2. Kept(o)' = 0
    BY <1>3, <2>1 DEF Kept
  <2> QED  BY <1>2, <1>3, <1>5, <2>1, <2>2 DEF LedgerOf
<1> QED  BY <1>4, <1>5

\* The transaction that credits an open order.
LEMMA OpenBooks ==
    ASSUME IInv, BInv, Quiet' => Quiet, NEW h \in Handlers, NEW o \in Orders, Order(h) = o,
           job[h].step # "idle", job[h].step # "crediting", kind[o] \in {"topup", "charge"},
           order[o] = "pending", NEW b \in BOOLEAN, NEW n \in Nat, CreditAndGrant(o, b, n),
           Credited(o, b), Go(h, "recalc"), kind[o] = "charge" => b,
           UNCHANGED <<kind, lost, spent>>
    PROVE  BInv'
<1>1. OthersRest(h) /\ job'[h].step = "recalc"
  BY GoMoves DEF IInv, Steps
<1>2. /\ order' = [order EXCEPT ![o] = "success"]
      /\ \A q \in Orders : q # o => order'[q] = order[q]
      /\ order'[o] = "success"
      /\ real' = IF b THEN real \cup {o} ELSE real
  BY DEF Credited, IInv, Typed
<1>3. LedgerOf(o) /\ record[o].status = "none" /\ o \notin real /\ lost[o] = 0
  BY DEF IInv, Typed, RecordIs, RecordOK, BInv, LedgerOf
<1>4. /\ AccountsMove(Amount, PaidFor(b), n, n)
      /\ \A q \in Orders : q # o => record'[q] = record[q]
      /\ Kept(o)' = Kept(o) + n
      /\ {"status", "quota", "reversed"} \subseteq DOMAIN record'[o]
      /\ (record'[o].quota \in Int /\ record'[o].reversed = 0) \/ record'[o] = record[o]
      /\ record'[o].status = "none" => Kept(o)' = 0
  <2>1. record = [q \in Orders |-> record[q]]
    BY DEF IInv, Typed
  <2> QED  BY <1>3, <2>1, GrantBooks DEF BInv
<1>5. MoneyTyped'
  BY <1>4, MovesTyped DEF BInv
<1>6. LedgerOf(o)'
  BY <1>2, <1>3, <1>4 DEF LedgerOf
<1>7. \A q \in Orders : LedgerOf(q)'
  <2>1. ASSUME NEW q \in Orders, q # o PROVE LedgerOf(q)'
    BY <1>2, <1>4, <2>1, LedgerRests DEF BInv
  <2> QED  BY <1>6, <2>1
<1>8. \A g \in Handlers : TakesBack(g)'
  <2>1. TakesBack(h)'
    BY <1>1 DEF TakesBack
  <2>2. \A g \in Handlers : job[g].step = "revoking" => job[g].order # o
    BY DEF IInv, JobSays
  <2> QED  BY <1>1, <1>4, <2>1, <2>2, OthersTakeBack
<1>9. ASSUME Quiet' PROVE Even'
  <2>1. \A q \in Orders : Crediting(q)' = Crediting(q)
    BY <1>1, CreditingRests
  <2>2. Crediting(o) = {}
    BY NoCrediting
  <2>3. ~InBank(o) /\ InBank(o)'
    BY <1>2, <2>1, <2>2 DEF InBank
  <2>4. \A q \in Orders : q # o => /\ InBank(q)' <=> InBank(q)
                                   /\ q \in real' <=> q \in real
                                   /\ Kept(q)' = Kept(q)
    BY <1>2, <1>4, <2>1 DEF InBank, Kept
  <2>5. \/ o \in real' /\ PaidFor(b) = Amount
        \/ o \notin real' /\ PaidFor(b) = 0
    BY <1>2, <1>3 DEF PaidFor
  <2>6. Quiet /\ n \in Int
    BY <1>9
  <2> QED  BY <1>4, <2>3, <2>4, <2>5, <2>6, CreditBooks
<1> QED  BY <1>5, <1>7, <1>8, <1>9 DEF BInv

LEMMA CompleteBooks ==
    ASSUME IInv, BInv, Quiet' => Quiet, NEW h \in Handlers, Complete(h)
    PROVE  BInv'
<1>0. PICK o \in Orders : o = Order(h)
  <2>1. job[h].step # "idle"
    BY DEF Complete
  <2> QED  BY <2>1, HandlersOrder
<1>1. /\ job[h].step \in {"paid", "manual"} /\ kind[o] = "topup"
      /\ UNCHANGED <<kind, lost, spent>>
  BY <1>0, HandlersOrder DEF Complete, JobSays, Known, Reports, world
<1>2. CASE Open(o)
  <2>1. PICK n \in IF job[h].step = "paid" THEN Commissions ELSE {0} :
           CreditAndGrant(o, job[h].step = "paid", n)
    BY <1>0, <1>2 DEF Complete
  <2>2. n \in Nat /\ (job[h].step = "paid") \in BOOLEAN
    BY <2>1, PaymentsAssumption
  <2>3. Credited(o, job[h].step = "paid") /\ Go(h, "recalc")
    BY <1>0, <1>2 DEF Complete
  <2> QED  BY <1>0, <1>1, <1>2, <2>1, <2>2, <2>3, OpenBooks DEF Open
<1>3. CASE ~Open(o)
  <2>1. Answer(h, TRUE) /\ UNCHANGED <<order, real, account, record>>
    BY <1>0, <1>3 DEF Complete
  <2>2. MoneyTyped' /\ AmountsRest
    BY <1>1, <2>1, AccountRests DEF BInv
  <2> QED  BY <1>1, <2>1, <2>2, AnswerBooks
<1> QED  BY <1>2, <1>3

LEMMA ChargeSuccessBooks ==
    ASSUME IInv, BInv, Quiet' => Quiet, NEW h \in Handlers, ChargeSuccess(h)
    PROVE  BInv'
<1>0. PICK o \in Orders : o = Order(h)
  <2>1. job[h].step # "idle"
    BY DEF ChargeSuccess
  <2> QED  BY <2>1, HandlersOrder
<1>1. job[h].step = "paid" /\ kind[o] = "charge" /\ UNCHANGED <<kind, lost, spent>>
  BY <1>0 DEF ChargeSuccess, world
<1>2. CASE Open(o)
  <2>1. PICK n \in Commissions : CreditAndGrant(o, TRUE, n)
    BY <1>0, <1>2 DEF ChargeSuccess
  <2>2. n \in Nat
    BY <2>1, PaymentsAssumption
  <2>3. Credited(o, TRUE) /\ Go(h, "recalc")
    BY <1>0, <1>2 DEF ChargeSuccess
  <2> QED  BY <1>0, <1>1, <1>2, <2>1, <2>2, <2>3, OpenBooks DEF Open
<1>3. CASE ~Open(o)
  <2>1. Answer(h, FALSE) /\ UNCHANGED <<order, real, account, record>>
    BY <1>0, <1>3 DEF ChargeSuccess
  <2>2. MoneyTyped' /\ AmountsRest
    BY <1>1, <2>1, AccountRests DEF BInv
  <2> QED  BY <1>1, <2>1, <2>2, AnswerBooks
<1> QED  BY <1>2, <1>3

LEMMA ExpireBooks ==
    ASSUME IInv, BInv, Quiet' => Quiet, NEW h \in Handlers, Expire(h)
    PROVE  BInv'
<1>0. PICK o \in Orders : o = Order(h)
  <2>1. job[h].step # "idle"
    BY DEF Expire
  <2> QED  BY <2>1, HandlersOrder
<1>1. /\ job[h].step = "expired" /\ kind[o] = "topup"
      /\ UNCHANGED <<kind, real, record, lost, spent, account>> /\ Answer(h, TRUE)
      /\ order' = order \/ (order[o] = "pending" /\ order' = [order EXCEPT ![o] = "expired"])
  BY <1>0, HandlersOrder DEF Expire, JobSays, Known, Reports, Open, world
<1>2. MoneyTyped' /\ AmountsRest
  BY <1>1, AccountRests DEF BInv
<1>3. CASE order' = order
  BY <1>1, <1>2, <1>3, AnswerBooks
<1>4. CASE order[o] = "pending" /\ order' = [order EXCEPT ![o] = "expired"]
  <2>1. order'[o] = "expired" /\ \A q \in Orders : q # o => order'[q] = order[q]
    BY <1>4 DEF IInv, Typed
  <2>2. OthersRest(h) /\ job'[h].step = "idle"
    BY <1>1, HandlersOrder, AnswerMoves, IdleFields DEF IInv
  <2>3. LedgerOf(o)'
    BY <1>1, <1>4, <2>1 DEF BInv, LedgerOf, Kept
  <2>4. ASSUME NEW q \in Orders, q # o PROVE LedgerOf(q)'
    BY <1>1, <2>1, <2>4, LedgerRests DEF BInv
  <2>5. \A g \in Handlers : TakesBack(g)'
    <3>1. ASSUME NEW g \in Handlers PROVE TakesBack(g)'
      BY <1>1, <2>2, TakesBackRests DEF BInv, OthersRest, TakesBack
    <3> QED  BY <3>1
  <2>6. \A q \in Orders : InBank(q)' <=> InBank(q)
    <3>1. \A q \in Orders : Crediting(q)' = Crediting(q)
      BY <1>1, <2>2, CreditingRests
    <3> QED  BY <1>4, <2>1, <3>1 DEF InBank
  <2>7. \A q \in Orders : Kept(q)' = Kept(q) /\ (q \in real' <=> q \in real)
    BY <1>1 DEF Kept
  <2> QED  BY <1>1, <1>2, <2>3, <2>4, <2>5, <2>6, <2>7, BankRests
<1> QED  BY <1>1, <1>3, <1>4

\* An edit that changes the status is noted, and excuses the books.
LEMMA EditSavesBooks ==
    ASSUME IInv, BInv, Quiet' => Quiet, NEW h \in Handlers, EditSaves(h)
    PROVE  BInv'
<1>0. PICK o \in Orders : o = Order(h)
  <2>1. job[h].step # "idle"
    BY DEF EditSaves
  <2> QED  BY <2>1, HandlersOrder
<1>1. /\ job[h].step = "editing" /\ kind[o] = "code" /\ job[h].status \in CodeStatuses
      /\ UNCHANGED <<kind, real, record, lost, spent, account>>
      /\ order' = [order EXCEPT ![o] = job[h].status]
      /\ job' = [job EXCEPT ![h] = Idle]
  BY <1>0, HandlersOrder DEF EditSaves, JobSays, world
<1>2. order'[o] = job[h].status /\ \A q \in Orders : q # o => order'[q] = order[q]
  BY <1>1 DEF IInv, Typed
<1>3. Quiet' => (order'[o] = "used" <=> order[o] = "used")
  <2>1. ASSUME ~(order[o] = "used" <=> job[h].status = "used") PROVE ~Quiet'
    <3>1. causes' = [causes EXCEPT ![o] = @ \cup {"edited"}]
      BY <1>0, <2>1 DEF EditSaves, Blame
    <3>2. "edited" \in causes'[o]
      BY <3>1 DEF IInv, Typed
    <3> QED  BY <3>2 DEF Quiet
  <2> QED  BY <1>2, <2>1
<1>4. MoneyTyped' /\ AmountsRest
  BY <1>1, AccountRests DEF BInv
<1>5. OthersRest(h) /\ job'[h].step = "idle"
  BY <1>1, IdleFields DEF IInv, Typed, OthersRest
<1>6. LedgerOf(o)'
  <2>1. order[o] # "refund" /\ LedgerOf(o)
    BY <1>1 DEF IInv, CreditsAre, CodeStatuses, BInv
  <2> QED  BY <1>1, <1>2, <2>1 DEF LedgerOf, Kept
<1>7. ASSUME NEW q \in Orders, q # o PROVE LedgerOf(q)'
  BY <1>1, <1>2, <1>7, LedgerRests DEF BInv
<1>8. \A g \in Handlers : TakesBack(g)'
  <2>1. ASSUME NEW g \in Handlers PROVE TakesBack(g)'
    BY <1>1, <1>5, TakesBackRests DEF BInv, OthersRest, TakesBack
  <2> QED  BY <2>1
<1>9. Quiet' => \A q \in Orders : InBank(q)' <=> InBank(q)
  <2>1. \A q \in Orders : Crediting(q)' = Crediting(q)
    BY <1>1, <1>5, CreditingRests
  <2>2. order[o] \in CodeStatuses
    BY <1>1 DEF IInv, CreditsAre
  <2> QED  BY <1>1, <1>2, <1>3, <2>1, <2>2 DEF InBank, CodeStatuses
<1>10. \A q \in Orders : Kept(q)' = Kept(q) /\ (q \in real' <=> q \in real)
  BY <1>1 DEF Kept
<1> QED  BY <1>1, <1>4, <1>6, <1>7, <1>8, <1>9, <1>10, BankRests

\* A code is redeemed.
LEMMA RedeemBooks ==
    ASSUME IInv, BInv, Quiet' => Quiet, NEW o \in Orders, Redeem(o)
    PROVE  BInv'
<1>1. /\ kind[o] = "code" /\ order[o] = "pending"
      /\ UNCHANGED <<kind, real, record, lost, spent, job>>
      /\ order' = [order EXCEPT ![o] = "used"]
      /\ account' = [account EXCEPT ![Buyer].quota = @ + Amount]
  BY DEF Redeem, Open, Credited, world
<1>2. order'[o] = "used" /\ \A q \in Orders : q # o => order'[q] = order[q]
  BY <1>1 DEF IInv, Typed
<1>3. AccountsMove(Amount, 0, 0, 0)
  <2>1. Amount \in Int
    BY PaymentsAssumption
  <2> QED  BY <1>1, <2>1, RedeemAccounts DEF BInv
<1>4. MoneyTyped'
  BY <1>1, <1>3, MovesTyped DEF BInv
<1>5. LedgerOf(o)'
  BY <1>1, <1>2 DEF BInv, LedgerOf, Kept
<1>6. ASSUME NEW q \in Orders, q # o PROVE LedgerOf(q)'
  BY <1>1, <1>2, <1>6, LedgerRests DEF BInv
<1>7. \A g \in Handlers : TakesBack(g)'
  BY <1>1, TakesBackRests DEF BInv
<1>8. ASSUME Quiet' PROVE Even'
  <2>1. \A q \in Orders : Crediting(q)' = Crediting(q)
    BY <1>1 DEF Crediting
  <2>2. Crediting(o) = {}
    BY <1>1, NoCrediting
  <2>3. ~InBank(o) /\ InBank(o)'
    BY <1>1, <1>2, <2>1, <2>2 DEF InBank
  <2>4. \A q \in Orders : q # o => /\ InBank(q)' <=> InBank(q)
                                   /\ q \in real' <=> q \in real
                                   /\ Kept(q)' = Kept(q)
    BY <1>1, <1>2, <2>1 DEF InBank, Kept
  <2>5. o \notin real' /\ Kept(o)' = Kept(o) + 0
    BY <1>1 DEF BInv, LedgerOf, Kept
  <2>6. Quiet /\ 0 \in Int /\ UNCHANGED <<lost, spent>>
    BY <1>1, <1>8
  <2> QED  BY <1>3, <2>3, <2>4, <2>5, <2>6, CreditBooks
<1> QED  BY <1>4, <1>5, <1>6, <1>7, <1>8 DEF BInv

\* A crypto order that is inserted twice is noted; otherwise it is new, and in the
\* bank when it has been credited.
LEMMA CryptoInsertBooks ==
    ASSUME IInv, BInv, Quiet' => Quiet, NEW h \in Handlers, CryptoInsert(h)
    PROVE  BInv'
<1>0. PICK o \in Orders : o = Order(h)
  <2>1. job[h].step # "idle"
    BY DEF CryptoInsert
  <2> QED  BY <2>1, HandlersOrder
<1>1. /\ job[h].step = "inserting" /\ kind[o] = "crypto" /\ job[h].order = o
      /\ UNCHANGED <<kind, record, lost, spent, account>>
      /\ order' = [order EXCEPT ![o] = "success"] /\ real' = real \cup {o}
      /\ Go(h, "crediting")
  BY <1>0, HandlersOrder DEF CryptoInsert, JobSays, world
<1>2. order'[o] = "success" /\ \A q \in Orders : q # o => order'[q] = order[q]
  BY <1>1 DEF IInv, Typed
<1>3. Quiet' => order[o] = "none"
  <2>1. ASSUME order[o] # "none" PROVE ~Quiet'
    <3>1. causes' = [causes EXCEPT ![o] = @ \cup {"race"}]
      BY <1>0, <2>1 DEF CryptoInsert, Blame
    <3>2. "race" \in causes'[o]
      BY <3>1 DEF IInv, Typed
    <3> QED  BY <3>2 DEF Quiet
  <2> QED  BY <2>1
<1>4. MoneyTyped' /\ AmountsRest
  BY <1>1, AccountRests DEF BInv
<1>5. OthersRest(h) /\ job'[h].step = "crediting" /\ job'[h].order = o
  BY <1>1, GoMoves DEF IInv, Steps
<1>6. LedgerOf(o)'
  BY <1>1, <1>2 DEF IInv, CreditsAre, BInv, LedgerOf, Kept
<1>7. ASSUME NEW q \in Orders, q # o PROVE LedgerOf(q)'
  BY <1>1, <1>2, <1>7, LedgerRests DEF BInv
<1>8. \A g \in Handlers : TakesBack(g)'
  <2>1. ASSUME NEW g \in Handlers PROVE TakesBack(g)'
    BY <1>1, <1>5, TakesBackRests DEF BInv, OthersRest, TakesBack
  <2> QED  BY <2>1
<1>9. ASSUME Quiet' PROVE \A q \in Orders : InBank(q)' <=> InBank(q)
  <2>1. ~InBank(o)
    BY <1>3, <1>9 DEF InBank
  <2>2. h \in Crediting(o)'
    BY <1>5 DEF Crediting
  <2>3. ~InBank(o)'
    BY <2>2 DEF InBank
  <2>4. ASSUME NEW q \in Orders, q # o PROVE InBank(q)' <=> InBank(q)
    <3>1. Crediting(q)' = Crediting(q)
      BY <1>1, <1>5, <2>4, SameCrediting DEF Crediting
    <3> QED  BY <1>2, <2>4, <3>1 DEF InBank
  <2> QED  BY <2>1, <2>3, <2>4
<1>10. \A q \in Orders : Kept(q)' = Kept(q)
  BY <1>1 DEF Kept
<1>11. \A q \in Orders : InBank(q) => (q \in real' <=> q \in real)
  BY <1>1 DEF InBank, BInv, LedgerOf, IInv, CreditsAre
<1> QED  BY <1>1, <1>4, <1>6, <1>7, <1>8, <1>9, <1>10, <1>11, BankRests

\* The only handler that was crediting the order has done so.
LEMMA CryptoCreditBooks ==
    ASSUME IInv, BInv, Quiet' => Quiet, NEW h \in Handlers, CryptoCredit(h)
    PROVE  BInv'
<1>0. PICK o \in Orders : o = Order(h)
  <2>1. job[h].step # "idle"
    BY DEF CryptoCredit
  <2> QED  BY <2>1, HandlersOrder
<1>1. /\ job[h].step = "crediting" /\ kind[o] = "crypto" /\ job[h].order = o
      /\ UNCHANGED <<kind, order, real, record, lost, spent, causes>>
      /\ account' = [account EXCEPT ![Buyer].quota = @ + Amount, ![Buyer].topup = @ + Amount]
      /\ Go(h, "recalc")
  BY <1>0, HandlersOrder DEF CryptoCredit, JobSays, world
<1>2. OthersRest(h) /\ job'[h].step = "recalc"
  BY <1>1, GoMoves DEF IInv, Steps
<1>3. AccountsMove(Amount, Amount, 0, 0)
  <2>1. Amount \in Int
    BY PaymentsAssumption
  <2> QED  BY <1>1, <2>1, CryptoAccounts DEF BInv
<1>4. MoneyTyped'
  BY <1>1, <1>3, MovesTyped DEF BInv
<1>5. \A q \in Orders : LedgerOf(q)'
  BY <1>1, LedgerRests DEF BInv
<1>6. \A g \in Handlers : TakesBack(g)'
  <2>1. ASSUME NEW g \in Handlers PROVE TakesBack(g)'
    BY <1>1, <1>2, TakesBackRests DEF BInv, OthersRest, TakesBack
  <2> QED  BY <2>1
<1>7. ASSUME Quiet' PROVE Even'
  <2>1. h \in Crediting(o) /\ "race" \notin causes[o] /\ CreditsAre(o)
    BY <1>1, <1>7 DEF Crediting, Quiet, IInv
  <2>2. order[o] = "success" /\ \A g \in Crediting(o) : g = h
    BY <1>1, <2>1 DEF CreditsAre
  <2>3. Crediting(o)' = {}
    BY <1>2, <2>2 DEF Crediting, OthersRest
  <2>4. ~InBank(o) /\ InBank(o)'
    BY <1>1, <2>1, <2>2, <2>3 DEF InBank
  <2>5. ASSUME NEW q \in Orders, q # o
        PROVE  /\ InBank(q)' <=> InBank(q)
               /\ q \in real' <=> q \in real
               /\ Kept(q)' = Kept(q)
    <3>1. Crediting(q)' = Crediting(q)
      BY <1>1, <1>2, <2>5, SameCrediting DEF Crediting
    <3> QED  BY <1>1, <3>1 DEF InBank, Kept
  <2>6. o \in real' /\ Kept(o)' = Kept(o) + 0
    BY <1>1, <2>2 DEF BInv, LedgerOf, Kept
  <2>7. Quiet /\ 0 \in Int /\ UNCHANGED <<lost, spent>>
    BY <1>1, <1>7
  <2> QED  BY <1>3, <2>4, <2>5, <2>6, <2>7, CreditBooks
<1> QED  BY <1>4, <1>5, <1>6, <1>7 DEF BInv

-----------------------------------------------------------------------------
(* Refunds. *)

LEMMA TakenInt ==
    ASSUME NEW m \in Int, NEW n \in Int
    PROVE  /\ Greater(0, Lesser(m, n)) \in Int
           /\ 0 <= m /\ m <= n => Greater(0, Lesser(m, n)) = m
  BY DEF Greater, Lesser

\* A payment that is in the bank is in topup_quota: all of it can be taken back.
LEMMA TopupCovers ==
    ASSUME MoneyTyped, Even, NEW o \in Banked \cap real
    PROVE  Amount <= account[Buyer].topup
<1>1. IsFiniteSet((Banked \cap real) \ {o}) /\ Cardinality((Banked \cap real) \ {o}) \in Nat
  BY BankedFinite, FS_Subset, FS_CardinalityType
<1>2. /\ Cardinality(Banked \cap real) \in Nat
      /\ Cardinality((Banked \cap real) \ {o}) = Cardinality(Banked \cap real) - 1
  BY BankedFinite, FS_RemoveElement, FS_CardinalityType
<1>3. PICK n \in Nat : Cardinality(Banked \cap real) = n + 1
  BY <1>1, <1>2
<1>4. Amount * (n + 1) = Amount * n + Amount /\ Amount * n \in Nat /\ Amount \in Nat
  BY Times
<1>5. account[Buyer].topup = Amount * n + Amount
  BY <1>3, <1>4 DEF Even
<1> QED  BY <1>4, <1>5

LEMMA RefundReadsBooks ==
    ASSUME IInv, BInv, Quiet' => Quiet, NEW h \in Handlers, RefundReads(h)
    PROVE  BInv'
<1>0. PICK o \in Orders : o = Order(h)
  <2>1. job[h].step # "idle"
    BY DEF RefundReads
  <2> QED  BY <2>1, HandlersOrder
<1>1. /\ job[h].step = "refund" /\ job[h].order = o /\ kind[o] = "charge" /\ JobOK(h)
      /\ UNCHANGED <<kind, order, real, record, lost, spent, account>>
  BY <1>0, HandlersOrder DEF RefundReads, JobSays, Known, Reports, world
<1>2. MoneyTyped' /\ AmountsRest
  BY <1>1, AccountRests DEF BInv
<1>3. CASE ~Refundable(o)
  <2>1. Answer(h, TRUE)
    BY <1>0, <1>3 DEF RefundReads
  <2> QED  BY <1>1, <1>2, <2>1, AnswerBooks
<1>4. CASE Refundable(o)
  <2> DEFINE q == Greater(0, Lesser(Amount, account[Buyer].quota))
             t == Greater(0, Lesser(Amount, account[Buyer].topup))
             g == IF record[o].status = "granted"
                  THEN Greater(0, Lesser(record[o].quota, account[Inviter].quota)) ELSE 0
  <2>1. /\ job' = [job EXCEPT ![h].step = "revoking", ![h].quota = q, ![h].topup = t, ![h].gift = g]
        /\ UNCHANGED causes
    BY <1>0, <1>4 DEF RefundReads
  <2>2. q \in Int /\ t \in Int /\ g \in Int /\ (record[o].status # "granted" => g = 0)
    <3>1. /\ Amount \in Int /\ account[Buyer].quota \in Int /\ account[Buyer].topup \in Int
          /\ account[Inviter].quota \in Int /\ record[o].quota \in Int
      <4>1. AccountOK(Buyer) /\ AccountOK(Inviter) /\ LedgerOf(o) /\ Amount \in Int
        BY PaymentsAssumption DEF BInv, MoneyTyped
      <4> QED  BY ONLY <4>1 DEF AccountOK, LedgerOf
    <3>2. q \in Int /\ t \in Int
      BY <3>1, TakenInt
    <3>3. Greater(0, Lesser(record[o].quota, account[Inviter].quota)) \in Int
      BY <3>1, TakenInt
    <3> QED  BY <3>2, <3>3
  <2>3. Quiet' => t = Amount
    <3>1. ASSUME Quiet' PROVE t = Amount
      <4>1. o \in Banked \cap real
        BY <1>1, <1>4, NoCrediting DEF Banked, InBank, Refundable, BInv, LedgerOf
      <4>2. Amount <= account[Buyer].topup
        BY <3>1, <4>1, TopupCovers DEF BInv
      <4>3. Amount \in Int /\ 0 <= Amount /\ account[Buyer].topup \in Int
        BY PaymentsAssumption DEF BInv, MoneyTyped, AccountOK
      <4> QED  BY <4>2, <4>3, TakenInt
    <3> QED  BY <3>1
  <2> HIDE DEF q, t, g
  <2>4. /\ OthersRest(h) /\ job'[h].step = "revoking" /\ job'[h].order = o
        /\ job'[h].quota = q /\ job'[h].topup = t /\ job'[h].gift = g
    <3>1. /\ OthersRest(h)
          /\ job'[h] = [step |-> "revoking", order |-> job[h].order, report |-> job[h].report,
                        quota |-> q, topup |-> t, gift |-> g,
                        level |-> job[h].level, status |-> job[h].status]
      BY <1>1, <2>1 DEF IInv, Typed, OthersRest, JobOK
    <3> QED  BY <1>1, <3>1
  <2>5. TakesBack(h)'
    BY <1>1, <2>2, <2>3, <2>4 DEF TakesBack
  <2>6. \A f \in Handlers : TakesBack(f)'
    <3>1. ASSUME NEW f \in Handlers, f # h PROVE TakesBack(f)'
      BY <1>1, <2>4, <3>1, TakesBackRests DEF BInv, OthersRest
    <3> QED  BY <2>5, <3>1
  <2>7. \A p \in Orders : Crediting(p)' = Crediting(p)
    BY <1>1, <2>4, CreditingRests
  <2> QED  BY <1>1, <1>2, <2>6, <2>7, BooksRest
<1> QED  BY <1>3, <1>4

LEMMA ReversedKept ==
    ASSUME NEW r, {"status", "quota", "reversed"} \subseteq DOMAIN r, NEW n
    PROVE  /\ DOMAIN Reversed(r, n) = DOMAIN r /\ Reversed(r, n).status = "reversed"
           /\ Reversed(r, n).quota = r.quota /\ Reversed(r, n).reversed = n
  BY DEF Reversed

LEMMA RefundCommitsBooks ==
    ASSUME IInv, BInv, Quiet' => Quiet, NEW h \in Handlers, RefundCommits(h)
    PROVE  BInv'
<1>0. PICK o \in Orders : o = Order(h)
  <2>1. job[h].step # "idle"
    BY DEF RefundCommits
  <2> QED  BY <2>1, HandlersOrder
<1> DEFINE q == job[h].quota
           t == job[h].topup
           g == job[h].gift
<1>1. /\ job[h].step = "revoking" /\ job[h].order = o /\ kind[o] = "charge" /\ order[o] = "success"
      /\ UNCHANGED <<kind, real, spent>> /\ Answer(h, TRUE)
      /\ order' = [order EXCEPT ![o] = "refund"]
      /\ lost' = [lost EXCEPT ![o] = Amount - q]
  BY <1>0, HandlersOrder DEF RefundCommits, JobSays, Known, world
<1>2. /\ q \in Int /\ t \in Int /\ g \in Int
      /\ record[o].status # "granted" => g = 0
      /\ Quiet => t = Amount
  BY <1>1 DEF BInv, TakesBack
<1>3. /\ account' = [u \in Users |-> account'[u]] /\ \A u \in Users : AccountOK(u)'
      /\ account'[Buyer].quota = account[Buyer].quota - q
      /\ account'[Buyer].topup = account[Buyer].topup - t
      /\ account'[Inviter].quota = account[Inviter].quota - g
      /\ account'[Inviter].gift = account[Inviter].gift - g
  <2>1. account' = [account EXCEPT ![Buyer].quota = @ - q, ![Buyer].topup = @ - t,
                                   ![Inviter].quota = @ - g, ![Inviter].gift = @ - g]
    BY DEF RefundCommits
  <2> HIDE DEF q, t, g
  <2> QED  BY <1>2, <2>1, RefundAccounts DEF BInv
<1>4. record' = IF record[o].status = "granted"
                THEN [record EXCEPT ![o] = Reversed(record[o], g)] ELSE record
  BY <1>0 DEF RefundCommits
<1> HIDE DEF q, t, g
<1>5. LedgerOf(o) /\ Amount \in Int /\ o \in real /\ lost[o] = 0
  BY <1>1, PaymentsAssumption DEF BInv, LedgerOf
<1>6. /\ \A p \in Orders : p # o => record'[p] = record[p]
      /\ {"status", "quota", "reversed"} \subseteq DOMAIN record'[o]
      /\ record'[o].quota = record[o].quota /\ record'[o].reversed \in Int
      /\ record'[o].status # "granted"
      /\ Kept(o)' = Kept(o) + (-g)
      /\ record'[o].status = "none" => record'[o] = record[o]
  <2>1. CASE record[o].status = "granted"
    <3>1. /\ record'[o] = Reversed(record[o], g)
          /\ \A p \in Orders : p # o => record'[p] = record[p]
      BY <1>4, <2>1 DEF IInv, Typed
    <3>2. /\ DOMAIN record'[o] = DOMAIN record[o] /\ record'[o].status = "reversed"
          /\ record'[o].quota = record[o].quota /\ record'[o].reversed = g
      BY <1>5, <3>1, ReversedKept DEF LedgerOf
    <3>3. record[o].reversed = 0 /\ record[o].quota \in Int
      BY <1>5, <2>1 DEF LedgerOf
    <3>4. /\ Kept(o) = record[o].quota - record[o].reversed
          /\ Kept(o)' = record'[o].quota - record'[o].reversed
      BY DEF Kept
    <3>5. Kept(o)' = Kept(o) + (-g)
      BY <1>2, <3>2, <3>3, <3>4
    <3> QED  BY <1>2, <1>5, <3>1, <3>2, <3>5 DEF LedgerOf
  <2>2. CASE record[o].status # "granted"
    <3>1. record' = record /\ g = 0
      BY <1>2, <1>4, <2>2
    <3>2. Kept(o) \in Int /\ Kept(o)' = Kept(o)
      BY <1>5, <3>1 DEF LedgerOf, Kept
    <3> QED  BY <1>5, <2>2, <3>1, <3>2 DEF LedgerOf
  <2> QED  BY <2>1, <2>2
<1>7. /\ order'[o] = "refund" /\ \A p \in Orders : p # o => order'[p] = order[p]
      /\ lost' \in [Orders -> Int] /\ \A p \in Orders : p # o => lost'[p] = lost[p]
      /\ lost' = [lost EXCEPT ![o] = @ + (Amount - q)]
  <2>1. order'[o] = "refund" /\ \A p \in Orders : p # o => order'[p] = order[p]
    BY <1>1 DEF IInv, Typed
  <2>2. lost \in [Orders -> Int] /\ Amount - q \in Int
    BY <1>2, <1>5 DEF BInv, MoneyTyped
  <2>3. lost[o] + (Amount - q) = Amount - q
    BY <1>5, <2>2
  <2> QED  BY <1>1, <2>1, <2>2, <2>3
<1>8. OthersRest(h) /\ job'[h].step = "idle"
  BY <1>1, HandlersOrder, AnswerMoves, IdleFields DEF IInv
<1>9. MoneyTyped'
  BY <1>1, <1>3, <1>7 DEF BInv, MoneyTyped
<1>10. LedgerOf(o)'
  <2>1. record'[o].status = "none" => Kept(o)' = 0
    <3>1. ASSUME record'[o].status = "none" PROVE Kept(o)' = 0
      <4>1. record'[o] = record[o] /\ Kept(o)' = Kept(o)
        BY <1>6, <3>1 DEF Kept
      <4> QED  BY <1>5, <3>1, <4>1 DEF LedgerOf
    <3> QED  BY <3>1
  <2> QED  BY <1>1, <1>5, <1>6, <1>7, <2>1 DEF LedgerOf
<1>11. ASSUME NEW p \in Orders, p # o PROVE LedgerOf(p)'
  BY <1>1, <1>6, <1>7, <1>11, LedgerRests DEF BInv
<1>12. \A f \in Handlers : TakesBack(f)'
  <2>1. TakesBack(h)'
    BY <1>8 DEF TakesBack
  <2>2. \A f \in Handlers : f # h /\ job[f].step = "revoking" => job[f].order # o
    BY <1>1 DEF IInv, OneRevoker
  <2> QED  BY <1>6, <1>8, <2>1, <2>2, OthersTakeBack
<1>13. ASSUME Quiet' PROVE Even'
  <2>1. \A p \in Orders : Crediting(p)' = Crediting(p)
    BY <1>1, <1>8, CreditingRests
  <2>2. Crediting(o) = {}
    BY <1>1, NoCrediting
  <2>3. o \in Banked \cap real
    BY <1>1, <1>5, <2>2 DEF Banked, InBank
  <2>4. Banked' = Banked \ {o} /\ (Banked \cap real)' = (Banked \cap real) \ {o}
    <3>1. Banked' = Banked \ {o}
      BY <1>7, <2>1 DEF Banked, InBank
    <3> QED  BY <1>1, <3>1
  <2>5. KeptBy \in [Orders -> Int]
    BY KeptTyped DEF BInv
  <2>6. KeptBy' = [KeptBy EXCEPT ![o] = @ + (-g)]
    <3>1. \A p \in Orders : p # o => Kept(p)' = Kept(p)
      BY <1>6 DEF Kept
    <3> QED  BY <1>6, <3>1 DEF KeptBy
  <2>7. Even /\ t = Amount /\ MoneyTyped
    BY <1>2, <1>13 DEF BInv
  <2>8. account'[Buyer].topup = account[Buyer].topup - Amount
    BY <1>3, <2>7
  <2>9. /\ q \in Int /\ g \in Int /\ UNCHANGED spent
        /\ account'[Buyer].quota = account[Buyer].quota - q
        /\ account'[Inviter].quota = account[Inviter].quota - g
        /\ account'[Inviter].gift = account[Inviter].gift - g
    BY <1>1, <1>2, <1>3
  <2>10. lost' = [lost EXCEPT ![o] = @ + (Amount - q)]
    BY <1>7
  <2> QED  BY <2>3, <2>4, <2>5, <2>6, <2>7, <2>8, <2>9, <2>10, EvenRefunded
<1> QED  BY <1>9, <1>10, <1>11, <1>12, <1>13 DEF BInv

-----------------------------------------------------------------------------
LEMMA BInvInit == Init => BInv
<1> SUFFICES ASSUME Init PROVE BInv
  OBVIOUS
<1>1. MoneyTyped
  BY DEF Init, MoneyTyped, AccountOK
<1>2. ASSUME NEW o \in Orders PROVE LedgerOf(o)
  BY DEF Init, LedgerOf, Kept, NoRecord
<1>3. \A h \in Handlers : TakesBack(h)
  BY DEF Init, TakesBack, Idle
<1>4. Even
  <2>1. Banked = {}
    BY DEF Init, Banked, InBank
  <2>2. Cardinality(Banked) = 0 /\ Cardinality(Banked \cap real) = 0
    BY <2>1, FS_EmptySet
  <2>3. SumFunction(lost) = 0 /\ SumFunction(KeptBy) = 0
    <3>1. IsFiniteSet(Orders)
      BY PaymentsAssumption
    <3>2. lost \in [Orders -> Int] /\ \A o \in Orders : lost[o] = 0
      BY DEF Init
    <3>3. KeptBy \in [Orders -> Int] /\ \A o \in Orders : KeptBy[o] = 0
      BY DEF Init, KeptBy, Kept, NoRecord
    <3> QED  BY <3>1, <3>2, <3>3, SumZero
  <2>4. /\ account[Buyer].topup = 0 /\ account[Buyer].quota = 0 /\ spent[Buyer] = 0
        /\ account[Inviter].gift = 0 /\ account[Inviter].quota = 0 /\ spent[Inviter] = 0
    BY TwoUsers DEF Init
  <2>5. Amount * 0 = 0
    BY PaymentsAssumption
  <2> QED  BY <2>2, <2>3, <2>4, <2>5 DEF Even
<1> QED  BY <1>1, <1>2, <1>3, <1>4 DEF BInv

LEMMA BInvNext == IInv /\ BInv /\ [Next]_vars => BInv'
<1> SUFFICES ASSUME IInv, BInv, [Next]_vars PROVE BInv'
  OBVIOUS
<1>0. Quiet' => Quiet
  BY CausesGrow DEF IInv
<1>1. ASSUME NEW o \in Orders,
             Pay(o) \/ SessionExpires(o) \/ RefundCharge(o) \/ Repeat(o) \/ Redeem(o)
      PROVE  BInv'
  BY <1>0, <1>1, ProviderBooks, RedeemBooks
<1>2. ASSUME NEW u \in Users, Spend(u) PROVE BInv'
  BY <1>0, <1>2, SpendBooks
<1>3. ASSUME NEW h \in Handlers, NEW o \in Orders,
             \/ CompleteManually(h, o) \/ EditReads(h, o)
             \/ \E r \in Reports : Deliver(h, o, r)
      PROVE  BInv'
  BY <1>0, <1>3, StartBooks DEF StartsOn
<1>4. ASSUME NEW h \in Handlers, Work(h) PROVE BInv'
  BY <1>0, <1>4, CompleteBooks, ExpireBooks, ChargeSuccessBooks, RefundReadsBooks,
     RefundCommitsBooks, CryptoFindBooks, CryptoInsertBooks, CryptoCreditBooks, EditSavesBooks,
     RecalcBooks DEF Work
<1>5. ASSUME NEW h \in Handlers, Fail(h) PROVE BInv'
  BY <1>0, <1>5, FailBooks
<1>7. ASSUME NEW h \in Handlers, RefundSwallowed(h) PROVE BInv'
  BY <1>0, <1>7, RefundSwallowedBooks
<1>6. CASE UNCHANGED vars
  BY <1>0, <1>6, StutterBooks
<1> QED  BY <1>1, <1>2, <1>3, <1>4, <1>5, <1>6, <1>7 DEF Next

LEMMA BInvHolds == Spec => []BInv
<1>1. Spec => [](IInv /\ BInv)
  BY IInvInit, IInvNext, BInvInit, BInvNext, PTL DEF Spec
<1> QED  BY <1>1, PTL

\* However many orders, handlers and faults, and in whatever order reports come: the
\* orders, the records and what refunds could not take back explain the accounts to
\* the unit.
THEOREM BooksBalanceHolds == Spec => []BooksBalance
<1>1. BInv => BooksBalance
  <2> SUFFICES ASSUME BInv, Quiet, \A h \in Handlers : job[h].step # "crediting"
               PROVE  LET held == {o \in Orders : order[o] \in {"success", "used"}}
                      IN  /\ account[Buyer].topup = Amount * Cardinality(held \cap real)
                          /\ account[Buyer].quota + spent[Buyer] =
                               Amount * Cardinality(held) + SumFunction(lost)
                          /\ account[Inviter].gift = SumFunction([o \in Orders |-> Kept(o)])
                          /\ account[Inviter].quota + spent[Inviter] = account[Inviter].gift
    BY DEF BooksBalance, Quiet
  <2>1. Banked = {o \in Orders : order[o] \in {"success", "used"}}
    BY DEF Banked, InBank, Crediting
  <2>2. Even
    BY DEF BInv
  <2> QED  BY <2>1, <2>2 DEF Even, KeptBy
<1> QED  BY <1>1, BInvHolds, PTL
=============================================================================
