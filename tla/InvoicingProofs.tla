-------------------------- MODULE InvoicingProofs --------------------------
(***************************************************************************)
(* Proofs about Invoicing, for any orders and workers and for every bound: *)
(* types, numbers, the lease, the order of invoice and note, and verdicts. *)
(*                                                                         *)
(* Until a document is accepted it has one worker, who holds its lease:    *)
(* the lease outlives every step but the mail, which comes after the       *)
(* acceptance (Sole, Leases).  So what a worker knows of its document, the *)
(* number it gave, the contents it signed and the DIAN's answer, is still  *)
(* so when it writes (StepFits).  And an accepted document stays accepted, *)
(* so that what was decided of a note on its account stays right.          *)
(***************************************************************************)
EXTENDS Invoicing, FiniteSetTheorems, TLAPS

\* The steps between the claim and the last update.
Sending == {"read", "park", "wait", "poll", "number", "build", "send", "sent",
            "valid", "invalid", "duplicate", "busy", "failed", "refused"}

Production == config.environment = "1"

\* A row r and what the DIAN holds as valid, v, go together.
RowFits(r, v) ==
    /\ r.number # 0 => r.issue # 0
    /\ r.status = "SENT" => r.signed # 0
    /\ r.status = "ACCEPTED" => r.signed # 0 /\ v = r.signed
    /\ r.mailed => r.status = "ACCEPTED"
    /\ Production /\ r.status = "REJECTED" => v = 0
    /\ Production /\ v # 0 => v = r.signed

\* What a worker at step s knows of its document.
StepFits(s, r, v) ==
    /\ s # "idle"
    /\ s \in {"mail", "wake", "resend"} => r.status = "ACCEPTED"
    /\ s \in Sending => r.status \in Open /\ r.attempts >= 0
    /\ r.status # "ACCEPTED" => r.locked
    /\ s = "build" => r.number # 0
    /\ s \in {"send", "poll", "sent", "duplicate"} => r.signed # 0
    /\ s = "valid" => r.signed # 0 /\ v = r.signed
    /\ s = "invalid" /\ Production => v = 0

\* A note is numbered only once its invoice is accepted, and that it stays.
Cleared(d) == d \in Notes => row[InvoiceOf(d)].status = "ACCEPTED"

WorkerFits(w) ==
    LET d == work[w].doc
    IN  IF d = NoDoc THEN work[w] = Idle
        ELSE /\ StepFits(work[w].step, row[d], valid[d])
             /\ work[w].step = "number" => Cleared(d)

Sole ==
    \A v, w \in Worker :
        work[v].doc = work[w].doc /\ work[v].doc # NoDoc /\ v # w =>
            row[work[v].doc].status = "ACCEPTED"

Retries == retry \subseteq Doc \X {"REJECTED", "ERROR", "PENDING"}

Documents ==
    \A d \in Doc : /\ RowFits(row[d], valid[d])
                   /\ Production => received[d] = 0
                   /\ row[d].number # 0 => Cleared(d)

Workers == \A w \in Worker : WorkerFits(w)

InvoicingInv == TypeOK /\ Retries /\ Documents /\ Workers /\ Sole /\ NumbersDense

-----------------------------------------------------------------------------

LEMMA DocFacts ==
    /\ NoDoc \notin Doc /\ Invoices \subseteq Doc /\ Notes \subseteq Doc
    /\ \A d \in Doc : /\ InvoiceOf(d) \in Invoices /\ NoteOf(d) \in Notes
                      /\ d \in Invoices \/ d \in Notes
                      /\ d \in Order \X Kind /\ d[2] \in Kind
    /\ \A d \in Invoices : d \notin Notes
  BY InvoicingAssumption DEF Doc, Kind, Invoices, Notes, InvoiceOf, NoteOf

LEMMA InitInvoicing == Init => InvoicingInv
<1> SUFFICES ASSUME Init PROVE InvoicingInv
  OBVIOUS
<1>1. /\ NoRow \in Row /\ NoRow.number = 0 /\ NoRow.signed = 0 /\ NoRow.status = "NONE"
      /\ NoRow.mailed = FALSE
  BY InvoicingAssumption DEF NoRow, Row, Statuses
<1>2. Idle \in WorkState /\ Idle.doc = NoDoc
  BY InvoicingAssumption DEF Idle, WorkState, Steps
<1>3. TypeOK
  BY <1>1, <1>2, InvoicingAssumption DEF Init, TypeOK
<1>4. Documents
  BY <1>1 DEF Init, Documents, RowFits
<1>5. Workers /\ Sole /\ Retries
  BY <1>2 DEF Init, Workers, WorkerFits, Sole, Retries
<1>6. NumbersDense
  <2>1. \A d \in Doc : row[d].number = 0
    BY <1>1 DEF Init
  <2>2. ASSUME NEW k \in Kind
        PROVE  {row[d].number : d \in Order \X {k}} \ {0} = 1..(next[k] - 1)
    <3>1. \A d \in Order \X {k} : d \in Doc
      BY DEF Doc
    <3>2. next[k] - 1 = 0
      BY DEF Init
    <3> QED
      BY <2>1, <3>1, <3>2
  <2>3. \A d \in Invoices : row[d].number <= config.to
    <3>1. config.to \in Nat
      BY InvoicingAssumption DEF Init
    <3> QED
      BY <2>1, <3>1, DocFacts
  <2> QED
    BY <2>1, <2>2, <2>3 DEF NumbersDense
<1> QED
  BY <1>3, <1>4, <1>5, <1>6 DEF InvoicingInv

-----------------------------------------------------------------------------
(* A step writes one document.                                              *)

Writes(d, r, v, x) ==
    /\ row' = [row EXCEPT ![d] = r]
    /\ valid' = [valid EXCEPT ![d] = v]
    /\ received' = [received EXCEPT ![d] = x]
    /\ UNCHANGED config
    /\ RowFits(r, v) /\ (Production => x = 0)
    /\ r.number # 0 => Cleared(d)
    /\ row[d].status = "ACCEPTED" => r.status = "ACCEPTED"

LEMMA RowsTyped ==
    ASSUME InvoicingInv
    PROVE  /\ row \in [Doc -> Row] /\ valid \in [Doc -> 0..MaxIssues]
           /\ received \in [Doc -> 0..MaxIssues] /\ work \in [Worker -> WorkState]
           /\ \A d \in Doc : row[d] \in Row /\ valid[d] \in 0..MaxIssues
                             /\ received[d] \in 0..MaxIssues
           /\ \A w \in Worker : work[w].doc \in Doc \cup {NoDoc}
  BY DEF InvoicingInv, TypeOK, WorkState

LEMMA RowAfter ==
    ASSUME InvoicingInv, NEW d \in Doc, NEW r \in Row, NEW v, NEW x, Writes(d, r, v, x)
    PROVE  /\ row'[d] = r /\ valid'[d] = v /\ received'[d] = x
           /\ \A e \in Doc : e # d => /\ row'[e] = row[e] /\ valid'[e] = valid[e]
                                      /\ received'[e] = received[e]
           /\ \A e \in Doc : row[e].status = "ACCEPTED" => row'[e].status = "ACCEPTED"
           /\ \A e \in Doc : Cleared(e) => Cleared(e)'
           /\ Production' = Production
<1>1. /\ row'[d] = r /\ valid'[d] = v /\ received'[d] = x
      /\ \A e \in Doc : e # d => /\ row'[e] = row[e] /\ valid'[e] = valid[e]
                                 /\ received'[e] = received[e]
  BY RowsTyped DEF Writes
<1>2. \A e \in Doc : row[e].status = "ACCEPTED" => row'[e].status = "ACCEPTED"
  BY <1>1 DEF Writes
<1>3. \A e \in Doc : Cleared(e) => Cleared(e)'
  BY <1>2, DocFacts DEF Cleared
<1>4. Production' = Production
  BY DEF Writes, Production
<1> QED
  BY <1>1, <1>2, <1>3, <1>4

\* A step that gives no number.
LEMMA NumbersStay ==
    ASSUME NumbersDense, UNCHANGED <<config, next>>,
           \A e \in Doc : row'[e].number = row[e].number
    PROVE  NumbersDense'
<1>1. ASSUME NEW k \in Kind
      PROVE  {row'[e].number : e \in Order \X {k}} = {row[e].number : e \in Order \X {k}}
  <2>1. \A e \in Order \X {k} : e \in Doc
    BY DEF Doc
  <2> QED
    BY <2>1
<1>2. \A d \in Invoices : row'[d].number <= config'.to
  BY DocFacts DEF NumbersDense
<1> QED
  BY <1>1, <1>2 DEF NumbersDense

LEMMA DocStep ==
    ASSUME InvoicingInv, NEW d \in Doc, NEW r \in Row,
           NEW v \in 0..MaxIssues, NEW x \in 0..MaxIssues, Writes(d, r, v, x),
           next' \in [Kind -> Nat \ {0}], NumbersDense',
           calls' \subseteq Doc, Retries', work' \in [Worker -> WorkState], Workers', Sole'
    PROVE  InvoicingInv'
<1>1. TypeOK'
  <2>1. /\ row' \in [Doc -> Row] /\ valid' \in [Doc -> 0..MaxIssues]
        /\ received' \in [Doc -> 0..MaxIssues]
    BY RowsTyped DEF Writes
  <2>2. retry' \subseteq Doc \X Statuses
    BY DEF Retries, Statuses
  <2> QED
    BY <2>1, <2>2 DEF TypeOK, InvoicingInv, Writes
<1>2. Documents'
  <2> SUFFICES ASSUME NEW e \in Doc
               PROVE  /\ RowFits(row[e], valid[e])'
                      /\ Production' => received'[e] = 0
                      /\ row'[e].number # 0 => Cleared(e)'
    BY DEF Documents
  <2>1. CASE e = d
    <3>1. row'[e] = r /\ valid'[e] = v /\ received'[e] = x
      BY <2>1, RowAfter
    <3>2. RowFits(r, v) /\ (Production => x = 0) /\ (r.number # 0 => Cleared(e))
      BY <2>1 DEF Writes
    <3>3. Production' = Production /\ (Cleared(e) => Cleared(e)')
      BY RowAfter
    <3>4. RowFits(row[e], valid[e])'
      BY <3>1, <3>2, <3>3 DEF RowFits
    <3> QED
      BY <3>1, <3>2, <3>3, <3>4
  <2>2. CASE e # d
    <3>1. /\ RowFits(row'[e], valid'[e]) /\ (Production => received'[e] = 0)
          /\ row'[e].number # 0 => Cleared(e)
      BY <2>2, RowAfter DEF InvoicingInv, Documents
    <3>2. RowFits(row[e], valid[e])'
      BY <3>1, RowAfter DEF RowFits
    <3> QED
      BY <3>1, <3>2, RowAfter
  <2> QED
    BY <2>1, <2>2
<1> QED
  BY <1>1, <1>2 DEF InvoicingInv

\* A worker the step does not move.
LEMMA OthersFit ==
    ASSUME InvoicingInv, NEW d \in Doc, NEW r \in Row, NEW v, NEW x, Writes(d, r, v, x),
           NEW u \in Worker, work'[u] = work[u],
           work[u].doc = d => StepFits(work[u].step, r, v)
    PROVE  WorkerFits(u)'
<1>1. WorkerFits(u)
  BY DEF InvoicingInv, Workers
<1>2. CASE work[u].doc = NoDoc
  BY <1>1, <1>2 DEF WorkerFits, Idle
<1>3. CASE work[u].doc # NoDoc
  <2>1. work[u].doc \in Doc
    BY <1>3, RowsTyped
  <2>2. StepFits(work[u].step, row'[work[u].doc], valid'[work[u].doc])
    BY <1>1, <1>3, <2>1, RowAfter DEF WorkerFits
  <2>3. StepFits(work[u].step, row[work[u].doc], valid[work[u].doc])'
    BY <2>2, RowAfter DEF StepFits
  <2>4. work[u].step = "number" => Cleared(work[u].doc)'
    BY <1>1, <1>3, <2>1, RowAfter DEF WorkerFits
  <2> QED
    BY <1>3, <2>3, <2>4 DEF WorkerFits
<1> QED
  BY <1>2, <1>3

\* A step of no worker.
LEMMA BareStep ==
    ASSUME InvoicingInv, NEW d \in Doc, NEW r \in Row,
           NEW v \in 0..MaxIssues, NEW x \in 0..MaxIssues, Writes(d, r, v, x),
           UNCHANGED <<next, work>>, r.number = row[d].number,
           calls' \subseteq Doc, Retries',
           \A u \in Worker : work[u].doc = d => StepFits(work[u].step, r, v)
    PROVE  InvoicingInv'
<1>1. NumbersDense'
  <2>1. \A e \in Doc : row'[e].number = row[e].number
    BY RowAfter
  <2> QED
    BY <2>1, NumbersStay DEF InvoicingInv, Writes
<1>2. Workers'
  BY OthersFit DEF Workers
<1>3. Sole'
  BY RowAfter, RowsTyped DEF InvoicingInv, Sole
<1>4. next' \in [Kind -> Nat \ {0}] /\ work' \in [Worker -> WorkState]
  BY RowsTyped DEF InvoicingInv, TypeOK
<1> QED
  BY <1>1, <1>2, <1>3, <1>4, DocStep

\* A step of worker w, on the document that nobody else is sending.
LEMMA WorkerStep ==
    ASSUME InvoicingInv, NEW w \in Worker, NEW d \in Doc, NEW k \in WorkState, NEW r \in Row,
           NEW v \in 0..MaxIssues, NEW x \in 0..MaxIssues, Writes(d, r, v, x),
           work' = [work EXCEPT ![w] = k],
           \/ k = Idle
           \/ k.doc = d /\ StepFits(k.step, r, v) /\ (k.step = "number" => Cleared(d)),
           \A u \in Worker : u # w /\ work[u].doc = d => row[d].status = "ACCEPTED",
           next' \in [Kind -> Nat \ {0}], NumbersDense', calls' \subseteq Doc, Retries'
    PROVE  InvoicingInv'
<1>1. /\ work' \in [Worker -> WorkState] /\ work'[w] = k
      /\ \A u \in Worker : u # w => work'[u] = work[u]
  BY RowsTyped
<1>2. ASSUME NEW u \in Worker, u # w
      PROVE  WorkerFits(u)'
  <2>1. work[u].doc = d => StepFits(work[u].step, row[d], valid[d])
    BY DocFacts DEF InvoicingInv, Workers, WorkerFits
  <2>2. work[u].doc = d => row[d].status = "ACCEPTED" /\ r.status = "ACCEPTED"
    BY <1>2 DEF Writes
  <2>3. work[u].doc = d => StepFits(work[u].step, r, v)
    BY <2>1, <2>2 DEF StepFits, Sending, Open
  <2> QED
    BY <1>1, <1>2, <2>3, OthersFit
<1>3. WorkerFits(w)'
  <2>1. CASE k = Idle
    BY <1>1, <2>1 DEF WorkerFits, Idle
  <2>2. CASE k # Idle
    <3>1. /\ work'[w].doc = d /\ d # NoDoc /\ StepFits(work'[w].step, row'[d], valid'[d])
          /\ work'[w].step = "number" => Cleared(d)'
      BY <1>1, <2>2, RowAfter, DocFacts
    <3>2. StepFits(work[w].step, row[d], valid[d])'
      BY <3>1, RowAfter DEF StepFits
    <3> QED
      BY <3>1, <3>2 DEF WorkerFits
  <2> QED
    BY <2>1, <2>2
<1>4. Sole'
  <2> SUFFICES ASSUME NEW s \in Worker, NEW u \in Worker, s # u,
                      work'[s].doc = work'[u].doc, work'[s].doc # NoDoc
               PROVE  row'[work'[s].doc].status = "ACCEPTED"
    BY DEF Sole
  <2>1. k.doc \in {NoDoc, d}
    BY DEF Idle
  <2>2. CASE s # w /\ u # w
    <3>1. work[s].doc \in Doc /\ row[work[s].doc].status = "ACCEPTED"
      BY <1>1, <2>2, RowsTyped DEF InvoicingInv, Sole
    <3> QED
      BY <1>1, <2>2, <3>1, RowAfter
  <2>3. CASE s = w
    <3>1. work'[s].doc = d /\ work[u].doc = d /\ u # w
      BY <1>1, <2>1, <2>3
    <3> QED
      BY <3>1, RowAfter
  <2>4. CASE u = w
    <3>1. work'[s].doc = d /\ work[s].doc = d /\ s # w
      BY <1>1, <2>1, <2>4
    <3> QED
      BY <3>1, RowAfter
  <2> QED
    BY <2>2, <2>3, <2>4
<1>5. Workers'
  BY <1>2, <1>3 DEF Workers
<1> QED
  BY <1>1, <1>4, <1>5, DocStep

\* A step that leaves every document alone.
LEMMA QuietStep ==
    ASSUME InvoicingInv, UNCHANGED <<config, row, next, dianVars>>,
           calls' \subseteq Doc, Retries',
           UNCHANGED work \/ work' = [w \in Worker |-> Idle]
    PROVE  InvoicingInv'
<1>1. Idle \in WorkState /\ Idle.doc = NoDoc
  BY InvoicingAssumption DEF Idle, WorkState, Steps, InvoicingInv, TypeOK
<1>2. TypeOK'
  BY <1>1 DEF InvoicingInv, TypeOK, dianVars, Retries, Statuses
<1>3. Documents' /\ NumbersDense'
  BY DEF InvoicingInv, Documents, NumbersDense, RowFits, Production, Cleared, dianVars
<1>4. Workers' /\ Sole'
  <2>1. CASE UNCHANGED work
    BY <2>1 DEF InvoicingInv, Workers, WorkerFits, Sole, StepFits, Production, Cleared, dianVars
  <2>2. CASE work' = [w \in Worker |-> Idle]
    BY <1>1, <2>2 DEF Workers, WorkerFits, Sole
  <2> QED
    BY <2>1, <2>2
<1> QED
  BY <1>2, <1>3, <1>4 DEF InvoicingInv

-----------------------------------------------------------------------------
(* What processDocument does, and where.                                    *)

\* A row that a step leaves as it is.
LEMMA SameRow ==
    ASSUME InvoicingInv, NEW d \in Doc, UNCHANGED <<config, row, dianVars>>
    PROVE  Writes(d, row[d], valid[d], received[d])
<1>1. /\ row' = [row EXCEPT ![d] = row[d]] /\ valid' = [valid EXCEPT ![d] = valid[d]]
      /\ received' = [received EXCEPT ![d] = received[d]]
  BY RowsTyped DEF dianVars
<1> QED
  BY <1>1 DEF Writes, InvoicingInv, Documents

\* The worker has a document; it is the only one unless that is accepted.
LEMMA AtWork ==
    ASSUME InvoicingInv, NEW w \in Worker, work[w].step # "idle"
    PROVE  LET d == work[w].doc
           IN  /\ d \in Doc /\ StepFits(work[w].step, row[d], valid[d])
               /\ work[w].step = "number" => Cleared(d)
               /\ RowFits(row[d], valid[d]) /\ (Production => received[d] = 0)
               /\ row[d].number # 0 => Cleared(d)
               /\ \A u \in Worker : u # w /\ work[u].doc = d => row[d].status = "ACCEPTED"
<1> DEFINE d == work[w].doc
<1>1. WorkerFits(w)
  BY DEF InvoicingInv, Workers
<1>2. d # NoDoc
  BY <1>1 DEF WorkerFits, Idle
<1>3. d \in Doc
  BY <1>2, RowsTyped
<1>4. \A u \in Worker : u # w /\ work[u].doc = d => row[d].status = "ACCEPTED"
  BY <1>2 DEF InvoicingInv, Sole
<1> QED
  BY <1>1, <1>2, <1>3, <1>4 DEF WorkerFits, InvoicingInv, Documents

\* A worker writes its own row, or has the DIAN write what it holds.
LEMMA MoveStep ==
    ASSUME InvoicingInv, NEW w \in Worker, NEW from \in Steps, NEW to \in Steps,
           from # "idle", to # "number", Moves(w, from, to), UNCHANGED next,
           NEW r \in Row, NEW v \in 0..MaxIssues, NEW x \in 0..MaxIssues,
           Writes(work[w].doc, r, v, x), r.number = row[work[w].doc].number,
           StepFits(to, r, v)
    PROVE  InvoicingInv'
<1> DEFINE d == work[w].doc
           k == [work[w] EXCEPT !.step = to]
<1>1. work[w] \in WorkState /\ work[w].step = from
  BY RowsTyped DEF Moves
<1>2. k \in WorkState /\ k.doc = d /\ k.step = to
  BY <1>1 DEF WorkState
<1>3. work' = [work EXCEPT ![w] = k]
  BY RowsTyped DEF Moves
<1>4. d \in Doc /\ \A u \in Worker : u # w /\ work[u].doc = d => row[d].status = "ACCEPTED"
  BY <1>1, AtWork
<1>5. NumbersDense'
  <2>1. \A e \in Doc : row'[e].number = row[e].number
    BY <1>4, RowAfter
  <2> QED
    BY <2>1, NumbersStay DEF InvoicingInv, Writes
<1>6. next' \in [Kind -> Nat \ {0}] /\ calls' \subseteq Doc /\ Retries'
  BY DEF InvoicingInv, TypeOK, Moves, Retries
<1> HIDE DEF d, k
<1>7. Writes(d, r, v, x)
  BY DEF d
<1>8. k.doc = d /\ StepFits(k.step, r, v) /\ (k.step = "number" => Cleared(d))
  BY <1>2
<1> QED
  BY <1>2, <1>3, <1>4, <1>5, <1>6, <1>7, <1>8, WorkerStep

LEMMA AsksStep ==
    ASSUME InvoicingInv, NEW w \in Worker, NEW from \in Steps, NEW to \in Steps,
           from # "idle", to # "number", Asks(w, from, to),
           StepFits(to, row[work[w].doc], valid[work[w].doc])
    PROVE  InvoicingInv'
<1> DEFINE d == work[w].doc
<1>1. Moves(w, from, to) /\ UNCHANGED <<config, row, next, dianVars>>
  BY DEF Asks, Moves
<1>2. d \in Doc
  BY <1>1, AtWork DEF Moves
<1>3. row[d] \in Row /\ valid[d] \in 0..MaxIssues /\ received[d] \in 0..MaxIssues
  BY <1>2, RowsTyped
<1>4. Writes(d, row[d], valid[d], received[d])
  BY <1>1, <1>2, SameRow
<1> QED
  BY <1>1, <1>2, <1>3, <1>4, MoveStep

LEMMA WritesRowStep ==
    ASSUME InvoicingInv, NEW w \in Worker, NEW from \in Steps, NEW to \in Steps,
           from # "idle", to # "number", NEW r \in Row,
           WritesRow(w, from, to, work[w].doc, r),
           RowFits(r, valid[work[w].doc]), r.number = row[work[w].doc].number,
           row[work[w].doc].status = "ACCEPTED" => r.status = "ACCEPTED",
           StepFits(to, r, valid[work[w].doc])
    PROVE  InvoicingInv'
<1> DEFINE d == work[w].doc
<1>1. Moves(w, from, to) /\ row' = [row EXCEPT ![d] = r] /\ UNCHANGED <<config, next, valid, received>>
  BY DEF WritesRow, Moves, dianVars
<1>2. /\ d \in Doc /\ (Production => received[d] = 0)
      /\ row[d].number # 0 => Cleared(d)
  BY <1>1, AtWork DEF Moves
<1>3. valid[d] \in 0..MaxIssues /\ received[d] \in 0..MaxIssues
  BY <1>2, RowsTyped
<1>4. valid' = [valid EXCEPT ![d] = valid[d]] /\ received' = [received EXCEPT ![d] = received[d]]
  BY <1>1, RowsTyped
<1>5. Writes(d, r, valid[d], received[d])
  BY <1>1, <1>2, <1>4 DEF Writes
<1> QED
  BY <1>1, <1>3, <1>5, MoveStep

\* The steps that only ask or compute.
LEMMA AskingSteps ==
    ASSUME InvoicingInv, NEW w \in Worker,
           GetStatusZip(w) \/ GetStatus(w) \/ CallFails(w) \/ Fail(w) \/ Escape(w)
    PROVE  InvoicingInv'
<1> DEFINE d == work[w].doc
<1>1. PICK from \in Steps, to \in Steps :
        /\ Asks(w, from, to) /\ from # "idle" /\ to # "number"
        /\ \/ to = "release" /\ from # "number"
           \/ from \in Sending /\ to \in {"failed", "refused"}
           \/ from = "poll" /\ to = "busy"
           \/ from = "poll" /\ to = "invalid" /\ valid[d] = 0
           \/ from \in {"poll", "duplicate"} /\ to = "valid" /\ valid[d] = row[d].signed
           \/ from = "poll" /\ to = "duplicate"
           \/ from = "duplicate" /\ to = "invalid" /\ valid[d] # row[d].signed
  BY DEF GetStatusZip, GetStatus, CallFails, Fail, Escape, Steps, Sending
<1>2. /\ StepFits(from, row[d], valid[d]) /\ RowFits(row[d], valid[d])
  BY <1>1, AtWork DEF Asks, Moves
<1> HIDE DEF d
<1>3. StepFits(to, row[d], valid[d])
  BY <1>1, <1>2 DEF StepFits, RowFits, Sending
<1> QED
  BY <1>1, <1>3, AsksStep DEF d

\* A worker writes status and nextAttemptAt.
LEMMA ToldStep ==
    ASSUME InvoicingInv, NEW w \in Worker, NEW from \in Sending, NEW to \in {"release", "mail"},
           NEW s \in Statuses, NEW when \in {"later", "never"},
           WritesRow(w, from, to, work[w].doc, Told(work[w].doc, s, when)),
           s = "SENT" => from = "sent",
           s = "ACCEPTED" => from = "valid",
           s = "REJECTED" => from = "invalid",
           to = "mail" => s = "ACCEPTED"
    PROVE  InvoicingInv'
<1> DEFINE d == work[w].doc
           r == Told(d, s, when)
<1>1. work[w].step = from /\ from \in Steps /\ from # "idle" /\ to \in Steps
  BY DEF WritesRow, Moves, Sending, Steps
<1>2. d \in Doc /\ StepFits(from, row[d], valid[d]) /\ RowFits(row[d], valid[d])
  BY <1>1, AtWork
<1>3. row[d] \in Row
  BY <1>2, RowsTyped
<1>4. /\ r \in Row /\ r.status = s /\ r.number = row[d].number /\ r.issue = row[d].issue
      /\ r.signed = row[d].signed /\ r.mailed = row[d].mailed /\ r.locked = row[d].locked
  BY <1>3 DEF Told, Row
<1> HIDE DEF d, r
<1>5. RowFits(r, valid[d]) /\ StepFits(to, r, valid[d])
  BY <1>1, <1>2, <1>4 DEF RowFits, StepFits, Sending, Open, Statuses
<1>6. row[d].status # "ACCEPTED"
  BY <1>2 DEF StepFits, Open
<1> QED
  BY <1>1, <1>4, <1>5, <1>6, WritesRowStep DEF d, r

LEMMA TellingSteps ==
    ASSUME InvoicingInv, NEW w \in Worker,
           \/ Park(w) \/ Sent(w) \/ MarkRejected(w) \/ MarkError(w) \/ MarkAccepted(w)
    PROVE  InvoicingInv'
<1>1. CASE Park(w)
  BY <1>1, ToldStep DEF Park, Sending, Statuses
<1>2. CASE Sent(w)
  BY <1>2, ToldStep DEF Sent, Sending, Statuses
<1>3. CASE MarkRejected(w)
  BY <1>3, ToldStep DEF MarkRejected, Sending, Statuses
<1>4. CASE MarkError(w)
  BY <1>4, ToldStep DEF MarkError, Sending, Statuses
<1>5. CASE MarkAccepted(w)
  BY <1>5, ToldStep DEF MarkAccepted, Sending, Statuses
<1> QED
  BY <1>1, <1>2, <1>3, <1>4, <1>5

LEMMA WaitStep ==
    ASSUME InvoicingInv, NEW w \in Worker, Wait(w) \/ StillValidating(w)
    PROVE  InvoicingInv'
<1> DEFINE d == work[w].doc
           r == IF Wait(w) THEN [Told(d, "PENDING", "later") EXCEPT !.attempts = @ - 1]
                ELSE [row[d] EXCEPT !.due = "later", !.attempts = @ - 1]
<1>1. PICK from \in Sending : WritesRow(w, from, "release", d, r) /\ work[w].step = from
  BY DEF Wait, StillValidating, WritesRow, Moves, Sending
<1>2. d \in Doc /\ StepFits(from, row[d], valid[d]) /\ RowFits(row[d], valid[d])
  BY <1>1, AtWork DEF Sending
<1>3. row[d] \in Row
  BY <1>2, RowsTyped
<1>4. row[d].attempts - 1 \in -1..MaxClaims
  <2>1. row[d].attempts \in -1..MaxClaims /\ row[d].attempts >= 0
    BY <1>2, <1>3 DEF Row, StepFits
  <2>2. MaxClaims \in Nat
    BY InvoicingAssumption
  <2> QED
    BY <2>1, <2>2
<1>5. /\ r \in Row /\ r.status \in {"PENDING", row[d].status} /\ r.number = row[d].number
      /\ r.issue = row[d].issue /\ r.signed = row[d].signed /\ r.mailed = row[d].mailed
      /\ r.locked = row[d].locked
  BY <1>3, <1>4 DEF Told, Row, Statuses
<1>6. from \in Steps /\ from # "idle" /\ "release" \in Steps
  BY DEF Sending, Steps
<1> HIDE DEF d, r
<1>7. RowFits(r, valid[d]) /\ StepFits("release", r, valid[d])
  BY <1>2, <1>5 DEF RowFits, StepFits, Sending, Open
<1>8. row[d].status # "ACCEPTED"
  BY <1>2 DEF StepFits, Open
<1> QED
  BY <1>1, <1>5, <1>6, <1>7, <1>8, WritesRowStep DEF d

LEMMA BuildStep ==
    ASSUME InvoicingInv, NEW w \in Worker, BuildSignedDocument(w)
    PROVE  InvoicingInv'
<1> DEFINE d == work[w].doc
           r == [row[d] EXCEPT !.signed = IF @ = 0 THEN row[d].issue ELSE @]
<1>1. WritesRow(w, "build", "send", d, r) /\ work[w].step = "build"
  BY DEF BuildSignedDocument, WritesRow, Moves
<1>2. d \in Doc /\ StepFits("build", row[d], valid[d]) /\ RowFits(row[d], valid[d])
  BY <1>1, AtWork
<1>3. row[d] \in Row
  BY <1>2, RowsTyped
<1>4. /\ r \in Row /\ r.status = row[d].status /\ r.number = row[d].number
      /\ r.issue = row[d].issue /\ r.mailed = row[d].mailed /\ r.locked = row[d].locked
      /\ r.attempts = row[d].attempts
      /\ r.signed = IF row[d].signed = 0 THEN row[d].issue ELSE row[d].signed
  BY <1>3 DEF Row
<1>5. "build" \in Steps /\ "send" \in Steps
  BY DEF Steps
<1> HIDE DEF d, r
<1>6. RowFits(r, valid[d])
  BY <1>2, <1>4 DEF RowFits, StepFits, Sending, Open
<1>7. StepFits("send", r, valid[d])
  BY <1>2, <1>4 DEF RowFits, StepFits, Sending
<1> QED
  BY <1>1, <1>4, <1>5, <1>6, <1>7, WritesRowStep DEF d

LEMMA DeliveringSteps ==
    ASSUME InvoicingInv, NEW w \in Worker, DeliverDocument(w) \/ ResendDocument(w)
    PROVE  InvoicingInv'
<1> DEFINE d == work[w].doc
           r == [row[d] EXCEPT !.mailed = TRUE]
<1>1. PICK from \in {"mail", "resend"}, to \in {"wake", "release"} :
        Asks(w, from, to) \/ WritesRow(w, from, to, d, r)
  BY DEF DeliverDocument, ResendDocument, Delivers
<1>2. work[w].step = from
  BY <1>1 DEF Asks, WritesRow, Moves
<1>3. d \in Doc /\ StepFits(from, row[d], valid[d]) /\ RowFits(row[d], valid[d])
  BY <1>2, AtWork
<1>4. row[d] \in Row
  BY <1>3, RowsTyped
<1>5. /\ r \in Row /\ r.status = row[d].status /\ r.number = row[d].number
      /\ r.issue = row[d].issue /\ r.signed = row[d].signed
  BY <1>4 DEF Row
<1>6. from \in Steps /\ to \in Steps
  BY DEF Steps
<1> HIDE DEF d, r
<1>7. /\ RowFits(r, valid[d]) /\ StepFits(to, r, valid[d]) /\ StepFits(to, row[d], valid[d])
  BY <1>3, <1>5 DEF RowFits, StepFits, Sending
<1>8. CASE Asks(w, from, to)
  BY <1>6, <1>7, <1>8, AsksStep DEF d
<1>9. CASE WritesRow(w, from, to, d, r)
  BY <1>5, <1>6, <1>7, <1>9, WritesRowStep DEF d
<1> QED
  BY <1>1, <1>8, <1>9

\* What the DIAN takes.
LEMMA SendingSteps ==
    ASSUME InvoicingInv, NEW w \in Worker, SendBillSync(w) \/ SendTestSetAsync(w)
    PROVE  InvoicingInv'
<1> DEFINE d == work[w].doc
<1>1. work[w].step = "send" /\ UNCHANGED <<config, row, next>>
  BY DEF SendBillSync, SendTestSetAsync, Moves
<1>2. /\ d \in Doc /\ StepFits("send", row[d], valid[d]) /\ RowFits(row[d], valid[d])
      /\ (Production => received[d] = 0) /\ (row[d].number # 0 => Cleared(d))
  BY <1>1, AtWork
<1>3. /\ row[d] \in Row /\ valid[d] \in 0..MaxIssues /\ received[d] \in 0..MaxIssues
      /\ row[d].signed \in 0..MaxIssues /\ row' = [row EXCEPT ![d] = row[d]]
  BY <1>1, <1>2, RowsTyped DEF Row
<1>4. PICK to \in {"duplicate", "invalid", "valid", "failed", "sent"},
           v \in {valid[d], row[d].signed}, x \in {received[d], row[d].signed} :
        /\ Moves(w, "send", to)
        /\ valid' = [valid EXCEPT ![d] = v] /\ received' = [received EXCEPT ![d] = x]
        /\ v # valid[d] => valid[d] = 0
        /\ to = "valid" => v = row[d].signed
        /\ to = "invalid" => v = valid[d] /\ (Production => v = 0)
        /\ Production => x = 0
  <2>1. CASE SendBillSync(w)
    <3>1. received' = [received EXCEPT ![d] = received[d]]
      BY <2>1, RowsTyped DEF SendBillSync
    <3>2. CASE UNCHANGED valid
      <4>1. valid' = [valid EXCEPT ![d] = valid[d]]
        BY <3>2, RowsTyped
      <4>2. \/ Moves(w, "send", "duplicate")
            \/ Moves(w, "send", "invalid") /\ valid[d] = 0
            \/ (Moves(w, "send", "valid") \/ Moves(w, "send", "failed")) /\ valid[d] = 0
               /\ valid' = [valid EXCEPT ![d] = row[d].signed]
        BY <2>1 DEF SendBillSync
      <4> QED
        BY <1>2, <3>1, <4>1, <4>2
    <3>3. CASE ~UNCHANGED valid
      <4>1. /\ Moves(w, "send", "valid") \/ Moves(w, "send", "failed")
            /\ valid[d] = 0 /\ valid' = [valid EXCEPT ![d] = row[d].signed]
        BY <2>1, <3>3 DEF SendBillSync
      <4> QED
        BY <1>2, <3>1, <4>1
    <3> QED
      BY <3>2, <3>3
  <2>2. CASE SendTestSetAsync(w)
    <3>1. ~Production /\ valid' = [valid EXCEPT ![d] = valid[d]]
      BY <2>2, RowsTyped DEF SendTestSetAsync, Production
    <3>2. CASE Moves(w, "send", "invalid") /\ UNCHANGED received
      <4>1. received' = [received EXCEPT ![d] = received[d]]
        BY <3>2, RowsTyped
      <4> QED
        BY <3>1, <3>2, <4>1
    <3>3. CASE /\ Moves(w, "send", "sent") \/ Moves(w, "send", "failed")
               /\ received' = [received EXCEPT ![d] = IF @ = 0 THEN row[d].signed ELSE @]
      BY <3>1, <3>3
    <3> QED
      BY <2>2, <3>2, <3>3 DEF SendTestSetAsync
  <2> QED
    BY <2>1, <2>2
<1>5. to \in Steps /\ to # "number" /\ "send" \in Steps
  BY DEF Steps
<1>6. RowFits(row[d], v) /\ StepFits(to, row[d], v)
  BY <1>2, <1>4 DEF RowFits, StepFits, Sending, Open
<1>7. Writes(d, row[d], v, x)
  BY <1>1, <1>2, <1>3, <1>4, <1>6 DEF Writes
<1> HIDE DEF d
<1>8. v \in 0..MaxIssues /\ x \in 0..MaxIssues
  BY <1>3
<1> QED
  BY <1>1, <1>3, <1>4, <1>5, <1>6, <1>7, <1>8, MoveStep DEF d

\* The document is read: a note goes on only if its invoice is accepted.
LEMMA InspectStep ==
    ASSUME InvoicingInv, NEW w \in Worker, Inspect(w)
    PROVE  InvoicingInv'
<1> DEFINE d == work[w].doc
<1>1. PICK s \in {FirstStep(d), "failed"} :
        work' = [work EXCEPT ![w].tries = row[d].attempts, ![w].step = s]
  BY DEF Inspect
<1>2. work[w].step = "read" /\ UNCHANGED <<config, calls, retry, row, next, dianVars>>
  BY DEF Inspect
<1>3. /\ d \in Doc /\ StepFits("read", row[d], valid[d]) /\ RowFits(row[d], valid[d])
      /\ \A u \in Worker : u # w /\ work[u].doc = d => row[d].status = "ACCEPTED"
  BY <1>2, AtWork
<1>4. s \in {"poll", "number", "park", "wait", "failed"}
  BY DEF FirstStep, Pursue
<1>5. s = "poll" => row[d].status = "SENT"
  BY DEF FirstStep, Pursue
<1>6. s = "number" => Cleared(d)
  BY DocFacts DEF FirstStep, Pursue, Cleared
<1>7. /\ row[d] \in Row /\ valid[d] \in 0..MaxIssues /\ received[d] \in 0..MaxIssues
      /\ work[w] \in WorkState /\ row[d].attempts \in -1..MaxClaims
  BY <1>3, RowsTyped DEF Row
<1>8. Writes(d, row[d], valid[d], received[d])
  BY <1>2, <1>3, SameRow
<1> DEFINE k == [work[w] EXCEPT !.tries = row[d].attempts, !.step = s]
<1>9. work' = [work EXCEPT ![w] = k]
  BY <1>1, RowsTyped
<1>10. k \in WorkState /\ k.doc = d /\ k.step = s
  BY <1>4, <1>7 DEF WorkState, Steps
<1>11. StepFits(s, row[d], valid[d])
  BY <1>3, <1>4, <1>5 DEF StepFits, RowFits, Sending
<1>12. /\ NumbersDense' /\ next' \in [Kind -> Nat \ {0}]
       /\ calls' \subseteq Doc /\ Retries'
  BY <1>2, NumbersStay DEF InvoicingInv, TypeOK, Retries
<1> HIDE DEF d, k
<1>13. k.doc = d /\ StepFits(k.step, row[d], valid[d]) /\ (k.step = "number" => Cleared(d))
  BY <1>6, <1>10, <1>11
<1> QED
  BY <1>3, <1>7, <1>8, <1>9, <1>10, <1>12, <1>13, WorkerStep

\* The number is the next of its kind.
LEMMA NumberGiven ==
    ASSUME InvoicingInv, NEW d \in Doc, NEW n, n = next[d[2]],
           row[d].number = 0, d \in Invoices => n <= config.to,
           row' = [row EXCEPT ![d].number = n, ![d].issue = 1],
           next' = [next EXCEPT ![d[2]] = n + 1], UNCHANGED config
    PROVE  NumbersDense'
<1>1. d[2] \in Kind /\ row \in [Doc -> Row] /\ next \in [Kind -> Nat \ {0}] /\ n \in Nat \ {0}
  BY DocFacts, RowsTyped DEF InvoicingInv, TypeOK
<1>2. row'[d].number = n /\ \A e \in Doc : e # d => row'[e] = row[e]
  BY <1>1 DEF Row
<1>3. next'[d[2]] = n + 1 /\ \A k \in Kind : k # d[2] => next'[k] = next[k]
  BY <1>1
<1>4. \A e \in Doc : row[e].number \in Nat
  BY <1>1 DEF Row
<1>5. \A e \in Doc : row[e].number # 0 => row[e].number \in 1..(next[e[2]] - 1)
  <2> SUFFICES ASSUME NEW e \in Doc, row[e].number # 0
               PROVE  row[e].number \in 1..(next[e[2]] - 1)
    OBVIOUS
  <2>1. e[2] \in Kind /\ e \in Order \X {e[2]}
    BY DEF Doc
  <2>2. {row[f].number : f \in Order \X {e[2]}} \ {0} = 1..(next[e[2]] - 1)
    BY <2>1 DEF InvoicingInv, NumbersDense
  <2> QED
    BY <2>1, <2>2
<1>6. ASSUME NEW k \in Kind
      PROVE  {row'[e].number : e \in Order \X {k}} \ {0} = 1..(next'[k] - 1)
  <2>1. {row[e].number : e \in Order \X {k}} \ {0} = 1..(next[k] - 1)
    BY DEF InvoicingInv, NumbersDense
  <2>2. \A e \in Order \X {k} : e \in Doc /\ e[2] = k
    BY DEF Doc
  <2>3. CASE k # d[2]
    <3>1. \A e \in Order \X {k} : row'[e] = row[e]
      BY <1>2, <2>2, <2>3
    <3>2. {row'[e].number : e \in Order \X {k}} = {row[e].number : e \in Order \X {k}}
      BY <3>1
    <3> QED
      BY <1>3, <2>1, <2>3, <3>2
  <2>4. CASE k = d[2]
    <3>1. d \in Order \X {k}
      BY <2>4 DEF Doc
    <3>2. {row'[e].number : e \in Order \X {k}} \ {0}
            = ({row[e].number : e \in Order \X {k}} \ {0}) \cup {n}
      <4>1. ASSUME NEW m, m \in {row'[e].number : e \in Order \X {k}} \ {0}
            PROVE  m \in ({row[e].number : e \in Order \X {k}} \ {0}) \cup {n}
        <5>1. PICK e \in Order \X {k} : m = row'[e].number
          BY <4>1
        <5>2. CASE e = d
          BY <1>2, <5>1, <5>2
        <5>3. CASE e # d
          BY <1>2, <2>2, <4>1, <5>1, <5>3
        <5> QED
          BY <5>2, <5>3
      <4>2. ASSUME NEW m, m \in ({row[e].number : e \in Order \X {k}} \ {0}) \cup {n}
            PROVE  m \in {row'[e].number : e \in Order \X {k}} \ {0}
        <5>1. CASE m = n
          BY <1>1, <1>2, <3>1, <5>1
        <5>2. CASE m # n
          <6>1. PICK e \in Order \X {k} : m = row[e].number /\ m # 0
            BY <4>2, <5>2
          <6>2. e # d
            BY <6>1
          <6> QED
            BY <1>2, <2>2, <6>1, <6>2
        <5> QED
          BY <5>1, <5>2
      <4> QED
        BY <4>1, <4>2
    <3>3. (1..(next[k] - 1)) \cup {n} = 1..(next'[k] - 1)
      BY <1>1, <1>3, <2>4
    <3> QED
      BY <2>1, <3>2, <3>3
  <2> QED
    BY <2>3, <2>4
<1>7. ASSUME NEW e \in Doc, NEW f \in Doc, e[2] = f[2],
             row'[e].number = row'[f].number, row'[e].number # 0
      PROVE  e = f
  <2>1. CASE e = d /\ f # d
    <3>1. row[f].number = n /\ n # 0
      BY <1>1, <1>2, <1>7, <2>1
    <3>2. row[f].number \in 1..(n - 1)
      BY <1>5, <1>7, <2>1, <3>1
    <3> QED
      BY <1>1, <3>1, <3>2
  <2>2. CASE e # d /\ f = d
    <3>1. row[e].number = n /\ n # 0
      BY <1>1, <1>2, <1>7, <2>2
    <3>2. row[e].number \in 1..(n - 1)
      BY <1>5, <1>7, <2>2, <3>1
    <3> QED
      BY <1>1, <3>1, <3>2
  <2>3. CASE e # d /\ f # d
    BY <1>2, <1>7, <2>3 DEF InvoicingInv, NumbersDense
  <2> QED
    BY <2>1, <2>2, <2>3
<1>8. \A e \in Invoices : row'[e].number <= config'.to
  BY <1>2, DocFacts DEF InvoicingInv, NumbersDense
<1> QED
  BY <1>6, <1>7, <1>8 DEF NumbersDense

LEMMA AssignNumberStep ==
    ASSUME InvoicingInv, NEW w \in Worker, AssignNumber(w)
    PROVE  InvoicingInv'
<1> DEFINE d == work[w].doc
           n == next[d[2]]
<1>1. work[w].step = "number"
  BY DEF AssignNumber, Asks, Moves
<1>2. /\ d \in Doc /\ StepFits("number", row[d], valid[d]) /\ RowFits(row[d], valid[d])
      /\ Cleared(d) /\ (Production => received[d] = 0)
      /\ \A u \in Worker : u # w /\ work[u].doc = d => row[d].status = "ACCEPTED"
  BY <1>1, AtWork
<1>3. \A s \in {"build", "failed"} : s \in Steps /\ s # "number"
  BY DEF Steps
<1>4. "number" \in Steps
  BY DEF Steps
<1>5. CASE Asks(w, "number", "build") /\ NumberedAlready(d)
  <2>1. StepFits("build", row[d], valid[d])
    BY <1>2, <1>5 DEF StepFits, NumberedAlready, Sending
  <2> QED
    BY <1>3, <1>4, <1>5, <2>1, AsksStep
<1>6. CASE Asks(w, "number", "failed")
  <2>1. StepFits("failed", row[d], valid[d])
    BY <1>2 DEF StepFits, Sending
  <2> QED
    BY <1>3, <1>4, <1>6, <2>1, AsksStep
<1>7. CASE /\ Moves(w, "number", "build")
           /\ ~NumberedAlready(d) /\ (d \in Invoices => n <= config.to)
           /\ row' = [row EXCEPT ![d].number = n, ![d].issue = 1]
           /\ next' = [next EXCEPT ![d[2]] = n + 1]
           /\ UNCHANGED dianVars
  <2>1. row[d].number = 0 /\ UNCHANGED <<config, calls, retry, valid, received>>
    BY <1>7 DEF NumberedAlready, Moves, dianVars
  <2>2. /\ row[d] \in Row /\ valid[d] \in 0..MaxIssues /\ received[d] \in 0..MaxIssues
        /\ d[2] \in Kind /\ next \in [Kind -> Nat \ {0}] /\ n \in Nat \ {0}
    BY <1>2, DocFacts, RowsTyped DEF InvoicingInv, TypeOK
  <2> DEFINE r == [row[d] EXCEPT !.number = n, !.issue = 1]
             k == [work[w] EXCEPT !.step = "build"]
  <2>3. row' = [row EXCEPT ![d] = r] /\ work' = [work EXCEPT ![w] = k]
    BY <1>2, <1>7, RowsTyped DEF Moves
  <2>4. /\ r \in Row /\ r.number = n /\ r.issue = 1 /\ r.status = row[d].status
        /\ r.signed = row[d].signed /\ r.mailed = row[d].mailed /\ r.locked = row[d].locked
        /\ r.attempts = row[d].attempts
    <3>1. n \in Nat /\ 1 \in 0..MaxIssues /\ row[d] \in Row
      BY <2>2, InvoicingAssumption
    <3> HIDE DEF d, n
    <3> QED
      BY <3>1 DEF Row
  <2>5. k \in WorkState /\ k.doc = d /\ k.step = "build"
    BY RowsTyped, <1>3 DEF WorkState
  <2>6. valid' = [valid EXCEPT ![d] = valid[d]] /\ received' = [received EXCEPT ![d] = received[d]]
    BY <2>1, RowsTyped
  <2>7. NumbersDense'
    BY <1>2, <1>7, <2>1, NumberGiven
  <2>8. next' \in [Kind -> Nat \ {0}] /\ calls' \subseteq Doc /\ Retries'
    BY <1>7, <2>1, <2>2 DEF InvoicingInv, TypeOK, Retries
  <2> HIDE DEF d, n, r, k
  <2>9. RowFits(r, valid[d]) /\ StepFits("build", r, valid[d])
    BY <1>2, <2>2, <2>4 DEF RowFits, StepFits, Sending
  <2>10. Writes(d, r, valid[d], received[d])
    BY <1>2, <2>1, <2>3, <2>4, <2>6, <2>9 DEF Writes
  <2>11. k.doc = d /\ StepFits(k.step, r, valid[d]) /\ (k.step = "number" => Cleared(d))
    BY <1>2, <2>5, <2>9
  <2> QED
    BY <1>2, <2>2, <2>3, <2>4, <2>5, <2>7, <2>8, <2>10, <2>11, WorkerStep
<1> QED
  BY <1>5, <1>6, <1>7 DEF AssignNumber

-----------------------------------------------------------------------------
(* Where a worker begins and ends.                                          *)

\* Nobody has a document that is not accepted and not locked.
LEMMA NobodyHas ==
    ASSUME InvoicingInv, NEW d \in Doc, row[d].status # "ACCEPTED", ~row[d].locked,
           NEW u \in Worker
    PROVE  work[u].doc # d
  BY DocFacts DEF InvoicingInv, Workers, WorkerFits, StepFits

LEMMA ClaimStep ==
    ASSUME InvoicingInv, NEW w \in Worker, NEW d \in Doc, Claim(w, d)
    PROVE  InvoicingInv'
<1>1. UNCHANGED <<config, retry, next, dianVars>> /\ calls' \subseteq Doc /\ Retries'
  BY DEF Claim, InvoicingInv, TypeOK, Retries
<1>2. CASE ~Claimable(d)
  BY <1>1, <1>2, QuietStep DEF Claim
<1>3. CASE Claimable(d)
  <2> DEFINE r == Leased(row[d])
             k == [doc |-> d, step |-> "read", tries |-> 0]
  <2>1. /\ row' = [row EXCEPT ![d] = r] /\ work' = [work EXCEPT ![w] = k]
        /\ row[d].attempts < MaxClaims
    BY <1>3 DEF Claim
  <2>2. row[d] \in Row /\ valid[d] \in 0..MaxIssues /\ received[d] \in 0..MaxIssues
    BY RowsTyped
  <2>3. row[d].attempts + 1 \in 0..MaxClaims
    <3>1. row[d].attempts \in -1..MaxClaims /\ MaxClaims \in Nat
      BY <2>2, InvoicingAssumption DEF Row
    <3> QED
      BY <2>1, <3>1
  <2>4. /\ r \in Row /\ r.status = row[d].status /\ r.number = row[d].number
        /\ r.issue = row[d].issue /\ r.signed = row[d].signed /\ r.mailed = row[d].mailed
        /\ r.locked = TRUE /\ r.attempts >= 0
    <3>1. row[d].attempts + 1 \in -1..MaxClaims /\ row[d].attempts + 1 >= 0
      BY <2>3, InvoicingAssumption
    <3> QED
      BY <2>2, <3>1 DEF Leased, Row
  <2>5. k \in WorkState /\ k.doc = d /\ k.step = "read"
    BY InvoicingAssumption DEF WorkState, Steps
  <2>6. valid' = [valid EXCEPT ![d] = valid[d]] /\ received' = [received EXCEPT ![d] = received[d]]
    BY <1>1, RowsTyped DEF dianVars
  <2>7. /\ RowFits(row[d], valid[d]) /\ (Production => received[d] = 0)
        /\ row[d].number # 0 => Cleared(d)
    BY DEF InvoicingInv, Documents
  <2>8. row[d].status \in Open /\ ~row[d].locked
    BY <1>3 DEF Claimable
  <2>9. \A u \in Worker : work[u].doc # d
    BY <2>8, NobodyHas DEF Open
  <2> HIDE DEF r, k
  <2>10. RowFits(r, valid[d]) /\ StepFits("read", r, valid[d])
    BY <2>4, <2>7, <2>8 DEF RowFits, StepFits, Sending
  <2>11. Writes(d, r, valid[d], received[d])
    BY <1>1, <2>1, <2>4, <2>6, <2>7, <2>10 DEF Writes
  <2>12. k.doc = d /\ StepFits(k.step, r, valid[d]) /\ (k.step = "number" => Cleared(d))
    BY <2>5, <2>10
  <2>13. NumbersDense'
    <3>1. \A e \in Doc : row'[e].number = row[e].number
      BY <2>2, <2>4, <2>11, RowAfter
    <3> QED
      BY <1>1, <3>1, NumbersStay DEF InvoicingInv
  <2>14. next' \in [Kind -> Nat \ {0}]
    BY <1>1 DEF InvoicingInv, TypeOK
  <2> QED
    BY <1>1, <2>1, <2>2, <2>4, <2>5, <2>9, <2>11, <2>12, <2>13, <2>14, WorkerStep
<1> QED
  BY <1>2, <1>3

LEMMA RedeliverStep ==
    ASSUME InvoicingInv, NEW w \in Worker, NEW d \in Doc, Redeliver(w, d)
    PROVE  InvoicingInv'
<1> DEFINE r == [row[d] EXCEPT !.locked = TRUE]
           k == [doc |-> d, step |-> "resend", tries |-> 0]
<1>1. /\ UNCHANGED <<config, retry, next, dianVars>> /\ calls' \subseteq Doc /\ Retries'
      /\ next' \in [Kind -> Nat \ {0}]
  BY DEF Redeliver, InvoicingInv, TypeOK, Retries
<1>2. /\ row' = [row EXCEPT ![d] = r] /\ work' = [work EXCEPT ![w] = k]
      /\ row[d].status = "ACCEPTED"
  BY RowsTyped DEF Redeliver, Undelivered
<1>3. row[d] \in Row /\ valid[d] \in 0..MaxIssues /\ received[d] \in 0..MaxIssues
  BY RowsTyped
<1>4. /\ r \in Row /\ r.status = row[d].status /\ r.number = row[d].number
      /\ r.issue = row[d].issue /\ r.signed = row[d].signed /\ r.mailed = row[d].mailed
  BY <1>3 DEF Row
<1>5. k \in WorkState /\ k.doc = d /\ k.step = "resend"
  BY InvoicingAssumption DEF WorkState, Steps
<1>6. valid' = [valid EXCEPT ![d] = valid[d]] /\ received' = [received EXCEPT ![d] = received[d]]
  BY <1>1, RowsTyped DEF dianVars
<1>7. /\ RowFits(row[d], valid[d]) /\ (Production => received[d] = 0)
      /\ row[d].number # 0 => Cleared(d)
  BY DEF InvoicingInv, Documents
<1> HIDE DEF r, k
<1>8. RowFits(r, valid[d]) /\ StepFits("resend", r, valid[d])
  BY <1>2, <1>4, <1>7 DEF RowFits, StepFits, Sending
<1>9. Writes(d, r, valid[d], received[d])
  BY <1>1, <1>2, <1>4, <1>6, <1>7, <1>8 DEF Writes
<1>10. k.doc = d /\ StepFits(k.step, r, valid[d]) /\ (k.step = "number" => Cleared(d))
  BY <1>5, <1>8
<1>11. NumbersDense'
  <2>1. \A e \in Doc : row'[e].number = row[e].number
    BY <1>3, <1>4, <1>9, RowAfter
  <2> QED
    BY <1>1, <2>1, NumbersStay DEF InvoicingInv
<1> QED
  BY <1>1, <1>2, <1>3, <1>4, <1>5, <1>9, <1>10, <1>11, WorkerStep

LEMMA ReleaseStep ==
    ASSUME InvoicingInv, NEW w \in Worker, Release(w)
    PROVE  InvoicingInv'
<1> DEFINE d == work[w].doc
           r == IF UNCHANGED row THEN row[d] ELSE [row[d] EXCEPT !.locked = FALSE]
<1>1. /\ UNCHANGED <<config, retry, next, dianVars>> /\ calls' \subseteq Doc /\ Retries'
      /\ next' \in [Kind -> Nat \ {0}] /\ work' = [work EXCEPT ![w] = Idle]
  BY DEF Release, InvoicingInv, TypeOK, Retries
<1>2. /\ d \in Doc /\ RowFits(row[d], valid[d]) /\ (Production => received[d] = 0)
      /\ row[d].number # 0 => Cleared(d)
      /\ \A u \in Worker : u # w /\ work[u].doc = d => row[d].status = "ACCEPTED"
  BY AtWork DEF Release
<1>3. row[d] \in Row /\ valid[d] \in 0..MaxIssues /\ received[d] \in 0..MaxIssues
  BY <1>2, RowsTyped
<1>4. row' = [row EXCEPT ![d] = r]
  <2>1. CASE UNCHANGED row
    BY <2>1, <1>2, RowsTyped
  <2>2. CASE ~UNCHANGED row
    BY <2>2, <1>2, RowsTyped DEF Release
  <2> QED
    BY <2>1, <2>2
<1>5. /\ r \in Row /\ r.status = row[d].status /\ r.number = row[d].number
      /\ r.issue = row[d].issue /\ r.signed = row[d].signed /\ r.mailed = row[d].mailed
  BY <1>3 DEF Row
<1>6. valid' = [valid EXCEPT ![d] = valid[d]] /\ received' = [received EXCEPT ![d] = received[d]]
  BY <1>1, RowsTyped DEF dianVars
<1>7. Idle \in WorkState
  <2>1. 0 \in -1..MaxClaims
    BY InvoicingAssumption
  <2> QED
    BY <2>1 DEF Idle, WorkState, Steps
<1> HIDE DEF d, r
<1>8. RowFits(r, valid[d])
  BY <1>2, <1>5 DEF RowFits
<1>9. Writes(d, r, valid[d], received[d])
  BY <1>1, <1>2, <1>4, <1>5, <1>6, <1>8 DEF Writes
<1>10. NumbersDense'
  <2>1. \A e \in Doc : row'[e].number = row[e].number
    BY <1>2, <1>5, <1>9, RowAfter
  <2> QED
    BY <1>1, <2>1, NumbersStay DEF InvoicingInv
<1> QED
  BY <1>1, <1>2, <1>3, <1>5, <1>7, <1>9, <1>10, WorkerStep

\* The note is woken while another worker may have it.
LEMMA WakeNotesStep ==
    ASSUME InvoicingInv, NEW w \in Worker, WakeNotes(w)
    PROVE  InvoicingInv'
<1> DEFINE d == work[w].doc
           n == NoteOf(d)
           r == IF row[n].status \in {"PENDING", "ERROR"}
                THEN [Told(n, "PENDING", "now") EXCEPT !.attempts = 0] ELSE row[n]
           k == [work[w] EXCEPT !.step = "release"]
<1>1. /\ work[w].step = "wake" /\ UNCHANGED <<config, calls, retry, next, dianVars>>
      /\ row' = [row EXCEPT ![n] = r] /\ work' = [work EXCEPT ![w] = k]
  BY RowsTyped DEF WakeNotes, WritesRow, Moves
<1>2. d \in Doc /\ StepFits("wake", row[d], valid[d])
  BY <1>1, AtWork
<1>3. n \in Doc
  BY <1>2, DocFacts
<1>4. /\ row[n] \in Row /\ valid[n] \in 0..MaxIssues /\ received[n] \in 0..MaxIssues
      /\ work[w] \in WorkState
  BY <1>3, RowsTyped
<1>5. k \in WorkState /\ k.doc = d /\ k.step = "release"
  BY <1>4 DEF WorkState, Steps
<1>6. valid' = [valid EXCEPT ![n] = valid[n]] /\ received' = [received EXCEPT ![n] = received[n]]
  BY <1>1, RowsTyped DEF dianVars
<1>7. /\ RowFits(row[n], valid[n]) /\ (Production => received[n] = 0)
      /\ row[n].number # 0 => Cleared(n)
  BY <1>3 DEF InvoicingInv, Documents
<1> HIDE DEF d, n
<1>8. /\ r \in Row /\ r.number = row[n].number
      /\ r.issue = row[n].issue /\ r.signed = row[n].signed /\ r.mailed = row[n].mailed
      /\ r.locked = row[n].locked
      /\ \/ r.status = row[n].status /\ r.attempts = row[n].attempts
         \/ /\ row[n].status \in {"PENDING", "ERROR"} /\ r.status = "PENDING"
            /\ r.attempts = 0
  <2>1. 0 \in -1..MaxClaims /\ "PENDING" \in Statuses
    BY InvoicingAssumption DEF Statuses
  <2> QED
    BY <1>4, <2>1 DEF Told, Row
<1> HIDE DEF r, k
<1>9. RowFits(r, valid[n])
  BY <1>7, <1>8 DEF RowFits
<1>10. Writes(n, r, valid[n], received[n])
  BY <1>1, <1>6, <1>7, <1>8, <1>9 DEF Writes
<1>11. /\ work' \in [Worker -> WorkState] /\ work'[w] = k
       /\ \A u \in Worker : u # w => work'[u] = work[u]
       /\ \A u \in Worker : work'[u].doc = work[u].doc
  BY <1>1, <1>5, RowsTyped DEF d
<1>12. ASSUME NEW u \in Worker, u # w
       PROVE  WorkerFits(u)'
  <2>1. work[u].doc = n => StepFits(work[u].step, row[n], valid[n])
    BY <1>3, DocFacts DEF InvoicingInv, Workers, WorkerFits
  <2>2. work[u].doc = n => StepFits(work[u].step, r, valid[n])
    BY <1>8, <2>1 DEF StepFits, Open
  <2> QED
    BY <1>3, <1>8, <1>10, <1>11, <1>12, <2>2, OthersFit
<1>13. WorkerFits(w)'
  <2>1. PICK e \in Doc : e = d
    BY <1>2
  <2>2. row'[e].status = "ACCEPTED"
    BY <1>2, <1>3, <1>8, <1>10, <2>1, RowAfter DEF StepFits
  <2>3. StepFits("release", row[e], valid[e])'
    BY <2>2 DEF StepFits, Sending
  <2>4. work'[w].doc = e /\ work'[w].step = "release" /\ e # NoDoc
    BY <1>5, <1>11, <2>1, DocFacts
  <2> QED
    BY <2>3, <2>4 DEF WorkerFits
<1>14. Sole'
  <2> SUFFICES ASSUME NEW s \in Worker, NEW u \in Worker, s # u,
                      work'[s].doc = work'[u].doc, work'[s].doc # NoDoc
               PROVE  row'[work'[s].doc].status = "ACCEPTED"
    BY DEF Sole
  <2>1. work[s].doc \in Doc /\ row[work[s].doc].status = "ACCEPTED"
    BY <1>11, RowsTyped DEF InvoicingInv, Sole
  <2> QED
    BY <1>3, <1>8, <1>10, <1>11, <2>1, RowAfter
<1>15. Workers'
  BY <1>12, <1>13 DEF Workers
<1>16. NumbersDense'
  <2>1. \A e \in Doc : row'[e].number = row[e].number
    BY <1>3, <1>8, <1>10, RowAfter
  <2> QED
    BY <1>1, <2>1, NumbersStay DEF InvoicingInv
<1>17. next' \in [Kind -> Nat \ {0}] /\ calls' \subseteq Doc /\ Retries'
  BY <1>1 DEF InvoicingInv, TypeOK, Retries
<1> QED
  BY <1>3, <1>4, <1>8, <1>10, <1>11, <1>14, <1>15, <1>16, <1>17, DocStep

-----------------------------------------------------------------------------
(* What the shop, the DIAN and time do.                                     *)

\* They change one row, and no worker.
LEMMA RowStep ==
    ASSUME InvoicingInv, NEW d \in Doc, NEW r \in Row,
           row' = [row EXCEPT ![d] = r], UNCHANGED <<config, next, work, dianVars>>,
           RowFits(r, valid[d]), r.number = row[d].number,
           row[d].status = "ACCEPTED" => r.status = "ACCEPTED",
           calls' \subseteq Doc, Retries',
           \A u \in Worker : work[u].doc = d => StepFits(work[u].step, r, valid[d])
    PROVE  InvoicingInv'
<1>1. valid[d] \in 0..MaxIssues /\ received[d] \in 0..MaxIssues
  BY RowsTyped
<1>2. valid' = [valid EXCEPT ![d] = valid[d]] /\ received' = [received EXCEPT ![d] = received[d]]
  BY RowsTyped DEF dianVars
<1>3. Writes(d, r, valid[d], received[d])
  BY <1>2 DEF Writes, InvoicingInv, Documents
<1> QED
  BY <1>1, <1>3, BareStep

\* What the workers of a document know of it.
LEMMA TheirsFits ==
    ASSUME InvoicingInv, NEW d \in Doc, NEW u \in Worker, work[u].doc = d
    PROVE  StepFits(work[u].step, row[d], valid[d])
  BY DocFacts DEF InvoicingInv, Workers, WorkerFits

LEMMA EnqueueStep ==
    ASSUME InvoicingInv, NEW d \in Doc, Enqueue(d)
    PROVE  InvoicingInv'
<1>1. UNCHANGED <<config, next, work, dianVars>> /\ calls' \subseteq Doc /\ Retries'
  BY DEF Enqueue, InvoicingInv, TypeOK, Retries
<1>2. CASE UNCHANGED row
  BY <1>1, <1>2, QuietStep
<1>3. CASE ~UNCHANGED row
  <2> DEFINE r == [row[d] EXCEPT !.status = "PENDING", !.due = "now"]
  <2>1. row[d].status = "NONE" /\ row' = [row EXCEPT ![d] = r]
    BY <1>3, RowsTyped DEF Enqueue
  <2>2. row[d] \in Row /\ RowFits(row[d], valid[d])
    BY RowsTyped DEF InvoicingInv, Documents
  <2>3. /\ r \in Row /\ r.status = "PENDING" /\ r.number = row[d].number
        /\ r.issue = row[d].issue /\ r.signed = row[d].signed /\ r.mailed = row[d].mailed
        /\ r.locked = row[d].locked /\ r.attempts = row[d].attempts
    BY <2>2 DEF Row, Statuses
  <2> HIDE DEF r
  <2>4. RowFits(r, valid[d])
    BY <2>1, <2>2, <2>3 DEF RowFits
  <2>5. \A u \in Worker : work[u].doc = d => StepFits(work[u].step, r, valid[d])
    BY <2>1, <2>3, TheirsFits DEF StepFits, Open
  <2> QED
    BY <1>1, <2>1, <2>3, <2>4, <2>5, RowStep
<1> QED
  BY <1>2, <1>3

LEMMA RetryDocumentStep ==
    ASSUME InvoicingInv, NEW d \in Doc, NEW s \in Statuses, RetryDocument(d, s)
    PROVE  InvoicingInv'
<1>1. /\ UNCHANGED <<config, next, work, dianVars>> /\ calls' \subseteq Doc /\ Retries'
      /\ s \in {"REJECTED", "ERROR", "PENDING"}
  BY DEF RetryDocument, InvoicingInv, TypeOK, Retries
<1>2. CASE ~Retryable(d, s)
  BY <1>1, <1>2, QuietStep DEF RetryDocument
<1>3. CASE Retryable(d, s)
  <2> DEFINE r == Retried(row[d])
  <2>1. /\ row[d].status = s /\ ~row[d].locked
        /\ row' = [row EXCEPT ![d] = r] /\ row'[d].issue <= MaxIssues
    BY <1>3 DEF RetryDocument, Retryable
  <2>2. row[d] \in Row /\ RowFits(row[d], valid[d]) /\ row'[d] = r
    BY <2>1, RowsTyped DEF InvoicingInv, Documents
  <2>3. 0 \in -1..MaxClaims /\ 0 \in 0..MaxIssues /\ MaxIssues \in Nat
    BY InvoicingAssumption
  <2>4. CASE s # "REJECTED"
    <3>1. r = Again(row[d])
      BY <2>1, <2>4 DEF Retried
    <3>2. /\ r \in Row /\ r.status = "PENDING" /\ r.number = row[d].number
          /\ r.issue = row[d].issue /\ r.signed = row[d].signed /\ r.mailed = row[d].mailed
      BY <2>2, <2>3, <3>1 DEF Again, Row, Statuses
    <3> HIDE DEF r
    <3>3. RowFits(r, valid[d])
      BY <1>1, <2>1, <2>2, <3>2 DEF RowFits
    <3>4. \A u \in Worker : work[u].doc # d
      BY <1>1, <2>1, NobodyHas
    <3> QED
      BY <1>1, <2>1, <3>2, <3>3, <3>4, RowStep
  <2>5. CASE s = "REJECTED"
    <3>1. r = Anew(row[d]) /\ r.issue <= MaxIssues
      BY <2>1, <2>2, <2>5 DEF Retried
    <3>2. r.issue = row[d].issue + 1 /\ r.issue \in 0..MaxIssues
      <4>1. row[d].issue \in Nat
        BY <2>2 DEF Row
      <4>2. r.issue = row[d].issue + 1
        BY <2>2, <3>1 DEF Anew, Again, Row
      <4> QED
        BY <2>3, <3>1, <4>1, <4>2
    <3>3. /\ r \in Row /\ r.status = "PENDING" /\ r.number = row[d].number
          /\ r.signed = 0 /\ r.mailed = row[d].mailed
      BY <2>2, <2>3, <3>1, <3>2 DEF Anew, Again, Row, Statuses
    <3>4. row[d].issue \in Nat
      BY <2>2 DEF Row
    <3> HIDE DEF r
    <3>5. RowFits(r, valid[d])
      BY <2>1, <2>2, <2>5, <3>2, <3>3, <3>4 DEF RowFits
    <3>6. \A u \in Worker : work[u].doc # d
      BY <2>1, <2>5, NobodyHas
    <3> QED
      BY <1>1, <2>1, <2>5, <3>3, <3>5, <3>6, RowStep
  <2> QED
    BY <2>4, <2>5
<1> QED
  BY <1>2, <1>3

LEMMA ShopStep ==
    ASSUME InvoicingInv, Shop
    PROVE  InvoicingInv'
<1>1. ASSUME NEW o \in Order, EnqueueInvoice(o) \/ EnqueueCreditNote(o)
      PROVE  InvoicingInv'
  <2>1. PICK d \in Doc : Enqueue(d)
    BY <1>1 DEF EnqueueInvoice, EnqueueCreditNote, Doc, Kind
  <2> QED
    BY <2>1, EnqueueStep
<1>2. ASSUME NEW d \in Doc, ProcessPending(d) \/ RetryRead(d)
      PROVE  InvoicingInv'
  <2>1. calls' \subseteq Doc /\ Retries'
    BY <1>2 DEF ProcessPending, RetryRead, InvoicingInv, TypeOK, Retries
  <2> QED
    BY <1>2, <2>1, QuietStep DEF ProcessPending, RetryRead
<1>3. ASSUME NEW d \in Doc, NEW s \in Statuses, RetryDocument(d, s)
      PROVE  InvoicingInv'
  BY <1>3, RetryDocumentStep
<1> QED
  BY <1>1, <1>2, <1>3 DEF Shop

LEMMA DianStep ==
    ASSUME InvoicingInv, NEW d \in Doc, DianValidates(d)
    PROVE  InvoicingInv'
<1>1. /\ UNCHANGED <<config, row, next, work>> /\ calls' \subseteq Doc /\ Retries'
  BY DEF DianValidates, InvoicingInv, TypeOK, Retries
<1>2. /\ row[d] \in Row /\ valid[d] \in 0..MaxIssues /\ received[d] \in 0..MaxIssues
      /\ row' = [row EXCEPT ![d] = row[d]] /\ 0 \in 0..MaxIssues
  BY <1>1, RowsTyped, InvoicingAssumption
<1>3. PICK v \in 0..MaxIssues : /\ valid' = [valid EXCEPT ![d] = v]
                                /\ v # valid[d] => valid[d] = 0
  BY <1>2, RowsTyped DEF DianValidates
<1>4. /\ RowFits(row[d], valid[d]) /\ (Production => received[d] = 0)
      /\ row[d].number # 0 => Cleared(d)
  BY DEF InvoicingInv, Documents
<1>5. ~Production /\ received' = [received EXCEPT ![d] = 0]
  BY <1>4 DEF DianValidates
<1>6. RowFits(row[d], v)
  BY <1>3, <1>4, <1>5 DEF RowFits
<1>7. Writes(d, row[d], v, 0)
  BY <1>1, <1>2, <1>3, <1>4, <1>5, <1>6 DEF Writes
<1>8. \A u \in Worker : work[u].doc = d => StepFits(work[u].step, row[d], v)
  BY <1>3, <1>5, TheirsFits DEF StepFits
<1> QED
  BY <1>1, <1>2, <1>7, <1>8, BareStep

LEMMA TimeStep ==
    ASSUME InvoicingInv, NEW d \in Doc, Tick(d) \/ LeaseExpires(d)
    PROVE  InvoicingInv'
<1> DEFINE r == IF Tick(d) THEN [row[d] EXCEPT !.due = "now"] ELSE [row[d] EXCEPT !.locked = FALSE]
<1>1. /\ UNCHANGED <<config, next, work, dianVars>> /\ calls' \subseteq Doc /\ Retries'
      /\ row' = [row EXCEPT ![d] = r]
  BY RowsTyped DEF Tick, LeaseExpires, InvoicingInv, TypeOK, Retries
<1>2. row[d] \in Row /\ RowFits(row[d], valid[d])
  BY RowsTyped DEF InvoicingInv, Documents
<1>3. /\ r \in Row /\ r.status = row[d].status /\ r.number = row[d].number
      /\ r.issue = row[d].issue /\ r.signed = row[d].signed /\ r.mailed = row[d].mailed
      /\ r.attempts = row[d].attempts
  BY <1>2 DEF Row
<1>4. \/ r.locked = row[d].locked
      \/ \A w \in Worker : work[w].doc = d => work[w].step \in {"mail", "resend"}
  <2>1. CASE Tick(d)
    BY <1>2, <2>1 DEF Row
  <2>2. CASE ~Tick(d)
    BY <2>2 DEF LeaseExpires
  <2> QED
    BY <2>1, <2>2
<1> HIDE DEF r
<1>5. RowFits(r, valid[d])
  BY <1>2, <1>3 DEF RowFits
<1>6. \A u \in Worker : work[u].doc = d => StepFits(work[u].step, r, valid[d])
  BY <1>3, <1>4, TheirsFits DEF StepFits, Sending
<1>7. r \in Row /\ r.number = row[d].number /\ (row[d].status = "ACCEPTED" => r.status = "ACCEPTED")
  BY <1>3
<1> QED
  BY <1>1, <1>5, <1>6, <1>7, RowStep

LEMMA NextInvoicing ==
    ASSUME InvoicingInv, [Next]_vars
    PROVE  InvoicingInv'
<1>1. CASE Shop
  BY <1>1, ShopStep
<1>2. ASSUME NEW w \in Worker, ProcessDocument(w)
      PROVE  InvoicingInv'
  <2>1. ASSUME NEW d \in Doc, Claim(w, d) \/ Redeliver(w, d)
        PROVE  InvoicingInv'
    BY <2>1, ClaimStep, RedeliverStep
  <2>2. CASE Inspect(w) \/ AssignNumber(w) \/ BuildSignedDocument(w)
    BY <2>2, InspectStep, AssignNumberStep, BuildStep
  <2>3. CASE SendBillSync(w) \/ SendTestSetAsync(w)
    BY <2>3, SendingSteps
  <2>4. CASE GetStatusZip(w) \/ GetStatus(w) \/ CallFails(w) \/ Fail(w) \/ Escape(w)
    BY <2>4, AskingSteps
  <2>5. CASE Park(w) \/ Sent(w) \/ MarkRejected(w) \/ MarkError(w) \/ MarkAccepted(w)
    BY <2>5, TellingSteps
  <2>6. CASE Wait(w) \/ StillValidating(w)
    BY <2>6, WaitStep
  <2>7. CASE DeliverDocument(w) \/ ResendDocument(w)
    BY <2>7, DeliveringSteps
  <2>8. CASE WakeNotes(w) \/ Release(w)
    BY <2>8, WakeNotesStep, ReleaseStep
  <2> QED
    BY <1>2, <2>1, <2>2, <2>3, <2>4, <2>5, <2>6, <2>7, <2>8 DEF ProcessDocument
<1>3. ASSUME NEW d \in Doc, DianValidates(d) \/ Tick(d) \/ LeaseExpires(d)
      PROVE  InvoicingInv'
  BY <1>3, DianStep, TimeStep
<1>4. CASE Crash
  <2>1. calls' \subseteq Doc /\ Retries'
    BY <1>4 DEF Crash, Retries
  <2> QED
    BY <1>4, <2>1, QuietStep DEF Crash
<1>5. CASE UNCHANGED vars
  <2>1. calls' \subseteq Doc /\ Retries'
    BY <1>5 DEF vars, InvoicingInv, TypeOK, Retries
  <2> QED
    BY <1>5, <2>1, QuietStep DEF vars
<1> QED
  BY <1>1, <1>2, <1>3, <1>4, <1>5 DEF Next

-----------------------------------------------------------------------------
(* The theorems.                                                            *)

\* The inductive invariant holds from the first step on: rows, workers and the
\* DIAN go together through every interleaving, lost answer and crash.
THEOREM InvoicingInvariance == Spec => []InvoicingInv
<1>1. Init => InvoicingInv
  BY InitInvoicing
<1>2. InvoicingInv /\ [Next]_vars => InvoicingInv'
  BY NextInvoicing
<1> QED
  BY <1>1, <1>2, PTL DEF Spec

\* Every reachable state has its type.
THEOREM InvoicingTypeCorrect == Spec => []TypeOK
<1>1. InvoicingInv => TypeOK
  BY DEF InvoicingInv
<1> QED
  BY <1>1, InvoicingInvariance, PTL

\* What the shop shows and mails as accepted is what the DIAN validated, and in
\* production nothing that it validated is shown as rejected (markAccepted,
\* markRejected and the treatment of duplicates).
THEOREM VerdictsStayReal == Spec => []VerdictsAreReal
<1>1. InvoicingInv => VerdictsAreReal
  BY DEF InvoicingInv, Documents, RowFits, Production, VerdictsAreReal, AcceptedIsValid,
         RejectedIsNotValid
<1> QED
  BY <1>1, InvoicingInvariance, PTL

\* A credit note has a number only when the DIAN has validated its invoice
\* (the wait in processDocument).
THEOREM NotesFollowInvoices == Spec => []NoteAfterInvoice
<1>1. ASSUME InvoicingInv
      PROVE  NoteAfterInvoice
  <2> SUFFICES ASSUME NEW d \in Notes, row[d].number # 0
               PROVE  valid[InvoiceOf(d)] # 0 /\ row[InvoiceOf(d)].status = "ACCEPTED"
    BY DEF NoteAfterInvoice
  <2>1. row[InvoiceOf(d)].status = "ACCEPTED" /\ InvoiceOf(d) \in Doc
    BY <1>1, DocFacts DEF InvoicingInv, Documents, Cleared
  <2>2. RowFits(row[InvoiceOf(d)], valid[InvoiceOf(d)])
    BY <1>1, <2>1 DEF InvoicingInv, Documents
  <2> QED
    BY <2>1, <2>2 DEF RowFits
<1> QED
  BY <1>1, InvoicingInvariance, PTL

\* The lease gives a document to one worker from the claim to the answer.
THEOREM OneSenderAtATime == Spec => []OneSender
<1>1. ASSUME InvoicingInv
      PROVE  OneSender
  <2> SUFFICES ASSUME NEW v \in Worker, NEW w \in Worker, v # w,
                      work[v].doc = work[w].doc, work[v].doc # NoDoc,
                      {work[v].step, work[w].step} \cap {"mail", "wake", "resend", "release"} = {}
               PROVE  FALSE
    BY DEF OneSender
  <2>1. row[work[v].doc].status = "ACCEPTED"
    BY <1>1 DEF InvoicingInv, Sole
  <2>2. StepFits(work[v].step, row[work[v].doc], valid[work[v].doc])
    BY <1>1 DEF InvoicingInv, Workers, WorkerFits
  <2>3. work[v].step \in Steps
    BY <1>1 DEF InvoicingInv, TypeOK, WorkState
  <2> QED
    BY <2>1, <2>2, <2>3 DEF StepFits, Sending, Open, Steps
<1> QED
  BY <1>1, InvoicingInvariance, PTL

\* Numbers are dense and unique within the range, whatever fails
\* (assignNumber, in one transaction, for orders and retries without bound).
THEOREM NumbersStayDense == Spec => []NumbersDense
<1>1. InvoicingInv => NumbersDense
  BY DEF InvoicingInv
<1> QED
  BY <1>1, InvoicingInvariance, PTL

=============================================================================
