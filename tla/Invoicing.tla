------------------------------ MODULE Invoicing -----------------------------
(***************************************************************************)
(* Electronic invoicing (services/einvoice/einvoice.service.js): the rows  *)
(* of electronic_documents and invoice_sequences, the workers that number, *)
(* sign and send a document to the tax authority (DIAN), and the DIAN.     *)
(*                                                                         *)
(* A worker is a call of processDocument, made by the trigger of a sale,   *)
(* by the maintenance job or by an admin.  It claims the document with a   *)
(* lease (lockedUntil) and then runs statement by statement, so that other *)
(* workers, admins and crashes come in between.                            *)
(***************************************************************************)
EXTENDS Integers, FiniteSets

CONSTANTS
    Order,        \* orders that may be invoiced
    Returnable,   \* those that may be closed again, which asks for a note
    Worker,       \* calls of processDocument that may run at a time
    NoDoc,        \* the document of an idle worker
    Environment,  \* DIAN environments to try: "1" production, "2" tests
    RangeEnd,     \* last numbers of the resolution to try; it starts at 1
    MaxAttempts,  \* MAX_ATTEMPTS
    MaxClaims,    \* bound: claims of a document counted in attempts
    MaxIssues     \* bound: times a document is issued with new contents

Kind == {"INVOICE", "CREDIT_NOTE"}

\* A document is known by its order and type: @@unique([orderId, type]).
Doc == Order \X Kind

Invoices == Order \X {"INVOICE"}
Notes    == Order \X {"CREDIT_NOTE"}

InvoiceOf(d) == <<d[1], "INVOICE">>
NoteOf(d)    == <<d[1], "CREDIT_NOTE">>

Statuses == {"PENDING", "SENT", "ACCEPTED", "REJECTED", "ERROR"}
Open     == {"PENDING", "SENT", "ERROR"}

ASSUME InvoicingAssumption ==
    /\ Returnable \subseteq Order /\ NoDoc \notin Doc
    /\ Environment \subseteq {"1", "2"} /\ RangeEnd \subseteq Nat
    /\ MaxAttempts \in Nat \ {0} /\ MaxClaims \in Nat /\ MaxIssues \in Nat \ {0}

VARIABLES
    config,    \* the environment and the resolution's last number in force
    calls,     \* processDocument called and not begun
    retry,     \* retryDocument between its read and its update
    row,       \* electronic_documents
    next,      \* invoice_sequences.next for the prefix of each kind
    work,      \* the workers
    received,  \* the issue of a document that the DIAN is validating, 0 for none
    valid      \* the issue it holds as validated, 0 for none

dianVars == <<received, valid>>
vars     == <<config, calls, retry, row, next, work, dianVars>>

Steps == {"idle", "read", "park", "wait", "poll", "number", "build", "send",
          "sent", "valid", "invalid", "duplicate", "busy", "failed", "refused",
          "mail", "wake", "resend", "release"}

WorkState == [doc : Doc \cup {NoDoc}, step : Steps, tries : -1..MaxClaims]

Idle == [doc |-> NoDoc, step |-> "idle", tries |-> 0]

\* due is nextAttemptAt (reached, in the future or null), locked whether
\* lockedUntil is in the future, issue how often issuedAt was set, signed the
\* issue in xmlSigned and cufe, mailed whether emailedAt is set.
Row == [status : Statuses \cup {"NONE"}, due : {"now", "later", "never"},
        locked : BOOLEAN, attempts : -1..MaxClaims, number : Nat,
        issue : 0..MaxIssues, signed : 0..MaxIssues, mailed : BOOLEAN]

NoRow == [status |-> "NONE", due |-> "never", locked |-> FALSE, attempts |-> 0,
          number |-> 0, issue |-> 0, signed |-> 0, mailed |-> FALSE]

TypeOK ==
    /\ config \in [environment : Environment, to : RangeEnd]
    /\ calls \subseteq Doc
    /\ retry \subseteq Doc \X Statuses
    /\ row \in [Doc -> Row]
    /\ next \in [Kind -> Nat \ {0}]
    /\ work \in [Worker -> WorkState]
    /\ received \in [Doc -> 0..MaxIssues]
    /\ valid \in [Doc -> 0..MaxIssues]

Init ==
    /\ config \in [environment : Environment, to : RangeEnd]
    /\ calls = {} /\ retry = {}
    /\ row = [d \in Doc |-> NoRow]
    /\ next = [k \in Kind |-> 1]
    /\ work = [w \in Worker |-> Idle]
    /\ received = [d \in Doc |-> 0]
    /\ valid = [d \in Doc |-> 0]

-----------------------------------------------------------------------------
(* What the shop, the job and admins ask for.                               *)

\* The row is created once; whoever finds it PENDING calls processDocument.
Enqueue(d) ==
    /\ IF row[d].status = "NONE"
       THEN row' = [row EXCEPT ![d].status = "PENDING", ![d].due = "now"]
       ELSE UNCHANGED row
    /\ calls' = IF row'[d].status = "PENDING" THEN calls \cup {d} ELSE calls
    /\ UNCHANGED <<config, retry, next, work, dianVars>>

\* A payment or an admin confirms the order, for the first time or again.
EnqueueInvoice(o) == Enqueue(<<o, "INVOICE">>)

\* An admin cancels or refunds it; without an invoice there is nothing to annul.
EnqueueCreditNote(o) ==
    /\ o \in Returnable /\ row[<<o, "INVOICE">>].status # "NONE"
    /\ Enqueue(<<o, "CREDIT_NOTE">>)

\* The maintenance job finds the document due.
ProcessPending(d) ==
    /\ row[d].status \in Open /\ row[d].due = "now"
    /\ calls' = calls \cup {d}
    /\ UNCHANGED <<config, retry, row, next, work, dianVars>>

\* An admin's retry reads the status and updates under the condition that it
\* is still the same and nobody has the document.
RetryRead(d) ==
    /\ row[d].status \in {"REJECTED", "ERROR", "PENDING"} /\ retry = {}
    /\ retry' = {<<d, row[d].status>>}
    /\ UNCHANGED <<config, calls, row, next, work, dianVars>>

Retryable(d, s) == row[d].status = s /\ ~row[d].locked

Again(r) == [r EXCEPT !.status = "PENDING", !.attempts = 0, !.due = "now"]

Anew(r) == [Again(r) EXCEPT !.issue = @ + 1, !.signed = 0]

\* Mutant: an error is made anew like a rejection.
RetriedAnew(r) == IF r.number # 0 THEN Anew(r) ELSE Again(r)

\* A rejected document keeps its number and is made anew.
Retried(r) == IF r.status = "REJECTED" THEN Anew(r) ELSE Again(r)

RetryDocument(d, s) ==
    /\ <<d, s>> \in retry
    /\ retry' = retry \ {<<d, s>>}
    /\ IF Retryable(d, s)
       THEN /\ row' = [row EXCEPT ![d] = Retried(@)]
            /\ row'[d].issue <= MaxIssues
            /\ calls' = calls \cup {d}
       ELSE UNCHANGED <<calls, row>>
    /\ UNCHANGED <<config, next, work, dianVars>>

-----------------------------------------------------------------------------
(* processDocument.                                                         *)

\* Mutant: the lease is not looked at.
ClaimableTwice(d) == row[d].status \in Open /\ row[d].due # "later"

\* nextAttemptAt = null passes the condition of claim.
Claimable(d) == row[d].status \in Open /\ row[d].due # "later" /\ ~row[d].locked

\* Mutant: the attempt is not counted.
LeasedFree(r) == [r EXCEPT !.locked = TRUE]

Leased(r) == [r EXCEPT !.locked = TRUE, !.attempts = @ + 1]

Claim(w, d) ==
    /\ d \in calls /\ work[w] = Idle
    /\ calls' = calls \ {d}
    /\ IF Claimable(d)
       THEN /\ row[d].attempts < MaxClaims
            /\ row' = [row EXCEPT ![d] = Leased(@)]
            /\ work' = [work EXCEPT ![w] = [doc |-> d, step |-> "read", tries |-> 0]]
       ELSE UNCHANGED <<row, work>>
    /\ UNCHANGED <<config, retry, next, dianVars>>

\* The worker goes from one step to another, and nothing else happens to what
\* the shop asked for.
Moves(w, from, to) ==
    /\ work[w].step = from
    /\ work' = [work EXCEPT ![w].step = to]
    /\ UNCHANGED <<config, calls, retry>>

\* It only asks or computes.
Asks(w, from, to) == Moves(w, from, to) /\ UNCHANGED <<row, next, dianVars>>

\* It writes the row of a document, in the last update but the release.
WritesRow(w, from, to, d, r) ==
    /\ Moves(w, from, to)
    /\ row' = [row EXCEPT ![d] = r]
    /\ UNCHANGED <<next, dianVars>>

\* The row after an update of status and nextAttemptAt (and of lastError, which
\* nothing reads).
Told(d, s, when) == [row[d] EXCEPT !.status = s, !.due = when]

\* The invoice of a note will not be validated any more.
Dead(d) == row[d].status = "REJECTED" \/ (row[d].status = "ERROR" /\ row[d].due = "never")

\* What is left to do for a document that may be sent.
Pursue(d) == IF row[d].status = "SENT" THEN "poll" ELSE "number"

\* Mutant: any invoice that is not dead will do.
FirstStepHasty(d) == IF d \in Notes /\ Dead(InvoiceOf(d)) THEN "park" ELSE Pursue(d)

FirstStep(d) ==
    IF d \in Invoices \/ row[InvoiceOf(d)].status = "ACCEPTED" THEN Pursue(d)
    ELSE IF Dead(InvoiceOf(d)) THEN "park" ELSE "wait"

\* The document is read, and with it the invoice that a note annuls.  The
\* configuration may be in error, or the second read fail.
Inspect(w) ==
    LET d == work[w].doc IN
    /\ work[w].step = "read"
    /\ \E s \in {FirstStep(d), "failed"} :
         work' = [work EXCEPT ![w].tries = row[d].attempts, ![w].step = s]
    /\ UNCHANGED <<config, calls, retry, row, next, dianVars>>

\* The note stops until markAccepted of its invoice wakes it.
Park(w) ==
    LET d == work[w].doc IN
    WritesRow(w, "park", "release", d, Told(d, "ERROR", "never"))

\* The note waits for its invoice, which costs no attempt.
Wait(w) ==
    LET d == work[w].doc IN
    WritesRow(w, "wait", "release", d, [Told(d, "PENDING", "later") EXCEPT !.attempts = @ - 1])

\* Mutant: a document sent again takes another number.
NumberedAlreadyNever(d) == FALSE

NumberedAlready(d) == row[d].number # 0

\* One transaction: a number past the range is rolled back.
AssignNumber(w) ==
    LET d == work[w].doc
        n == next[d[2]]
    IN  \/ Asks(w, "number", "build") /\ NumberedAlready(d)
        \/ /\ Asks(w, "number", "failed")
           /\ ~NumberedAlready(d) /\ d \in Invoices /\ n > config.to
        \/ /\ Moves(w, "number", "build")
           /\ ~NumberedAlready(d) /\ (d \in Invoices => n <= config.to)
           /\ row' = [row EXCEPT ![d].number = n, ![d].issue = 1]
           /\ next' = [next EXCEPT ![d[2]] = n + 1]
           /\ UNCHANGED dianVars

\* Contents once signed are sent again as they are.
BuildSignedDocument(w) ==
    LET d == work[w].doc IN
    WritesRow(w, "build", "send", d, [row[d] EXCEPT !.signed = IF @ = 0 THEN row[d].issue ELSE @])

-----------------------------------------------------------------------------
(* The DIAN, asked by a worker.  Answers may be lost.                       *)

\* Production: an answer at once; a document it holds is a duplicate.
SendBillSync(w) ==
    LET d == work[w].doc IN
    /\ config.environment = "1"
    /\ \/ Moves(w, "send", "duplicate") /\ valid[d] # 0 /\ UNCHANGED valid
       \/ Moves(w, "send", "invalid") /\ valid[d] = 0 /\ UNCHANGED valid
       \/ /\ Moves(w, "send", "valid") \/ Moves(w, "send", "failed")
          /\ valid[d] = 0 /\ valid' = [valid EXCEPT ![d] = row[d].signed]
    /\ UNCHANGED <<row, next, received>>

\* Tests: the document is taken for validation, or refused with no key.
SendTestSetAsync(w) ==
    LET d == work[w].doc IN
    /\ config.environment = "2"
    /\ \/ /\ Moves(w, "send", "sent") \/ Moves(w, "send", "failed")
          /\ received' = [received EXCEPT ![d] = IF @ = 0 THEN row[d].signed ELSE @]
       \/ Moves(w, "send", "invalid") /\ UNCHANGED received
    /\ UNCHANGED <<row, next, valid>>

\* The validation of a document taken ends; what is valid stays so.
DianValidates(d) ==
    /\ received[d] # 0
    /\ received' = [received EXCEPT ![d] = 0]
    /\ \/ valid[d] = 0 /\ valid' = [valid EXCEPT ![d] = received[d]]
       \/ UNCHANGED valid
    /\ UNCHANGED <<config, calls, retry, row, next, work>>

\* What was sent twice may be answered as a duplicate.
GetStatusZip(w) ==
    LET d == work[w].doc IN
    \/ Asks(w, "poll", "busy") /\ received[d] # 0
    \/ Asks(w, "poll", "invalid") /\ received[d] = 0 /\ valid[d] = 0
    \/ Asks(w, "poll", "valid") /\ received[d] = 0 /\ valid[d] = row[d].signed
    \/ Asks(w, "poll", "duplicate") /\ received[d] = 0 /\ valid[d] # 0

\* A duplicate is asked for by its cufe, which is that of one issue.
GetStatus(w) ==
    LET d == work[w].doc IN
    \/ Asks(w, "duplicate", "valid") /\ valid[d] = row[d].signed
    \/ Asks(w, "duplicate", "invalid") /\ valid[d] # row[d].signed

\* What call throws: there was no answer, it was an HTTP error, or it is a SOAP
\* fault, which says whose it was.
CallErrors == {"no answer", "4xx", "5xx", "Receiver", "Sender"}

RetryableError(e) == e \notin {"4xx", "Sender"}

CallFails(w) ==
    \E s \in {"send", "poll"}, e \in CallErrors :
        Asks(w, s, IF RetryableError(e) THEN "failed" ELSE "refused")

\* A statement fails, or what it builds cannot be built.
Fail(w) == \E s \in {"number", "build"} : Asks(w, s, "failed")

-----------------------------------------------------------------------------
(* Its answers are written.                                                 *)

Sent(w) ==
    LET d == work[w].doc IN WritesRow(w, "sent", "release", d, Told(d, "SENT", "later"))

StillValidating(w) ==
    LET d == work[w].doc IN
    WritesRow(w, "busy", "release", d, [row[d] EXCEPT !.due = "later", !.attempts = @ - 1])

MarkRejected(w) ==
    LET d == work[w].doc IN
    WritesRow(w, "invalid", "release", d, Told(d, "REJECTED", "never"))

MarkError(w) ==
    LET d    == work[w].doc
        last == work[w].tries >= MaxAttempts
    IN  \/ WritesRow(w, "failed", "release", d, Told(d, "ERROR", IF last THEN "never" ELSE "later"))
        \/ WritesRow(w, "refused", "release", d, Told(d, "ERROR", "never"))

MarkAccepted(w) ==
    LET d == work[w].doc IN
    WritesRow(w, "valid", "mail", d, Told(d, "ACCEPTED", "never"))

\* What the customer got, by this delivery or one before; a mail that fails is
\* counted, the count left out, and what comes next does not depend on it.
Delivers(w, from, to) ==
    \/ Asks(w, from, to)
    \/ WritesRow(w, from, to, work[w].doc, [row[work[w].doc] EXCEPT !.mailed = TRUE])

DeliverDocument(w) ==
    Delivers(w, "mail", IF work[w].doc \in Invoices THEN "wake" ELSE "release")

\* The job sends the mail again of what is accepted and was not mailed.
Undelivered(r) == r.status = "ACCEPTED" /\ ~r.mailed /\ ~r.locked

\* It takes the lease, in the same condition, and counts no attempt.
Redeliver(w, d) ==
    /\ work[w] = Idle /\ Undelivered(row[d])
    /\ row' = [row EXCEPT ![d].locked = TRUE]
    /\ work' = [work EXCEPT ![w] = [doc |-> d, step |-> "resend", tries |-> 0]]
    /\ UNCHANGED <<config, calls, retry, next, dianVars>>

ResendDocument(w) == Delivers(w, "resend", "release")

\* The note that waited for this invoice goes on.
WakeNotes(w) ==
    LET n == NoteOf(work[w].doc) IN
    WritesRow(w, "wake", "release", n,
              IF row[n].status \in {"PENDING", "ERROR"}
              THEN [Told(n, "PENDING", "now") EXCEPT !.attempts = 0] ELSE row[n])

\* A statement outside the reach of the catch fails, the results returned
\* without await among them: the row keeps what it had.
Escape(w) ==
    \E s \in {"read", "park", "wait", "sent", "valid", "invalid", "duplicate", "busy",
              "failed", "refused", "wake"} : Asks(w, s, "release")

\* A release that fails leaves the lease to run out.
Release(w) ==
    /\ work[w].step = "release"
    /\ work' = [work EXCEPT ![w] = Idle]
    /\ row' = [row EXCEPT ![work[w].doc].locked = FALSE] \/ UNCHANGED row
    /\ UNCHANGED <<config, calls, retry, next, dianVars>>

-----------------------------------------------------------------------------
(* Time and crashes.                                                        *)

Tick(d) ==
    /\ row[d].due = "later"
    /\ row' = [row EXCEPT ![d].due = "now"]
    /\ UNCHANGED <<config, calls, retry, next, work, dianVars>>

\* The lease outlives every step but the mail: the DIAN has a minute to answer,
\* the mail server ten, and the lease is five.
LeaseExpires(d) ==
    /\ row[d].locked
    /\ \A w \in Worker : work[w].doc = d => work[w].step \in {"mail", "resend"}
    /\ row' = [row EXCEPT ![d].locked = FALSE]
    /\ UNCHANGED <<config, calls, retry, next, work, dianVars>>

\* The server stops: rows stay, leases included.
Crash ==
    /\ work' = [w \in Worker |-> Idle]
    /\ calls' = {} /\ retry' = {}
    /\ UNCHANGED <<config, row, next, dianVars>>

Shop ==
    \/ \E o \in Order : EnqueueInvoice(o) \/ EnqueueCreditNote(o)
    \/ \E d \in Doc :
         \/ ProcessPending(d) \/ RetryRead(d)
         \/ \E s \in Statuses : RetryDocument(d, s)

ProcessDocument(w) ==
    \/ \E d \in Doc : Claim(w, d) \/ Redeliver(w, d)
    \/ Inspect(w) \/ Park(w) \/ Wait(w) \/ AssignNumber(w) \/ BuildSignedDocument(w)
    \/ SendBillSync(w) \/ SendTestSetAsync(w) \/ GetStatusZip(w) \/ GetStatus(w)
    \/ Sent(w) \/ StillValidating(w) \/ MarkRejected(w) \/ MarkError(w)
    \/ MarkAccepted(w) \/ DeliverDocument(w) \/ ResendDocument(w) \/ WakeNotes(w)
    \/ CallFails(w) \/ Fail(w) \/ Escape(w) \/ Release(w)

Next ==
    \/ Shop
    \/ \E w \in Worker : ProcessDocument(w)
    \/ \E d \in Doc : DianValidates(d) \/ Tick(d) \/ LeaseExpires(d)
    \/ Crash

Spec == Init /\ [][Next]_vars

-----------------------------------------------------------------------------
(* Properties.                                                              *)

\* Numbering "sin huecos": the numbers of each kind are 1, 2, ... with none
\* missing, none given twice and no invoice past the range of the resolution,
\* through retries, rejections, crashes and exhausted ranges.
NumbersDense ==
    /\ \A k \in Kind : {row[d].number : d \in Order \X {k}} \ {0} = 1..(next[k] - 1)
    /\ \A d, e \in Doc : d[2] = e[2] /\ row[d].number = row[e].number /\ row[d].number # 0 => d = e
    /\ \A d \in Invoices : row[d].number <= config.to

\* What the shop took for validated is what the DIAN holds, and only that is
\* mailed: what the customer gets are the contents with the validated cufe.
AcceptedIsValid ==
    \A d \in Doc :
      /\ row[d].status = "ACCEPTED" => row[d].signed # 0 /\ valid[d] = row[d].signed
      /\ row[d].mailed => row[d].status = "ACCEPTED"

\* And in production nothing the DIAN holds as valid is reported as rejected,
\* however many answers were lost: an admin may make a rejected document anew.
RejectedIsNotValid ==
    config.environment = "1" => \A d \in Doc : row[d].status = "REJECTED" => valid[d] = 0

\* The verdict the shop shows of a document is that of the DIAN.
VerdictsAreReal == AcceptedIsValid /\ RejectedIsNotValid

\* No credit note is numbered or sent before the DIAN has validated the invoice
\* that it annuls.
NoteAfterInvoice ==
    \A d \in Notes : row[d].number # 0 => valid[InvoiceOf(d)] # 0 /\ row[InvoiceOf(d)].status = "ACCEPTED"

\* Only one worker at a time is past the claim of a document and before the
\* answer is written.
OneSender ==
    \A v, w \in Worker :
      /\ work[v].doc = work[w].doc /\ work[v].doc # NoDoc
      /\ {work[v].step, work[w].step} \cap {"mail", "wake", "resend", "release"} = {}
      => v = w

=============================================================================
