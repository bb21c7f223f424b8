---------------------------- MODULE FunnelIntake ----------------------------
(***************************************************************************)
(* The signup (or contact) intake of apps/web: the form of each visitor,   *)
(* the route handler of each submission, the JSONL file with its memory    *)
(* fallback, the webhook, and the admin page that reads the records back.  *)
(* Handlers and the page run on one thread and interleave at each await.   *)
(*                                                                         *)
(* A record is a visitor's n-th submission.  A write to the file may be    *)
(* whole, fail with nothing written, or fail after a part of the line (a   *)
(* disk that fills up).  A part may be all of the record but its newline,  *)
(* which still parses as long as nothing follows it on its line.           *)
(***************************************************************************)
EXTENDS Integers, Sequences, SequencesExt, FiniteSets

CONSTANTS Visitors,
          MaxAttempts,          \* bound: submissions of one visitor
          MaxRestarts           \* bound: restarts of the process

ASSUME IntakeAssumption ==
  /\ MaxAttempts \in Nat
  /\ MaxRestarts \in Nat

VARIABLES configured, \* FUNNEL_WEBHOOK_URL is set
          form,       \* visitor -> the submissions made and what the form shows
          handler,    \* record -> where its route handler stands
          file,       \* the lines of the file, each a sequence of fragments
          unended,    \* the last line lacks its newline
          memory,     \* signupMemory
          webhook,    \* record -> how far its POST got
          reported,   \* record -> what notifyFunnelWebhook returned
          page,       \* the admin page: the lines read, then the rows shown
          answered,   \* history: records answered with 201
          lost,       \* history: records in memory at a restart
          short,      \* history: a write stopped short
          restarts

env   == <<configured, restarts>>
store == <<file, unended, memory, short>>
vars  == <<form, handler, store, webhook, reported, page, answered, lost, env>>

Record   == Visitors \X (1 .. MaxAttempts)
Fragment == [record : Record, whole : BOOLEAN]
Line     == Seq(Fragment)
Active   == {"append", "fallback", "notify", "posted", "respond"}
Places   == Active \cup {"none", "rejected", "done", "dead"}

Closed   == [at |-> "closed", failed |-> FALSE, due |-> {}, rows |-> <<>>]

Init ==
  /\ configured \in BOOLEAN
  /\ form     = [v \in Visitors |-> [made |-> 0, shows |-> "form"]]
  /\ handler  = [r \in Record |-> "none"]
  /\ file = <<>> /\ unended = FALSE /\ memory = <<>> /\ short = FALSE
  /\ webhook  = [r \in Record |-> "none"]
  /\ reported = [r \in Record |-> "none"]
  /\ page     = Closed
  /\ answered = {} /\ lost = {} /\ restarts = 0

Goto(r, from, to) ==
  handler[r] = from /\ handler' = [handler EXCEPT ![r] = to]

------------------------------------------------------------------------------
(* The form *)

\* A first submission, or another one after an error.
Submit(v) ==
  /\ form[v].shows \in {"form", "error"} /\ form[v].made < MaxAttempts
  /\ form' = [form EXCEPT ![v] = [made |-> @.made + 1, shows |-> "submitting"]]
  /\ UNCHANGED <<handler, store, webhook, reported, page, answered, lost, env>>

ShowSuccess(v) ==
  /\ form[v].shows = "submitting" /\ <<v, form[v].made>> \in answered
  /\ form' = [form EXCEPT ![v].shows = "success"]
  /\ UNCHANGED <<handler, store, webhook, reported, page, answered, lost, env>>

\* The request was rejected, or it or its answer is lost: "Please try again."
ShowError(v) ==
  /\ form[v].shows = "submitting"
  /\ form' = [form EXCEPT ![v].shows = "error"]
  /\ UNCHANGED <<handler, store, webhook, reported, page, answered, lost, env>>

------------------------------------------------------------------------------
(* The store *)

\* Variant: the file is written anew.
WrittenAfresh(fragment) == <<<<fragment>>>>

\* The file after `fragment` was written at its end, with or without a newline.
Written(fragment) ==
  IF unended THEN [file EXCEPT ![Len(file)] = Append(@, fragment)]
  ELSE Append(file, <<fragment>>)

\* Variant: the record is kept in memory whether the write failed or not.
AppendWholeAndFallBack(r) ==
  /\ Goto(r, "append", "fallback")
  /\ file' = Written([record |-> r, whole |-> TRUE])
  /\ unended' = FALSE
  /\ UNCHANGED <<memory, short>>

AppendWhole(r) ==
  /\ Goto(r, "append", "notify")
  /\ file' = Written([record |-> r, whole |-> TRUE])
  /\ unended' = FALSE
  /\ UNCHANGED <<memory, short>>

\* The write fails, with nothing written or after a part of the line.
AppendFails(r) ==
  /\ Goto(r, "append", "fallback")
  /\ \/ UNCHANGED <<file, unended, short>>
     \/ /\ \E whole \in BOOLEAN : file' = Written([record |-> r, whole |-> whole])
        /\ unended' = TRUE
        /\ short' = TRUE
  /\ UNCHANGED memory

Fallback(r) ==
  /\ Goto(r, "fallback", "notify")
  /\ memory' = Append(memory, r)
  /\ UNCHANGED <<file, unended, short>>

AppendSignup(r) ==
  /\ AppendWhole(r) \/ AppendFails(r) \/ Fallback(r)
  /\ UNCHANGED <<form, webhook, reported, page, answered, lost, env>>

\* readJsonLines: one line that does not parse makes the whole file unreadable,
\* and its readers answer as if the file were empty.
Parses(line) == Len(line) = 1 /\ line[1].whole
Rows == IF \A i \in DOMAIN file : Parses(file[i])
        THEN [i \in DOMAIN file |-> file[i][1].record]
        ELSE <<>>

\* The admin page reads the file, and the memory once the file is read.  A read
\* that fails is answered as if the file were empty, too.
BeginRead ==
  /\ page.at = "closed"
  /\ \E failed \in BOOLEAN :
       page' = [at |-> "reading", failed |-> failed, due |-> answered,
                rows |-> IF failed THEN <<>> ELSE Rows]
  /\ UNCHANGED <<form, handler, store, webhook, reported, answered, lost, env>>

\* Variant: the memory is one row of the answer.
EndReadUnspread ==
  /\ page.at = "reading"
  /\ page' = [page EXCEPT !.at = "shown", !.rows = Append(@, memory)]
  /\ UNCHANGED <<form, handler, store, webhook, reported, answered, lost, env>>

EndRead ==
  /\ page.at = "reading"
  /\ page' = [page EXCEPT !.at = "shown", !.rows = @ \o memory]
  /\ UNCHANGED <<form, handler, store, webhook, reported, answered, lost, env>>

Close ==
  /\ page.at = "shown"
  /\ page' = Closed
  /\ UNCHANGED <<form, handler, store, webhook, reported, answered, lost, env>>

------------------------------------------------------------------------------
(* The webhook *)

\* POST the record, if a URL is configured.
Post(r) ==
  /\ IF configured
       THEN /\ Goto(r, "notify", "posted")
            /\ webhook' = [webhook EXCEPT ![r] = "sent"]
            /\ UNCHANGED reported
       ELSE /\ Goto(r, "notify", "respond")
            /\ reported' = [reported EXCEPT ![r] = "failed"]
            /\ UNCHANGED webhook
  /\ UNCHANGED <<form, store, page, answered, lost, env>>

\* The receiver gets the record, possibly after the handler stopped waiting.
Receive(r) ==
  /\ webhook[r] = "sent"
  /\ webhook' = [webhook EXCEPT ![r] = "received"]
  /\ UNCHANGED <<form, handler, store, reported, page, answered, lost, env>>

\* Variant: the POST is not awaited.
DeliveredUnawaited(r) ==
  /\ Goto(r, "posted", "respond")
  /\ reported' = [reported EXCEPT ![r] = "delivered"]
  /\ UNCHANGED <<form, store, webhook, page, answered, lost, env>>

Delivered(r) ==
  /\ Goto(r, "posted", "respond")
  /\ webhook[r] = "received"
  /\ reported' = [reported EXCEPT ![r] = "delivered"]
  /\ UNCHANGED <<form, store, webhook, page, answered, lost, env>>

\* Variant: no timer aborts the request.
NotDeliveredOnceReceived(r) ==
  /\ Goto(r, "posted", "respond")
  /\ webhook[r] = "received"
  /\ reported' = [reported EXCEPT ![r] = "failed"]
  /\ UNCHANGED <<form, store, webhook, page, answered, lost, env>>

\* A non-2xx answer, a failed fetch, or the abort when the timer ends.
NotDelivered(r) ==
  /\ Goto(r, "posted", "respond")
  /\ reported' = [reported EXCEPT ![r] = "failed"]
  /\ UNCHANGED <<form, store, webhook, page, answered, lost, env>>

NotifyFunnelWebhook(r) == Post(r) \/ Delivered(r) \/ NotDelivered(r)

------------------------------------------------------------------------------
(* The route handler and the process *)

\* The request arrives, perhaps after the form gave up, and its payload is valid
\* or answered with 400.
Arrive(r) ==
  /\ r[2] <= form[r[1]].made
  /\ Goto(r, "none", "append") \/ Goto(r, "none", "rejected")
  /\ UNCHANGED <<form, store, webhook, reported, page, answered, lost, env>>

Respond(r) ==
  /\ Goto(r, "respond", "done")
  /\ answered' = answered \cup {r}
  /\ UNCHANGED <<form, store, webhook, reported, page, lost, env>>

\* The process ends and starts again: the file stays, the memory does not.
Restart ==
  /\ restarts < MaxRestarts
  /\ restarts' = restarts + 1
  /\ memory' = <<>>
  /\ lost' = lost \cup ToSet(memory)
  /\ handler' = [r \in Record |-> IF handler[r] \in Active THEN "dead" ELSE handler[r]]
  /\ page' = Closed
  /\ UNCHANGED <<configured, form, file, unended, short, webhook, reported, answered>>

Handle(r) == AppendSignup(r) \/ NotifyFunnelWebhook(r) \/ Respond(r)

Next == \/ \E v \in Visitors : Submit(v) \/ ShowSuccess(v) \/ ShowError(v)
        \/ \E r \in Record : Arrive(r) \/ Handle(r) \/ Receive(r)
        \/ BeginRead \/ EndRead \/ Close
        \/ Restart

Spec == Init /\ [][Next]_vars

\* File operations end and the webhook's timer fires; whether a receiver ever
\* gets a request is left open.
FairSpec == Spec /\ \A r \in Record : WF_vars(Handle(r))

------------------------------------------------------------------------------
(* Properties *)

TypeOK ==
  /\ configured \in BOOLEAN
  /\ form \in [Visitors -> [made : 0 .. MaxAttempts,
                            shows : {"form", "submitting", "success", "error"}]]
  /\ handler \in [Record -> Places]
  /\ file \in Seq(Line) /\ unended \in BOOLEAN /\ short \in BOOLEAN
  /\ memory \in Seq(Record)
  /\ webhook \in [Record -> {"none", "sent", "received"}]
  /\ reported \in [Record -> {"none", "delivered", "failed"}]
  /\ page \in [at : {"closed", "reading", "shown"}, failed : BOOLEAN,
              due : SUBSET Record, rows : Seq(Record)]
  /\ answered \subseteq Record /\ lost \subseteq Record
  /\ restarts \in 0 .. MaxRestarts

Copies(rows, r) == Cardinality({i \in DOMAIN rows : rows[i] = r})

\* A lead answered with 201 is kept: its text is somewhere in the file or it is
\* in memory, unless a restart emptied the memory it was in.  Short writes and
\* concurrent handlers may hide it, but destroy none.
AnsweredKept ==
  \A r \in answered :
    \/ r \in lost
    \/ r \in ToSet(memory)
    \/ \E i \in DOMAIN file : [record |-> r, whole |-> TRUE] \in ToSet(file[i])

\* While no write stopped short, a page that could read the file shows each lead
\* answered before it began to, once, although handlers write between its two
\* reads.
PageComplete ==
  ~short /\ page.at = "shown" /\ ~page.failed =>
    \A r \in page.due \ lost : Copies(page.rows, r) = 1

\* A delivery that is reported was received.  (One reported as failed may have
\* been received too: the timer races the answer.)
ReportedReceived == \A r \in Record : reported[r] = "delivered" => webhook[r] = "received"

\* What is told is true: the 201 to the visitor, the rows to the admin and the
\* delivery to the log, as the three above say it.
AnswersTrue == AnsweredKept /\ PageComplete /\ ReportedReceived

\* A slow webhook receiver or a failing disk never leaves a visitor waiting.
SubmissionsAnswered ==
  \A r \in Record : handler[r] = "append" ~> handler[r] \in {"done", "dead"}
=============================================================================
