------------------------- MODULE FunnelIntakeProofs -------------------------
(***************************************************************************)
(* Safety of the funnel's intake for any number of visitors, submissions   *)
(* and restarts.  Where a handler stands tells whether its record has been *)
(* written: from there on the record is in the file, in memory or lost     *)
(* with it, and while no write stopped short it is in one of them once.    *)
(***************************************************************************)
EXTENDS FunnelIntake, FiniteSetTheorems, TLAPS

\* Where a handler is once its record is written.
AfterAppend == {"notify", "posted", "respond", "done"}

Whole(r) == [record |-> r, whole |-> TRUE]
Holds(lines, fragment) == \E i \in DOMAIN lines : fragment \in ToSet(lines[i])

Kept(r) == r \in lost \/ r \in ToSet(memory) \/ Holds(file, Whole(r))

KeptInv ==
  /\ unended => file # <<>>
  /\ \A r \in Record : handler[r] \in AfterAppend => Kept(r)
  /\ \A r \in answered : handler[r] = "done"

\* A handler that has not posted yet has nothing reported.
ReportInv ==
  /\ ReportedReceived
  /\ \A r \in Record :
       handler[r] \in {"none", "append", "fallback", "notify"} => reported[r] = "none"

\* The file as it is while no write stopped short: whole lines of one record.
Plain(lines) == \A i \in DOMAIN lines : \E r \in Record : lines[i] = <<Whole(r)>>

Distinct(s) == \A i, k \in DOMAIN s : s[i] = s[k] => i = k

\* Each record is written once, in the file or in memory, and by its handler.
StoreInv ==
  /\ ~unended /\ Plain(file) /\ Distinct(file) /\ Distinct(memory)
  /\ \A r \in Record : Holds(file, Whole(r)) \/ r \in ToSet(memory) =>
       handler[r] \in AfterAppend \cup {"dead"}
  /\ \A r \in ToSet(memory) : ~Holds(file, Whole(r))

\* What the page has read of the file is still there, and what it has not read
\* will be in the memory it reads next.
PageInv ==
  /\ page.at # "closed" /\ ~page.failed => Distinct(page.rows)
  /\ page.at = "reading" /\ ~page.failed =>
       /\ \A r \in ToSet(page.rows) : Holds(file, Whole(r))
       /\ page.due \ lost \subseteq ToSet(page.rows) \cup ToSet(memory)
  /\ page.at = "shown" /\ ~page.failed => page.due \ lost \subseteq ToSet(page.rows)

IInv ==
  /\ TypeOK
  /\ KeptInv
  /\ ReportInv
  /\ ~short => StoreInv /\ PageInv

------------------------------------------------------------------------------
(* Sequences, and the file as a sequence of lines. *)

LEMMA AppendedSet ==
  ASSUME NEW S, NEW s \in Seq(S), NEW x \in S
  PROVE  Append(s, x) \in Seq(S) /\ ToSet(Append(s, x)) = ToSet(s) \cup {x}
<1> DEFINE t == Append(s, x)
<1>1. /\ t \in Seq(S) /\ DOMAIN t = 1 .. Len(s) + 1 /\ DOMAIN s = 1 .. Len(s)
      /\ Len(s) \in Nat /\ t[Len(s) + 1] = x /\ \A i \in 1 .. Len(s) : t[i] = s[i]
  OBVIOUS
<1>2. ToSet(t) \subseteq ToSet(s) \cup {x}
  <2> SUFFICES ASSUME NEW i \in DOMAIN t PROVE t[i] \in ToSet(s) \cup {x}
    BY DEF ToSet
  <2>1. CASE i = Len(s) + 1
    BY <1>1, <2>1
  <2>2. CASE i \in 1 .. Len(s)
    BY <1>1, <2>2 DEF ToSet
  <2> QED
    BY <1>1, <2>1, <2>2
<1>3. \A i \in DOMAIN s : s[i] \in ToSet(t)
  <2> SUFFICES ASSUME NEW i \in DOMAIN s PROVE s[i] \in ToSet(t)
    OBVIOUS
  <2>1. i \in DOMAIN t /\ t[i] = s[i]
    BY <1>1
  <2> QED
    BY <2>1 DEF ToSet
<1>4. x \in ToSet(t)
  <2>1. Len(s) + 1 \in DOMAIN t
    BY <1>1
  <2> QED
    BY <1>1, <2>1 DEF ToSet
<1> QED
  BY <1>1, <1>2, <1>3, <1>4 DEF ToSet

LEMMA JoinedSet ==
  ASSUME NEW S, NEW s \in Seq(S), NEW t \in Seq(S)
  PROVE  s \o t \in Seq(S) /\ ToSet(s \o t) = ToSet(s) \cup ToSet(t)
<1> DEFINE u == s \o t
<1>1. /\ u \in Seq(S) /\ DOMAIN u = 1 .. Len(s) + Len(t) /\ DOMAIN s = 1 .. Len(s)
      /\ DOMAIN t = 1 .. Len(t) /\ Len(s) \in Nat /\ Len(t) \in Nat
      /\ \A i \in 1 .. Len(s) : u[i] = s[i]
      /\ \A i \in 1 .. Len(t) : u[Len(s) + i] = t[i]
  OBVIOUS
<1>2. ToSet(u) \subseteq ToSet(s) \cup ToSet(t)
  <2> SUFFICES ASSUME NEW i \in DOMAIN u PROVE u[i] \in ToSet(s) \cup ToSet(t)
    BY DEF ToSet
  <2>1. CASE i \in 1 .. Len(s)
    BY <1>1, <2>1 DEF ToSet
  <2>2. CASE i \notin 1 .. Len(s)
    <3>1. i - Len(s) \in DOMAIN t /\ u[i] = t[i - Len(s)]
      <4>1. i - Len(s) \in 1 .. Len(t) /\ Len(s) + (i - Len(s)) = i
        BY <1>1, <2>2
      <4> QED
        BY <1>1, <4>1
    <3> QED
      BY <3>1 DEF ToSet
  <2> QED
    BY <2>1, <2>2
<1>3. ToSet(s) \subseteq ToSet(u)
  <2> SUFFICES ASSUME NEW i \in DOMAIN s PROVE s[i] \in ToSet(u)
    BY DEF ToSet
  <2>1. i \in DOMAIN u /\ u[i] = s[i]
    BY <1>1
  <2> QED
    BY <2>1 DEF ToSet
<1>4. ToSet(t) \subseteq ToSet(u)
  <2> SUFFICES ASSUME NEW i \in DOMAIN t PROVE t[i] \in ToSet(u)
    BY DEF ToSet
  <2>1. Len(s) + i \in DOMAIN u /\ u[Len(s) + i] = t[i]
    BY <1>1
  <2> QED
    BY <2>1 DEF ToSet
<1> QED
  BY <1>1, <1>2, <1>3, <1>4

\* A sequence without repetitions keeps none when something new is added.
LEMMA AppendedDistinct ==
  ASSUME NEW S, NEW s \in Seq(S), NEW x \in S, Distinct(s), x \notin ToSet(s)
  PROVE  Distinct(Append(s, x))
<1> DEFINE t == Append(s, x)
<1>1. /\ DOMAIN t = 1 .. Len(s) + 1 /\ DOMAIN s = 1 .. Len(s) /\ Len(s) \in Nat
      /\ t[Len(s) + 1] = x /\ \A i \in 1 .. Len(s) : t[i] = s[i]
  OBVIOUS
<1>2. \A i \in 1 .. Len(s) : t[i] # x
  BY <1>1 DEF ToSet
<1> QED
  BY <1>1, <1>2 DEF Distinct

LEMMA JoinedDistinct ==
  ASSUME NEW S, NEW s \in Seq(S), NEW t \in Seq(S), Distinct(s), Distinct(t),
         ToSet(s) \cap ToSet(t) = {}
  PROVE  Distinct(s \o t)
<1> DEFINE u == s \o t
<1>1. /\ DOMAIN u = 1 .. Len(s) + Len(t) /\ DOMAIN s = 1 .. Len(s)
      /\ DOMAIN t = 1 .. Len(t) /\ Len(s) \in Nat /\ Len(t) \in Nat
      /\ \A i \in 1 .. Len(s) : u[i] = s[i]
      /\ \A i \in 1 .. Len(t) : u[Len(s) + i] = t[i]
  OBVIOUS
<1>2. ASSUME NEW i \in DOMAIN u, i \notin 1 .. Len(s)
      PROVE  i - Len(s) \in DOMAIN t /\ u[i] = t[i - Len(s)]
  <2>1. i - Len(s) \in 1 .. Len(t) /\ Len(s) + (i - Len(s)) = i
    BY <1>1, <1>2
  <2> QED
    BY <1>1, <2>1
<1> SUFFICES ASSUME NEW i \in DOMAIN u, NEW k \in DOMAIN u, u[i] = u[k] PROVE i = k
  BY DEF Distinct
<1>3. CASE i \in 1 .. Len(s) /\ k \in 1 .. Len(s)
  BY <1>1, <1>3 DEF Distinct
<1>4. CASE i \notin 1 .. Len(s) /\ k \notin 1 .. Len(s)
  <2>1. i - Len(s) = k - Len(s)
    BY <1>2, <1>4 DEF Distinct
  <2> QED
    BY <1>1, <2>1
<1>5. CASE i \in 1 .. Len(s) /\ k \notin 1 .. Len(s)
  BY <1>1, <1>2, <1>5 DEF ToSet
<1>6. CASE i \notin 1 .. Len(s) /\ k \in 1 .. Len(s)
  BY <1>1, <1>2, <1>6 DEF ToSet
<1> QED
  BY <1>3, <1>4, <1>5, <1>6

\* What occurs in a sequence without repetitions occurs once.
LEMMA OneCopy ==
  ASSUME NEW s, NEW x \in ToSet(s), Distinct(s)
  PROVE  Copies(s, x) = 1
<1>1. PICK i \in DOMAIN s : s[i] = x
  BY DEF ToSet
<1>2. {k \in DOMAIN s : s[k] = x} = {i}
  BY <1>1 DEF Distinct
<1> QED
  BY <1>2, FS_Singleton DEF Copies

\* A write loses nothing of the file, and adds what it writes.
LEMMA WrittenHolds ==
  ASSUME file \in Seq(Line), unended \in BOOLEAN, unended => file # <<>>,
         NEW fragment \in Fragment
  PROVE  /\ Written(fragment) \in Seq(Line) /\ Written(fragment) # <<>>
         /\ Holds(Written(fragment), fragment)
         /\ \A f : Holds(file, f) => Holds(Written(fragment), f)
<1> DEFINE new == Written(fragment)
<1>1. CASE unended
  <2> DEFINE n == Len(file)
             line == Append(file[n], fragment)
  <2>1. n \in DOMAIN file /\ file[n] \in Seq(Fragment)
    BY <1>1 DEF Line
  <2>2. line \in Seq(Fragment) /\ ToSet(line) = ToSet(file[n]) \cup {fragment}
    BY <2>1, AppendedSet
  <2>3. new = [file EXCEPT ![n] = line]
    BY <1>1 DEF Written
  <2>4. new \in Seq(Line) /\ DOMAIN new = DOMAIN file
    <3>1. line \in Line
      BY <2>2 DEF Line
    <3> QED
      BY <2>1, <2>3, <3>1
  <2>5. \A i \in DOMAIN file : ToSet(file[i]) \subseteq ToSet(new[i])
    BY <2>1, <2>2, <2>3
  <2>6. fragment \in ToSet(new[n])
    BY <2>1, <2>2, <2>3
  <2> QED
    BY <2>1, <2>4, <2>5, <2>6 DEF Holds
<1>2. CASE ~unended
  <2> DEFINE line == <<fragment>>
  <2>1. line \in Line /\ ToSet(line) = {fragment}
    BY DEF Line, ToSet
  <2>2. new = Append(file, line)
    BY <1>2 DEF Written
  <2>3. /\ new \in Seq(Line) /\ DOMAIN new = 1 .. Len(file) + 1 /\ Len(file) \in Nat
        /\ DOMAIN file = 1 .. Len(file)
        /\ new[Len(file) + 1] = line /\ \A i \in 1 .. Len(file) : new[i] = file[i]
    BY <2>1, <2>2
  <2>4. Len(file) + 1 \in DOMAIN new /\ fragment \in ToSet(new[Len(file) + 1])
    BY <2>1, <2>3
  <2>5. \A i \in DOMAIN file : i \in DOMAIN new /\ new[i] = file[i]
    BY <2>3
  <2> QED
    BY <2>3, <2>4, <2>5 DEF Holds
<1> QED
  BY <1>1, <1>2

------------------------------------------------------------------------------
(* Types. *)

StoreTyped == /\ file \in Seq(Line) /\ unended \in BOOLEAN /\ short \in BOOLEAN
              /\ memory \in Seq(Record)

LEMMA FragmentTyped ==
  ASSUME NEW r \in Record, NEW whole \in BOOLEAN
  PROVE  [record |-> r, whole |-> whole] \in Fragment
  BY DEF Fragment

\* What an append does to the store: a record added to the file, cut short or
\* not, or to memory, or nothing.
LEMMA AppendCases ==
  ASSUME NEW r \in Record, AppendSignup(r)
  PROVE  /\ UNCHANGED <<form, webhook, reported, page, answered, lost, env>>
         /\ \/ /\ Goto(r, "append", "notify") /\ file' = Written(Whole(r))
               /\ unended' = FALSE /\ UNCHANGED <<memory, short>>
            \/ Goto(r, "append", "fallback") /\ UNCHANGED store
            \/ /\ Goto(r, "append", "fallback") /\ UNCHANGED memory
               /\ \E whole \in BOOLEAN : file' = Written([record |-> r, whole |-> whole])
               /\ unended' = TRUE /\ short' = TRUE
            \/ /\ Goto(r, "fallback", "notify") /\ memory' = Append(memory, r)
               /\ UNCHANGED <<file, unended, short>>
  BY DEF AppendSignup, AppendWhole, AppendFails, Fallback, Whole, store

\* The rows read of a file that parses are its records.
LEMMA RowsTyped ==
  ASSUME file \in Seq(Line)
  PROVE  Rows \in Seq(Record)
<1>1. CASE \A i \in DOMAIN file : Parses(file[i])
  <2>1. \A i \in 1 .. Len(file) : file[i][1].record \in Record
    <3> SUFFICES ASSUME NEW i \in 1 .. Len(file) PROVE file[i][1].record \in Record
      OBVIOUS
    <3>1. file[i] \in Seq(Fragment) /\ Len(file[i]) = 1
      BY <1>1 DEF Parses, Line
    <3>2. file[i][1] \in Fragment
      BY <3>1
    <3> QED
      BY <3>2 DEF Fragment
  <2>2. Len(file) \in Nat /\ DOMAIN file = 1 .. Len(file)
    OBVIOUS
  <2>3. Rows = [i \in 1 .. Len(file) |-> file[i][1].record]
    BY <1>1, <2>2 DEF Rows
  <2> QED
    BY <2>1, <2>2, <2>3
<1>2. CASE ~\A i \in DOMAIN file : Parses(file[i])
  <2>1. Rows = <<>>
    BY <1>2 DEF Rows
  <2> QED
    BY <2>1
<1> QED
  BY <1>1, <1>2

LEMMA GotoTyped ==
  ASSUME handler \in [Record -> Places], NEW r \in Record, NEW from, NEW to \in Places,
         Goto(r, from, to)
  PROVE  /\ handler' \in [Record -> Places] /\ handler[r] = from /\ handler'[r] = to
         /\ \A q \in Record : q # r => handler'[q] = handler[q]
  BY DEF Goto

LEMMA InitTyped == Init => TypeOK
<1> SUFFICES ASSUME Init PROVE TypeOK
  OBVIOUS
<1>1. Closed \in [at : {"closed", "reading", "shown"}, failed : BOOLEAN,
                  due : SUBSET Record, rows : Seq(Record)]
  BY DEF Closed
<1>2. [made |-> 0, shows |-> "form"] \in
        [made : 0 .. MaxAttempts, shows : {"form", "submitting", "success", "error"}]
  BY IntakeAssumption
<1>3. restarts \in 0 .. MaxRestarts
  BY IntakeAssumption DEF Init
<1>4. file \in Seq(Line) /\ memory \in Seq(Record)
  BY DEF Init
<1> QED
  BY <1>1, <1>2, <1>3, <1>4 DEF Init, TypeOK, Places

LEMMA FormTyped ==
  ASSUME TypeOK, NEW v \in Visitors, Submit(v) \/ ShowSuccess(v) \/ ShowError(v)
  PROVE  TypeOK'
<1>1. /\ UNCHANGED <<handler, file, unended, memory, short, webhook, reported, page,
                     answered, lost, configured, restarts>>
  BY DEF Submit, ShowSuccess, ShowError, store, env
<1>2. form' \in [Visitors -> [made : 0 .. MaxAttempts,
                              shows : {"form", "submitting", "success", "error"}]]
  <2>1. CASE Submit(v)
    <3>1. form[v].made + 1 \in 0 .. MaxAttempts
      BY <2>1, IntakeAssumption DEF Submit, TypeOK
    <3> QED
      BY <2>1, <3>1 DEF Submit, TypeOK
  <2>2. CASE ShowSuccess(v) \/ ShowError(v)
    BY <2>2 DEF ShowSuccess, ShowError, TypeOK
  <2> QED
    BY <2>1, <2>2
<1> QED
  BY <1>1, <1>2 DEF TypeOK

LEMMA AppendTyped ==
  ASSUME TypeOK, unended => file # <<>>, NEW r \in Record, AppendSignup(r)
  PROVE  TypeOK' /\ (unended => file # <<>>)'
<1>1. UNCHANGED <<form, webhook, reported, page, answered, lost, configured, restarts>>
  BY AppendCases DEF env
<1>2. file \in Seq(Line) /\ unended \in BOOLEAN /\ memory \in Seq(Record)
  BY DEF TypeOK
<1>3. \A whole \in BOOLEAN : LET new == Written([record |-> r, whole |-> whole]) IN
        new \in Seq(Line) /\ new # <<>>
  BY <1>2, FragmentTyped, WrittenHolds
<1>4. StoreTyped' /\ (unended => file # <<>>)'
  <2>1. CASE file' = Written(Whole(r)) /\ unended' = FALSE /\ UNCHANGED <<memory, short>>
    BY <1>3, <2>1 DEF StoreTyped, TypeOK, Whole
  <2>2. CASE UNCHANGED store
    BY <2>2 DEF StoreTyped, TypeOK, store
  <2>3. CASE /\ \E whole \in BOOLEAN : file' = Written([record |-> r, whole |-> whole])
             /\ unended' = TRUE /\ short' = TRUE /\ UNCHANGED memory
    BY <1>3, <2>3 DEF StoreTyped, TypeOK
  <2>4. CASE memory' = Append(memory, r) /\ UNCHANGED <<file, unended, short>>
    BY <1>2, <2>4 DEF StoreTyped, TypeOK
  <2> QED
    BY <2>1, <2>2, <2>3, <2>4, AppendCases
<1>5. handler' \in [Record -> Places]
  BY AppendCases, GotoTyped DEF TypeOK, Places, Active
<1> QED
  BY <1>1, <1>4, <1>5 DEF TypeOK, StoreTyped

LEMMA WebhookTyped ==
  ASSUME TypeOK, NEW r \in Record, NotifyFunnelWebhook(r) \/ Receive(r)
  PROVE  TypeOK'
<1>1. UNCHANGED <<form, file, unended, memory, short, page, answered, lost, configured, restarts>>
  BY DEF NotifyFunnelWebhook, Post, Delivered, NotDelivered, Receive, store, env
<1>2. handler' \in [Record -> Places]
  BY GotoTyped DEF NotifyFunnelWebhook, Post, Delivered, NotDelivered, Receive, TypeOK,
                   Places, Active
<1>3. /\ webhook' \in [Record -> {"none", "sent", "received"}]
      /\ reported' \in [Record -> {"none", "delivered", "failed"}]
  BY DEF NotifyFunnelWebhook, Post, Delivered, NotDelivered, Receive, TypeOK
<1> QED
  BY <1>1, <1>2, <1>3 DEF TypeOK

LEMMA RouteTyped ==
  ASSUME TypeOK, NEW r \in Record, Arrive(r) \/ Respond(r)
  PROVE  TypeOK'
<1>1. UNCHANGED <<form, file, unended, memory, short, webhook, reported, page, lost,
                  configured, restarts>>
  BY DEF Arrive, Respond, store, env
<1>2. handler' \in [Record -> Places] /\ answered' \subseteq Record
  BY GotoTyped DEF Arrive, Respond, TypeOK, Places, Active
<1> QED
  BY <1>1, <1>2 DEF TypeOK

LEMMA PageTyped ==
  ASSUME TypeOK, BeginRead \/ EndRead \/ Close
  PROVE  TypeOK'
<1> DEFINE Pages == [at : {"closed", "reading", "shown"}, failed : BOOLEAN,
                     due : SUBSET Record, rows : Seq(Record)]
<1>1. UNCHANGED <<form, handler, file, unended, memory, short, webhook, reported,
                  answered, lost, configured, restarts>>
  BY DEF BeginRead, EndRead, Close, store, env
<1>2. Rows \in Seq(Record) /\ <<>> \in Seq(Record) /\ answered \subseteq Record
  BY RowsTyped DEF TypeOK
<1>3. CASE BeginRead
  <2>1. page' \in Pages
    BY <1>2, <1>3 DEF BeginRead
  <2> QED
    BY <1>1, <2>1 DEF TypeOK
<1>4. CASE EndRead
  <2>1. page.rows \in Seq(Record) /\ memory \in Seq(Record) /\ page \in Pages
    BY DEF TypeOK
  <2>2. page.rows \o memory \in Seq(Record)
    BY <2>1
  <2>3. page' \in Pages
    BY <1>4, <2>1, <2>2 DEF EndRead
  <2> QED
    BY <1>1, <2>3 DEF TypeOK
<1>5. CASE Close
  <2>1. page' \in Pages
    BY <1>5 DEF Close, Closed
  <2> QED
    BY <1>1, <2>1 DEF TypeOK
<1> QED
  BY <1>3, <1>4, <1>5

LEMMA RestartTyped ==
  ASSUME TypeOK, Restart
  PROVE  TypeOK'
<1>1. UNCHANGED <<configured, form, file, unended, short, webhook, reported, answered>>
  BY DEF Restart
<1>2. restarts' \in 0 .. MaxRestarts
  BY IntakeAssumption DEF Restart, TypeOK
<1>3. memory' \in Seq(Record) /\ lost' \subseteq Record
  BY DEF Restart, TypeOK, ToSet
<1>4. handler' \in [Record -> Places]
  BY DEF Restart, TypeOK, Places
<1>5. page' \in [at : {"closed", "reading", "shown"}, failed : BOOLEAN,
                 due : SUBSET Record, rows : Seq(Record)]
  BY DEF Restart, Closed
<1> QED
  BY <1>1, <1>2, <1>3, <1>4, <1>5 DEF TypeOK

------------------------------------------------------------------------------
(* Records are kept, and what is reported was received. *)

\* What the steps of the handlers, the page and the form have in common: a record
\* kept stays kept.
StoreGrows ==
  /\ \A f : Holds(file, f) => Holds(file, f)'
  /\ ToSet(memory) \subseteq ToSet(memory)' \cup lost'
  /\ lost \subseteq lost'

LEMMA StaysKept ==
  ASSUME StoreGrows, NEW r, Kept(r)
  PROVE  Kept(r)'
  BY DEF StoreGrows, Kept

\* A step that writes nothing.
LEMMA StoreUntouched ==
  ASSUME UNCHANGED <<store, lost>>
  PROVE  StoreGrows /\ \A f : Holds(file, f)' <=> Holds(file, f)
  BY DEF store, StoreGrows, Holds

LEMMA AppendKeeps ==
  ASSUME TypeOK, KeptInv, NEW r \in Record, AppendSignup(r)
  PROVE  StoreGrows /\ (handler'[r] \in AfterAppend => Kept(r)')
<1>1. file \in Seq(Line) /\ unended \in BOOLEAN /\ memory \in Seq(Record)
      /\ handler \in [Record -> Places] /\ (unended => file # <<>>)
  BY DEF TypeOK, KeptInv
<1>2. lost' = lost
  BY AppendCases
<1>3. ASSUME NEW whole \in BOOLEAN, file' = Written([record |-> r, whole |-> whole]),
             UNCHANGED memory
      PROVE  StoreGrows /\ Holds(file, [record |-> r, whole |-> whole])'
  BY <1>1, <1>2, <1>3, FragmentTyped, WrittenHolds DEF StoreGrows, Holds
<1>4. CASE Goto(r, "append", "notify") /\ file' = Written(Whole(r)) /\ UNCHANGED memory
  <2>1. StoreGrows /\ Holds(file, Whole(r))'
    BY <1>3, <1>4 DEF Whole
  <2> QED
    BY <2>1 DEF Kept
<1>5. CASE Goto(r, "append", "fallback")
  <2>1. handler[r] = "append" /\ handler'[r] = "fallback"
    BY <1>1, <1>5 DEF Goto
  <2>2. \/ UNCHANGED store
        \/ UNCHANGED memory /\ \E whole \in BOOLEAN : file' = Written([record |-> r, whole |-> whole])
    BY <1>1, <2>1, AppendCases DEF Goto
  <2>3. StoreGrows
    <3>1. CASE UNCHANGED store
      BY <1>2, <3>1, StoreUntouched
    <3>2. CASE UNCHANGED memory /\ \E whole \in BOOLEAN : file' = Written([record |-> r, whole |-> whole])
      BY <1>3, <3>2
    <3> QED
      BY <2>2, <3>1, <3>2
  <2> QED
    BY <2>1, <2>3 DEF AfterAppend
<1>6. CASE memory' = Append(memory, r) /\ UNCHANGED file
  <2>1. ToSet(memory)' = ToSet(memory) \cup {r}
    BY <1>1, <1>6, AppendedSet
  <2> QED
    BY <1>2, <1>6, <2>1 DEF StoreGrows, Holds, Kept
<1> QED
  BY <1>4, <1>5, <1>6, AppendCases

\* The memory is lost with the process; what is lost is known to be.
LEMMA RestartKeeps ==
  ASSUME Restart
  PROVE  StoreGrows /\ \A r \in Record : handler'[r] \in AfterAppend => handler'[r] = handler[r]
  BY DEF Restart, StoreGrows, Holds, AfterAppend, Active

\* A step that moves one handler keeps the rest.
LEMMA KeptStep ==
  ASSUME KeptInv, StoreGrows, (unended => file # <<>>)',
         \A r \in Record : handler'[r] \in AfterAppend =>
           handler[r] \in AfterAppend \/ Kept(r)',
         \A r \in Record : handler[r] = "done" => handler'[r] = "done",
         answered \subseteq Record,
         \A r \in answered' : r \in answered \/ handler'[r] = "done"
  PROVE  KeptInv'
<1>1. \A r \in Record : handler'[r] \in AfterAppend => Kept(r)'
  BY StaysKept DEF KeptInv
<1>2. \A r \in answered' : handler'[r] = "done"
  BY DEF KeptInv
<1> QED
  BY <1>1, <1>2 DEF KeptInv

LEMMA NextKept == TypeOK /\ KeptInv /\ [Next]_vars => KeptInv'
<1> SUFFICES ASSUME TypeOK, KeptInv, [Next]_vars PROVE KeptInv'
  OBVIOUS
<1>0. answered \subseteq Record /\ handler \in [Record -> Places]
  BY DEF TypeOK
<1>1. ASSUME NEW r \in Record, AppendSignup(r) PROVE KeptInv'
  <2>1. UNCHANGED answered
    BY <1>1, AppendCases
  <2>2. \/ Goto(r, "append", "notify") \/ Goto(r, "append", "fallback")
        \/ Goto(r, "fallback", "notify")
    BY <1>1, AppendCases
  <2>3. \A q \in Record : q # r => handler'[q] = handler[q]
    BY <1>0, <2>2 DEF Goto
  <2>4. StoreGrows /\ (handler'[r] \in AfterAppend => Kept(r)')
    BY <1>1, AppendKeeps
  <2>5. (unended => file # <<>>)'
    BY <1>1, AppendTyped DEF KeptInv
  <2>6. handler[r] # "done"
    BY <2>2 DEF Goto
  <2> QED
    BY <1>0, <2>1, <2>3, <2>4, <2>5, <2>6, KeptStep
<1>2. ASSUME NEW r \in Record, NotifyFunnelWebhook(r) \/ Respond(r) \/ Arrive(r)
      PROVE  KeptInv'
  <2>1. UNCHANGED <<store, lost>>
    BY <1>2 DEF NotifyFunnelWebhook, Post, Delivered, NotDelivered, Respond, Arrive
  <2>2. \/ Goto(r, "notify", "posted") \/ Goto(r, "notify", "respond")
        \/ Goto(r, "posted", "respond") \/ Goto(r, "respond", "done")
        \/ Goto(r, "none", "append") \/ Goto(r, "none", "rejected")
    BY <1>2 DEF NotifyFunnelWebhook, Post, Delivered, NotDelivered, Respond, Arrive
  <2>3. \A q \in Record : q # r => handler'[q] = handler[q]
    BY <1>0, <2>2 DEF Goto
  <2>4. /\ handler'[r] \in AfterAppend => handler[r] \in AfterAppend
        /\ handler[r] # "done"
    BY <1>0, <2>2 DEF Goto, AfterAppend
  <2>5. \/ answered' = answered
        \/ answered' = answered \cup {r} /\ handler'[r] = "done"
    <3>1. CASE NotifyFunnelWebhook(r) \/ Arrive(r)
      BY <3>1 DEF NotifyFunnelWebhook, Post, Delivered, NotDelivered, Arrive
    <3>2. CASE Respond(r)
      BY <1>0, <3>2 DEF Respond, Goto
    <3> QED
      BY <1>2, <3>1, <3>2
  <2>6. (unended => file # <<>>)'
    BY <2>1 DEF KeptInv, store
  <2> QED
    BY <1>0, <2>1, <2>3, <2>4, <2>5, <2>6, StoreUntouched, KeptStep
<1>3. ASSUME UNCHANGED <<handler, store, lost, answered>> PROVE KeptInv'
  <2>1. StoreGrows /\ (unended => file # <<>>)'
    BY <1>3, StoreUntouched DEF KeptInv, store
  <2> QED
    BY <1>0, <1>3, <2>1, KeptStep
<1>4. CASE Restart
  <2>1. StoreGrows /\ \A r \in Record : handler'[r] \in AfterAppend => handler'[r] = handler[r]
    BY <1>4, RestartKeeps
  <2>2. /\ (unended => file # <<>>)' /\ UNCHANGED answered
        /\ \A r \in Record : handler[r] = "done" => handler'[r] = "done"
    BY <1>4 DEF Restart, KeptInv, Active
  <2> QED
    BY <1>0, <2>1, <2>2, KeptStep
<1>5. ASSUME NEW v \in Visitors, Submit(v) \/ ShowSuccess(v) \/ ShowError(v)
      PROVE  KeptInv'
  BY <1>3, <1>5 DEF Submit, ShowSuccess, ShowError
<1>6. ASSUME NEW r \in Record, Receive(r) PROVE KeptInv'
  BY <1>3, <1>6 DEF Receive
<1>7. CASE BeginRead \/ EndRead \/ Close
  BY <1>3, <1>7 DEF BeginRead, EndRead, Close
<1>8. CASE UNCHANGED vars
  BY <1>3, <1>8 DEF vars
<1> QED
  BY <1>1, <1>2, <1>4, <1>5, <1>6, <1>7, <1>8 DEF Next, Handle

\* The delivery is reported once the receiver has the record, which it keeps.
LEMMA NextReport == TypeOK /\ ReportInv /\ [Next]_vars => ReportInv'
<1> SUFFICES ASSUME TypeOK, ReportInv, [Next]_vars PROVE ReportInv'
  OBVIOUS
<1> DEFINE Before == {"none", "append", "fallback", "notify"}
<1>0. /\ handler \in [Record -> Places]
      /\ webhook \in [Record -> {"none", "sent", "received"}]
      /\ reported \in [Record -> {"none", "delivered", "failed"}]
  BY DEF TypeOK
<1>1. ASSUME UNCHANGED <<webhook, reported>>,
             \A r \in Record : handler'[r] \in Before => handler[r] \in Before
      PROVE  ReportInv'
  BY <1>1 DEF ReportInv, ReportedReceived
<1>2. ASSUME NEW r \in Record, AppendSignup(r) \/ Arrive(r) \/ Respond(r)
      PROVE  ReportInv'
  <2>1. UNCHANGED <<webhook, reported>>
    BY <1>2, AppendCases DEF Arrive, Respond
  <2>2. \/ Goto(r, "append", "notify") \/ Goto(r, "append", "fallback")
        \/ Goto(r, "fallback", "notify") \/ Goto(r, "none", "append")
        \/ Goto(r, "none", "rejected") \/ Goto(r, "respond", "done")
    BY <1>2, AppendCases DEF Arrive, Respond
  <2> QED
    BY <1>0, <1>1, <2>1, <2>2 DEF Goto
<1>3. ASSUME NEW r \in Record, NotifyFunnelWebhook(r) PROVE ReportInv'
  <2>1. CASE Post(r)
    BY <1>0, <2>1 DEF Post, Goto, ReportInv, ReportedReceived
  <2>2. CASE Delivered(r)
    BY <1>0, <2>2 DEF Delivered, Goto, ReportInv, ReportedReceived
  <2>3. CASE NotDelivered(r)
    BY <1>0, <2>3 DEF NotDelivered, Goto, ReportInv, ReportedReceived
  <2> QED
    BY <1>3, <2>1, <2>2, <2>3 DEF NotifyFunnelWebhook
<1>4. ASSUME NEW r \in Record, Receive(r) PROVE ReportInv'
  BY <1>0, <1>4 DEF Receive, ReportInv, ReportedReceived
<1>5. CASE Restart
  BY <1>0, <1>1, <1>5 DEF Restart
<1>6. ASSUME NEW v \in Visitors, Submit(v) \/ ShowSuccess(v) \/ ShowError(v)
      PROVE  ReportInv'
  BY <1>1, <1>6 DEF Submit, ShowSuccess, ShowError
<1>7. CASE BeginRead \/ EndRead \/ Close \/ UNCHANGED vars
  BY <1>1, <1>7 DEF BeginRead, EndRead, Close, vars
<1> QED
  BY <1>2, <1>3, <1>4, <1>5, <1>6, <1>7 DEF Next, Handle

------------------------------------------------------------------------------
(* While no write stopped short: each record is written once. *)

LEMMA AppendedHolds ==
  ASSUME file \in Seq(Line), NEW line \in Line
  PROVE  \A f : Holds(Append(file, line), f) <=> Holds(file, f) \/ f \in ToSet(line)
<1> DEFINE new == Append(file, line)
<1>1. /\ DOMAIN new = 1 .. Len(file) + 1 /\ DOMAIN file = 1 .. Len(file) /\ Len(file) \in Nat
      /\ new[Len(file) + 1] = line /\ \A i \in 1 .. Len(file) : new[i] = file[i]
  OBVIOUS
<1> SUFFICES ASSUME NEW f PROVE Holds(new, f) <=> Holds(file, f) \/ f \in ToSet(line)
  OBVIOUS
<1>2. Holds(file, f) => Holds(new, f)
  BY <1>1 DEF Holds
<1>3. f \in ToSet(line) => Holds(new, f)
  <2>1. Len(file) + 1 \in DOMAIN new
    BY <1>1
  <2> QED
    BY <1>1, <2>1 DEF Holds
<1>4. ASSUME NEW i \in DOMAIN new, f \in ToSet(new[i])
      PROVE  Holds(file, f) \/ f \in ToSet(line)
  <2>1. i = Len(file) + 1 \/ i \in DOMAIN file
    BY <1>1
  <2> QED
    BY <1>1, <1>4, <2>1 DEF Holds
<1> QED
  BY <1>2, <1>3, <1>4 DEF Holds

LEMMA OneElement ==
  ASSUME NEW S, NEW x \in S
  PROVE  <<x>> \in Seq(S) /\ Len(<<x>>) = 1 /\ <<x>>[1] = x /\ ToSet(<<x>>) = {x}
<1>1. DOMAIN <<x>> = {1} /\ <<x>>[1] = x
  OBVIOUS
<1>2. ToSet(<<x>>) = {x}
  BY <1>1 DEF ToSet
<1> QED
  BY <1>2

LEMMA OneFragment ==
  ASSUME NEW r \in Record
  PROVE  /\ Whole(r) \in Fragment /\ <<Whole(r)>> \in Line /\ ToSet(<<Whole(r)>>) = {Whole(r)}
         /\ <<Whole(r)>>[1] = Whole(r) /\ Len(<<Whole(r)>>) = 1
         /\ \A q \in Record : Whole(q) = Whole(r) <=> q = r
<1>1. Whole(r) \in Fragment
  BY FragmentTyped DEF Whole
<1>2. \A q \in Record : Whole(q) = Whole(r) <=> q = r
  BY DEF Whole
<1> QED
  BY <1>1, <1>2, OneElement DEF Line

Settled == AfterAppend \cup {"dead"}

\* A step that writes nothing and takes no handler back.
LEMMA StoreStep ==
  ASSUME StoreInv, UNCHANGED <<file, unended, memory>>,
         \A r \in Record : handler[r] \in Settled => handler'[r] \in Settled
  PROVE  StoreInv'
  BY DEF StoreInv, Settled, Plain, Distinct, Holds

LEMMA AppendStore ==
  ASSUME TypeOK, StoreInv, NEW r \in Record, AppendSignup(r), ~short'
  PROVE  StoreInv'
<1>1. /\ file \in Seq(Line) /\ memory \in Seq(Record) /\ handler \in [Record -> Places]
      /\ ~unended /\ Distinct(file) /\ Distinct(memory) /\ Plain(file)
  BY DEF TypeOK, StoreInv
<1>2. \/ /\ Goto(r, "append", "notify") /\ file' = Written(Whole(r))
         /\ unended' = FALSE /\ UNCHANGED memory
      \/ Goto(r, "append", "fallback") /\ UNCHANGED store
      \/ Goto(r, "fallback", "notify") /\ memory' = Append(memory, r) /\ UNCHANGED <<file, unended>>
  BY AppendCases
<1>3. /\ handler[r] \notin Settled
      /\ \A q \in Record : q # r => handler'[q] = handler[q]
      /\ ~Holds(file, Whole(r)) /\ r \notin ToSet(memory)
  <2>1. handler[r] \in {"append", "fallback"} /\ \A q \in Record : q # r => handler'[q] = handler[q]
    BY <1>1, <1>2 DEF Goto
  <2> QED
    BY <2>1 DEF StoreInv, Settled, AfterAppend
<1>4. CASE Goto(r, "append", "notify") /\ file' = Written(Whole(r)) /\ unended' = FALSE /\ UNCHANGED memory
  <2> DEFINE line == <<Whole(r)>>
  <2>1. file' = Append(file, line) /\ line \in Line
    BY <1>1, <1>4, OneFragment DEF Written
  <2>2. \A q \in Record : Holds(file, Whole(q))' <=> Holds(file, Whole(q)) \/ q = r
    BY <1>1, <2>1, AppendedHolds, OneFragment DEF Holds
  <2>3. Distinct(file)'
    <3>1. line \notin ToSet(file)
      BY <1>3, OneFragment DEF ToSet, Holds
    <3>2. Distinct(Append(file, line))
      BY <1>1, <2>1, <3>1, AppendedDistinct
    <3> QED
      BY <2>1, <3>2 DEF Distinct
  <2>4. Plain(file)'
    <3>1. \A i \in DOMAIN file' : (i \in DOMAIN file /\ file'[i] = file[i]) \/ file'[i] = line
      BY <1>1, <2>1
    <3> QED
      BY <1>1, <3>1 DEF Plain
  <2>5. handler'[r] = "notify"
    BY <1>1, <1>4 DEF Goto
  <2>6. /\ Distinct(memory)' /\ ToSet(memory)' = ToSet(memory) /\ ~unended'
        /\ ToSet(memory) \subseteq Record
    BY <1>1, <1>4 DEF Distinct, ToSet
  <2>7. \A q \in Record : Holds(file, Whole(q))' \/ q \in ToSet(memory)' =>
          handler'[q] \in AfterAppend \cup {"dead"}
    BY <1>3, <2>2, <2>5, <2>6 DEF StoreInv, AfterAppend
  <2>8. \A q \in ToSet(memory)' : ~Holds(file, Whole(q))'
    BY <1>3, <2>2, <2>6 DEF StoreInv
  <2> QED
    BY <2>3, <2>4, <2>6, <2>7, <2>8 DEF StoreInv
<1>5. CASE Goto(r, "append", "fallback") /\ UNCHANGED store
  BY <1>3, <1>5, StoreStep DEF store
<1>6. CASE Goto(r, "fallback", "notify") /\ memory' = Append(memory, r) /\ UNCHANGED <<file, unended>>
  <2>1. ToSet(memory)' = ToSet(memory) \cup {r} /\ Distinct(memory')
    BY <1>1, <1>3, <1>6, AppendedSet, AppendedDistinct
  <2>2. handler'[r] = "notify"
    BY <1>1, <1>6 DEF Goto
  <2>3. \A q : Holds(file, Whole(q))' <=> Holds(file, Whole(q))
    BY <1>6 DEF Holds
  <2>4. Distinct(file)' /\ Plain(file)' /\ ~unended'
    BY <1>1, <1>6 DEF Distinct, Plain
  <2>5. Distinct(memory)'
    BY <2>1 DEF Distinct
  <2> QED
    BY <1>3, <2>1, <2>2, <2>3, <2>4, <2>5 DEF StoreInv, AfterAppend
<1> QED
  BY <1>2, <1>4, <1>5, <1>6

\* The rows read of a plain file are the records in it, each once.
LEMMA RowsOfPlain ==
  ASSUME file \in Seq(Line), Plain(file), Distinct(file)
  PROVE  /\ Distinct(Rows)
         /\ \A r \in Record : r \in ToSet(Rows) <=> Holds(file, Whole(r))
<1>1. ASSUME NEW i \in DOMAIN file
      PROVE  /\ file[i][1].record \in Record /\ file[i] = <<Whole(file[i][1].record)>>
             /\ Parses(file[i])
  <2>1. PICK r \in Record : file[i] = <<Whole(r)>>
    BY DEF Plain
  <2>2. Len(file[i]) = 1 /\ file[i][1] = Whole(r)
    BY <2>1, OneFragment
  <2>3. Whole(r).record = r /\ Whole(r).whole
    BY DEF Whole
  <2> QED
    BY <2>1, <2>2, <2>3 DEF Parses
<1>2. DOMAIN Rows = DOMAIN file /\ \A i \in DOMAIN file : Rows[i] = file[i][1].record
  BY <1>1 DEF Rows
<1>3. Distinct(Rows)
  BY <1>1, <1>2 DEF Distinct
<1>4. ASSUME NEW r \in Record, NEW i \in DOMAIN file
      PROVE  Whole(r) \in ToSet(file[i]) <=> Rows[i] = r
  <2> DEFINE q == file[i][1].record
  <2>1. q \in Record /\ file[i] = <<Whole(q)>> /\ Rows[i] = q
    BY <1>1, <1>2
  <2>2. ToSet(file[i]) = {Whole(q)}
    BY <2>1, OneFragment
  <2> QED
    BY <2>1, <2>2, OneFragment
<1>5. \A r \in Record : r \in ToSet(Rows) <=> Holds(file, Whole(r))
  BY <1>2, <1>4 DEF ToSet, Holds
<1> QED
  BY <1>3, <1>5

\* A step that leaves the page alone and keeps the records.
LEMMA PageStep ==
  ASSUME TypeOK, PageInv, StoreGrows, UNCHANGED page
  PROVE  PageInv'
<1>1. page'.at # "closed" /\ ~page'.failed => Distinct(page'.rows)
  BY DEF PageInv
<1>2. ToSet(page'.rows) = ToSet(page.rows)
  OBVIOUS
<1>3. page.at = "reading" /\ ~page.failed =>
        page.due \ lost' \subseteq ToSet(page.rows) \cup ToSet(memory)'
  BY DEF PageInv, StoreGrows
<1>4. page.at = "shown" /\ ~page.failed => page.due \ lost' \subseteq ToSet(page.rows)
  BY DEF PageInv, StoreGrows
<1>5. page.at = "reading" /\ ~page.failed => \A r \in ToSet(page.rows) : Holds(file, Whole(r))'
  BY DEF PageInv, StoreGrows
<1> QED
  BY <1>1, <1>2, <1>3, <1>4, <1>5 DEF PageInv

\* The page's own steps: what it reads of the file, and then of the memory.
LEMMA PageReads ==
  ASSUME TypeOK, KeptInv, StoreInv, PageInv, BeginRead \/ EndRead \/ Close
  PROVE  PageInv'
<1>1. /\ file \in Seq(Line) /\ memory \in Seq(Record) /\ page.rows \in Seq(Record)
      /\ answered \subseteq Record /\ page.due \subseteq Record
      /\ Plain(file) /\ Distinct(file) /\ Distinct(memory)
  BY DEF TypeOK, StoreInv
<1>2. UNCHANGED <<store, lost>>
  BY DEF BeginRead, EndRead, Close
<1>3. (\A f : Holds(file, f)' <=> Holds(file, f)) /\ ToSet(memory)' = ToSet(memory)
  BY <1>2, StoreUntouched DEF store
<1>4. CASE BeginRead
  <2>1. PICK failed \in BOOLEAN :
          page' = [at |-> "reading", failed |-> failed, due |-> answered,
                   rows |-> IF failed THEN <<>> ELSE Rows]
    BY <1>4 DEF BeginRead
  <2>2. CASE failed
    BY <2>1, <2>2 DEF PageInv
  <2>3. CASE ~failed
    <3>1. page'.at = "reading" /\ page'.rows = Rows /\ page'.due = answered
      BY <2>1, <2>3
    <3>2. Distinct(Rows) /\ \A r \in ToSet(Rows) : Holds(file, Whole(r))
      BY <1>1, RowsOfPlain, RowsTyped DEF ToSet
    <3>3. ASSUME NEW r \in answered \ lost PROVE r \in ToSet(Rows) \cup ToSet(memory)
      <4>1. r \in Record /\ Kept(r)
        BY <1>1 DEF KeptInv, AfterAppend
      <4> QED
        BY <1>1, <4>1, RowsOfPlain DEF Kept
    <3>4. page'.due \ lost' \subseteq ToSet(page'.rows) \cup ToSet(memory)'
      BY <1>2, <1>3, <3>1, <3>3
    <3>5. Distinct(page'.rows) /\ \A r \in ToSet(page'.rows) : Holds(file, Whole(r))'
      BY <1>3, <3>1, <3>2
    <3> QED
      BY <3>1, <3>4, <3>5 DEF PageInv
  <2> QED
    BY <2>2, <2>3
<1>5. CASE EndRead
  <2>1. /\ page.at = "reading" /\ page'.at = "shown" /\ page'.failed = page.failed
        /\ page'.due = page.due /\ page'.rows = page.rows \o memory
    BY <1>5 DEF EndRead, TypeOK
  <2>2. CASE page.failed
    BY <2>1, <2>2 DEF PageInv
  <2>3. CASE ~page.failed
    <3>1. /\ Distinct(page.rows) /\ \A r \in ToSet(page.rows) : Holds(file, Whole(r))
          /\ page.due \ lost \subseteq ToSet(page.rows) \cup ToSet(memory)
      BY <2>1, <2>3 DEF PageInv
    <3>2. ToSet(page.rows) \cap ToSet(memory) = {}
      BY <3>1 DEF StoreInv
    <3>3. Distinct(page.rows \o memory)
      BY <1>1, <3>1, <3>2, JoinedDistinct
    <3>4. ToSet(page.rows \o memory) = ToSet(page.rows) \cup ToSet(memory)
      BY <1>1, JoinedSet
    <3>5. page'.due \ lost' \subseteq ToSet(page'.rows)
      BY <1>2, <2>1, <3>1, <3>4
    <3>6. Distinct(page'.rows)
      BY <2>1, <3>3
    <3> QED
      BY <2>1, <3>5, <3>6 DEF PageInv
  <2> QED
    BY <2>2, <2>3
<1>6. CASE Close
  BY <1>6 DEF Close, Closed, PageInv
<1> QED
  BY <1>4, <1>5, <1>6

LEMMA NextStore ==
  TypeOK /\ KeptInv /\ StoreInv /\ PageInv /\ ~short' /\ [Next]_vars => StoreInv' /\ PageInv'
<1> SUFFICES ASSUME TypeOK, KeptInv, StoreInv, PageInv, ~short', [Next]_vars
             PROVE  StoreInv' /\ PageInv'
  OBVIOUS
<1>0. handler \in [Record -> Places]
  BY DEF TypeOK
<1>1. ASSUME NEW r \in Record, AppendSignup(r) PROVE StoreInv' /\ PageInv'
  <2>1. UNCHANGED page
    BY <1>1, AppendCases
  <2> QED
    BY <1>1, <2>1, AppendStore, AppendKeeps, PageStep
<1>2. ASSUME NEW r \in Record, NotifyFunnelWebhook(r) \/ Respond(r) \/ Arrive(r)
      PROVE  StoreInv' /\ PageInv'
  <2>1. UNCHANGED <<store, lost, page>>
    BY <1>2 DEF NotifyFunnelWebhook, Post, Delivered, NotDelivered, Respond, Arrive
  <2>2. \/ Goto(r, "notify", "posted") \/ Goto(r, "notify", "respond")
        \/ Goto(r, "posted", "respond") \/ Goto(r, "respond", "done")
        \/ Goto(r, "none", "append") \/ Goto(r, "none", "rejected")
    BY <1>2 DEF NotifyFunnelWebhook, Post, Delivered, NotDelivered, Respond, Arrive
  <2>3. \A q \in Record : handler[q] \in Settled => handler'[q] \in Settled
    BY <1>0, <2>2 DEF Goto, Settled, AfterAppend
  <2> QED
    BY <2>1, <2>3, StoreStep, StoreUntouched, PageStep DEF store
<1>3. ASSUME UNCHANGED <<handler, store, lost, page>> PROVE StoreInv' /\ PageInv'
  BY <1>3, StoreStep, StoreUntouched, PageStep DEF store
<1>4. CASE BeginRead \/ EndRead \/ Close
  <2>1. UNCHANGED <<handler, store, lost>>
    BY <1>4 DEF BeginRead, EndRead, Close
  <2> QED
    BY <1>4, <2>1, StoreStep, PageReads DEF store
<1>5. CASE Restart
  <2>1. UNCHANGED <<file, unended>> /\ memory' = <<>> /\ page' = Closed
    BY <1>5 DEF Restart
  <2>2. \A q \in Record : handler[q] \in Settled => handler'[q] \in Settled
    BY <1>5 DEF Restart, Settled, AfterAppend
  <2>3. ToSet(memory)' = {} /\ Distinct(memory)'
    BY <2>1 DEF ToSet, Distinct
  <2>4. /\ Plain(file)' /\ Distinct(file)' /\ ~unended'
        /\ \A q : Holds(file, Whole(q))' <=> Holds(file, Whole(q))
    BY <2>1 DEF StoreInv, Plain, Distinct, Holds
  <2>5. StoreInv'
    BY <2>2, <2>3, <2>4 DEF StoreInv, Settled
  <2> QED
    BY <2>1, <2>5 DEF PageInv, Closed
<1>6. ASSUME NEW v \in Visitors, Submit(v) \/ ShowSuccess(v) \/ ShowError(v)
      PROVE  StoreInv' /\ PageInv'
  BY <1>3, <1>6 DEF Submit, ShowSuccess, ShowError
<1>7. ASSUME NEW r \in Record, Receive(r) PROVE StoreInv' /\ PageInv'
  BY <1>3, <1>7 DEF Receive
<1>8. CASE UNCHANGED vars
  BY <1>3, <1>8 DEF vars
<1> QED
  BY <1>1, <1>2, <1>4, <1>5, <1>6, <1>7, <1>8 DEF Next, Handle

------------------------------------------------------------------------------
(* The theorems. *)

LEMMA IInvInit == Init => IInv
<1> SUFFICES ASSUME Init PROVE IInv
  OBVIOUS
<1>1. TypeOK
  BY InitTyped
<1>2. KeptInv
  BY DEF Init, KeptInv, AfterAppend
<1>3. ReportInv
  BY DEF Init, ReportInv, ReportedReceived
<1>4. StoreInv
  BY DEF Init, StoreInv, Plain, Distinct, ToSet, Holds
<1>5. PageInv
  BY DEF Init, PageInv, Closed
<1> QED
  BY <1>1, <1>2, <1>3, <1>4, <1>5 DEF IInv

LEMMA NextTyped == TypeOK /\ KeptInv /\ [Next]_vars => TypeOK'
<1> SUFFICES ASSUME TypeOK, KeptInv, [Next]_vars PROVE TypeOK'
  OBVIOUS
<1>1. ASSUME NEW v \in Visitors, Submit(v) \/ ShowSuccess(v) \/ ShowError(v) PROVE TypeOK'
  BY <1>1, FormTyped
<1>2. ASSUME NEW r \in Record, Arrive(r) \/ Handle(r) \/ Receive(r) PROVE TypeOK'
  BY <1>2, AppendTyped, WebhookTyped, RouteTyped DEF Handle, KeptInv
<1>3. CASE BeginRead \/ EndRead \/ Close
  BY <1>3, PageTyped
<1>4. CASE Restart
  BY <1>4, RestartTyped
<1>5. CASE UNCHANGED vars
  BY <1>5 DEF vars, store, env, TypeOK
<1> QED
  BY <1>1, <1>2, <1>3, <1>4, <1>5 DEF Next

LEMMA ShortStays == TypeOK /\ [Next]_vars /\ ~short' => ~short
<1> SUFFICES ASSUME TypeOK, [Next]_vars, ~short' PROVE ~short
  OBVIOUS
<1>1. ASSUME NEW r \in Record, AppendSignup(r) PROVE ~short
  BY <1>1, AppendCases DEF store
<1>2. CASE UNCHANGED short
  BY <1>2
<1>3. ASSUME NEW r \in Record, NotifyFunnelWebhook(r) \/ Respond(r) \/ Arrive(r) \/ Receive(r)
      PROVE  UNCHANGED short
  BY <1>3 DEF NotifyFunnelWebhook, Post, Delivered, NotDelivered, Respond, Arrive, Receive, store
<1>4. ASSUME NEW v \in Visitors, Submit(v) \/ ShowSuccess(v) \/ ShowError(v)
      PROVE  UNCHANGED short
  BY <1>4 DEF Submit, ShowSuccess, ShowError, store
<1>5. ASSUME BeginRead \/ EndRead \/ Close \/ Restart \/ UNCHANGED vars PROVE UNCHANGED short
  BY <1>5 DEF BeginRead, EndRead, Close, Restart, vars, store
<1> QED
  BY <1>1, <1>2, <1>3, <1>4, <1>5 DEF Next, Handle

LEMMA IInvNext == IInv /\ [Next]_vars => IInv'
  BY NextTyped, NextKept, NextReport, NextStore, ShortStays DEF IInv

LEMMA IInvHolds == Spec => []IInv
  BY IInvInit, IInvNext, PTL DEF Spec

\* The state stays what the program can hold: a file of fragments of records, a
\* page of records, a form that shows one of its four states (the store, the
\* forms and the admin page of the intake).
THEOREM TypeCorrect == Spec => []TypeOK
<1>1. IInv => TypeOK
  BY DEF IInv
<1> QED
  BY <1>1, IInvHolds, PTL

\* What the intake tells is true: a lead answered with 201 is in the file or in
\* the memory until a restart empties that; while no write stopped short the page
\* shows each lead answered before it began to read, once; a delivery reported
\* was received.
THEOREM AnswersAreTrue == Spec => []AnswersTrue
<1>1. IInv => AnswersTrue
  <2> SUFFICES ASSUME IInv PROVE AnswersTrue
    OBVIOUS
  <2>1. AnsweredKept
    <3> SUFFICES ASSUME NEW r \in answered PROVE Kept(r)
      BY DEF AnsweredKept, Kept, Holds, Whole
    <3>1. r \in Record /\ handler[r] = "done"
      BY DEF IInv, TypeOK, KeptInv
    <3> QED
      BY <3>1 DEF IInv, KeptInv, AfterAppend
  <2>2. PageComplete
    <3> SUFFICES ASSUME ~short, page.at = "shown", ~page.failed, NEW r \in page.due \ lost
                 PROVE  Copies(page.rows, r) = 1
      BY DEF PageComplete
    <3>1. r \in ToSet(page.rows) /\ Distinct(page.rows)
      BY DEF IInv, PageInv
    <3> QED
      BY <3>1, OneCopy
  <2>3. ReportedReceived
    BY DEF IInv, ReportInv
  <2> QED
    BY <2>1, <2>2, <2>3 DEF AnswersTrue
<1> QED
  BY <1>1, IInvHolds, PTL
=============================================================================
