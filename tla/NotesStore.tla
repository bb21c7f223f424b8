----------------------------- MODULE NotesStore -----------------------------
(***************************************************************************)
(* ingest_note_artifacts (services/parse-xbrl): the notes of one filing    *)
(* are stored one by one, each under the lock and with a link to its       *)
(* filing.  The counts a call reports are differences of two readings of   *)
(* the whole store, taken without the lock before and after its notes.     *)
(* A note includes its filing and stands for its checksum.                 *)
(***************************************************************************)
EXTENDS Integers, Sequences, SequencesExt, FiniteSets

CONSTANTS NoteThreads, \* threads that ingest notes
          Notes,       \* records [text, valid]
          Batches      \* what a call is given: sequences of notes

ASSUME NotesAssumption == Batches \subseteq Seq(Notes)

VARIABLES artifacts, \* _artifacts_by_checksum
          links,     \* _artifact_links, a note standing for its link key
          noteCall   \* thread -> its call

notesVars == <<artifacts, links, noteCall>>

NoNotes == [at |-> "idle", batch |-> <<>>, next |-> 1, before |-> <<0, 0>>,
            counted |-> <<0, 0>>, own |-> <<0, 0>>, alone |-> TRUE]

NotesInit ==
  /\ artifacts = {} /\ links = <<>>
  /\ noteCall = [t \in NoteThreads |-> NoNotes]

\* Two readings in the code, one after the other; each is compared with itself.
Sizes == <<Cardinality(artifacts), Len(links)>>

Running(t) == noteCall[t].at = "notes"

\* The call reads the sizes of the store.  It is alone while no other call runs.
BeginNotes(t) ==
  /\ noteCall[t].at = "idle"
  /\ \E batch \in Batches :
       noteCall' = [u \in NoteThreads |->
         IF u = t
           THEN [NoNotes EXCEPT !.at = "notes", !.batch = batch, !.before = Sizes,
                                !.alone = ~\E o \in NoteThreads : Running(o)]
           ELSE [noteCall[u] EXCEPT !.alone = @ /\ ~Running(u)]]
  /\ UNCHANGED <<artifacts, links>>

LinkedOnce(note) == IF note \in ToSet(links) THEN links ELSE Append(links, note)

StoreNoteArtifact(t) ==
  LET call == noteCall[t]
      note == call.batch[call.next]
  IN
  /\ Running(t) /\ call.next <= Len(call.batch)
  /\ IF note.valid
       THEN /\ artifacts' = artifacts \cup {note}
            /\ links' = LinkedOnce(note)
            /\ noteCall' = [noteCall EXCEPT ![t].next = @ + 1,
                 ![t].own = <<@[1] + Cardinality({note} \ artifacts),
                              @[2] + Len(LinkedOnce(note)) - Len(links)>>]
       ELSE /\ noteCall' = [noteCall EXCEPT ![t] = NoNotes]
            /\ UNCHANGED <<artifacts, links>>

\* Variant: the number of notes in hand is reported as stored.
CountProcessed(t) ==
  /\ Running(t) /\ noteCall[t].next > Len(noteCall[t].batch)
  /\ noteCall' = [noteCall EXCEPT ![t].at = "returned",
                    ![t].counted = <<Len(noteCall[t].batch), Len(noteCall[t].batch)>>]
  /\ UNCHANGED <<artifacts, links>>

CountNotes(t) ==
  /\ Running(t) /\ noteCall[t].next > Len(noteCall[t].batch)
  /\ noteCall' = [noteCall EXCEPT ![t].at = "returned",
                    ![t].counted = <<Sizes[1] - noteCall[t].before[1],
                                      Sizes[2] - noteCall[t].before[2]>>]
  /\ UNCHANGED <<artifacts, links>>

EndNotes(t) ==
  /\ noteCall[t].at = "returned"
  /\ noteCall' = [noteCall EXCEPT ![t] = NoNotes]
  /\ UNCHANGED <<artifacts, links>>

NotesNext ==
  \E t \in NoteThreads :
    BeginNotes(t) \/ StoreNoteArtifact(t) \/ CountNotes(t) \/ EndNotes(t)

NotesSpec == NotesInit /\ [][NotesNext]_notesVars

------------------------------------------------------------------------------
NotesTypeOK ==
  /\ artifacts \subseteq Notes
  /\ links \in Seq(Notes)
  /\ \A t \in NoteThreads : /\ noteCall[t].at \in {"idle", "notes", "returned"}
                            /\ noteCall[t].next \in Nat \ {0}

\* The counts a call reports are those of its own additions if it was alone, and
\* never less when others added notes meanwhile.  Each artifact has one link.
NoteCounts ==
  /\ Len(links) = Cardinality(artifacts) /\ ToSet(links) = artifacts
  /\ \A t \in NoteThreads : noteCall[t].at = "returned" =>
       LET call == noteCall[t] IN
       \A n \in 1 .. 2 : /\ call.counted[n] >= call.own[n]
                         /\ call.alone => call.counted[n] = call.own[n]
=============================================================================
