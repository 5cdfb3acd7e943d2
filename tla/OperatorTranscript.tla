-------------------------- MODULE OperatorTranscript --------------------------
(***************************************************************************)
(* The transcript the operator sees of one lane (web/app.js): translated   *)
(* texts that are revised, and the marks "validated", "played" and "cut",  *)
(* which come as events of their own, before or after the text they are    *)
(* about.  An item is what the ids of texts, audio and terms of one        *)
(* translation have in common (segmentCorrelation).                        *)
(***************************************************************************)
EXTENDS Integers, Sequences, SequencesExt, FiniteSets, Filters

CONSTANTS
    Items,      \* translations of a turn
    MaxPending, \* marks kept for a text that is not there yet
    MaxGen, MaxRev, MaxMarks    \* bounds

TranscriptAssumption == MaxPending \in Nat /\ MaxGen \in Nat /\ MaxRev \in Nat

Gens == 0 .. MaxGen
Revs == 0 .. MaxRev
Keys == Gens \X Items
Marks == Gens \X Items \X Revs

VARIABLES
    gen,        \* generation of the lane the page has come to
    line,       \* the lines, which are also the segment states
    pendingValidation, pendingPlayed,   \* marks that await their text, oldest first
    said        \* what the events said: the generation, validations, plays,
                \* and the plays since the stream was connected

vars == <<gen, line, pendingValidation, pendingPlayed, said>>

NoLine == [rev |-> -1, final |-> FALSE, validated |-> FALSE, played |-> FALSE, cut |-> FALSE]

Init ==
    /\ gen = -1
    /\ line = [k \in Keys |-> NoLine]
    /\ pendingValidation = <<>> /\ pendingPlayed = <<>>
    /\ said = [gen |-> 0, validated |-> {}, played |-> {}, recent |-> {}]

KeyOf(m) == <<m[1], m[2]>>
RevOf(m) == m[3]

(* The newest mark is last, and the oldest gives way. *)
Retain(marks, m) ==
    LET all == Append(Without(marks, {m}), m)
    IN  IF Len(all) > MaxPending THEN Tail(all) ELSE all

MoreMarks == Cardinality(said.validated) + Cardinality(said.played) < MaxMarks

(* findPendingValidation: a validation of this revision, or of the nearest *)
(* newer one. *)
Validation(m) ==
    LET newer == {o \in ToSet(pendingValidation) : KeyOf(o) = KeyOf(m) /\ RevOf(o) >= RevOf(m)}
    IN  {o \in newer : \A p \in newer : RevOf(o) <= RevOf(p)}

(* A text begins without marks, and so does every revision of it. *)
Revised(l, m, final) == [NoLine EXCEPT !.rev = RevOf(m), !.final = final]

(* renderTranscriptSegment: a text of a generation that is over is left    *)
(* out, and applySegmentRevision refuses what is not newer than a text     *)
(* that is not final.  (The relay publishes no text of a generation after  *)
(* its cut, which matters to a page that has resynced only.)               *)
ShowText(m, final) ==
    /\ m[1] = said.gen \/ m[1] < gen
    /\ IF m[1] < gen THEN UNCHANGED <<gen, line, pendingValidation, pendingPlayed>>
       ELSE /\ gen' = m[1]
            /\ LET l == line[KeyOf(m)]
                   found == Validation(m)
                   played == Contains(pendingPlayed, m)
               IN  IF l.final \/ RevOf(m) <= l.rev
                   THEN UNCHANGED <<line, pendingValidation, pendingPlayed>>
                   ELSE /\ line' = [line EXCEPT ![KeyOf(m)] =
                               [Revised(l, m, final) EXCEPT !.validated = @ \/ found # {},
                                                            !.played = @ \/ played]]
                        /\ pendingValidation' = Without(pendingValidation, found)
                        /\ pendingPlayed' = Without(pendingPlayed,
                               {o \in ToSet(pendingPlayed) : KeyOf(o) = KeyOf(m) /\ RevOf(o) <= RevOf(m)})
    /\ UNCHANGED said

(* markTargetSegmentValidated: the terms of this revision, and with it of  *)
(* the older one on the screen, are authorized.                            *)
Validate(m) ==
    /\ m[1] <= said.gen /\ MoreMarks
    /\ LET l == line[KeyOf(m)]
       IN  IF l.rev >= 0 /\ l.rev <= RevOf(m)
           THEN /\ line' = [line EXCEPT ![KeyOf(m)].validated = TRUE]
                /\ pendingValidation' = Without(pendingValidation, {m})
           ELSE /\ pendingValidation' = Retain(pendingValidation, m)
                /\ UNCHANGED line
    /\ said' = [said EXCEPT !.validated = @ \cup {m}]
    /\ UNCHANGED <<gen, pendingPlayed>>

(* markTargetSegmentPlayed: the audio of this very revision is heard. *)
Play(m) ==
    /\ m[1] <= said.gen /\ MoreMarks
    /\ IF line[KeyOf(m)].rev = RevOf(m)
       THEN /\ line' = [line EXCEPT ![KeyOf(m)].played = TRUE]
            /\ UNCHANGED pendingPlayed
       ELSE /\ pendingPlayed' = Retain(pendingPlayed, m)
            /\ UNCHANGED line
    /\ said' = [said EXCEPT !.played = @ \cup {m}, !.recent = @ \cup {m}]
    /\ UNCHANGED <<gen, pendingValidation>>

\* Mutant of CutLine: what was final before the cut stays as it was.
CutLinePartial(k, l, previous) ==
    IF k[1] = previous /\ l.rev >= 0 /\ ~l.final THEN NoLine ELSE l

(* What is not final at the cut goes, and what is final is marked. *)
CutLine(k, l, previous) ==
    CASE k[1] = previous /\ l.rev >= 0 /\ l.final -> [l EXCEPT !.cut = TRUE]
      [] k[1] = previous /\ l.rev >= 0 /\ ~l.final -> NoLine
      [] OTHER -> l

(* clearSupersededSegments. *)
Cut ==
    /\ said.gen < MaxGen
    /\ LET previous == said.gen
           next == previous + 1
       IN  /\ said' = [said EXCEPT !.gen = next]
           /\ gen' = next
           /\ line' = [k \in Keys |-> CutLine(k, line[k], previous)]
           /\ pendingValidation' = Without(pendingValidation, {o \in ToSet(pendingValidation) : o[1] = previous})
           /\ pendingPlayed' = Without(pendingPlayed, {o \in ToSet(pendingPlayed) : o[1] = previous})

(* connectEventStream: the plays that await their text are forgotten. *)
Reconnect ==
    /\ pendingPlayed' = <<>>
    /\ said' = [said EXCEPT !.recent = {}]
    /\ UNCHANGED <<gen, line, pendingValidation>>

(* resetSegmentRendering: a resync begins the transcript again. *)
Resync ==
    /\ gen' = -1
    /\ line' = [k \in Keys |-> NoLine]
    /\ pendingValidation' = <<>> /\ pendingPlayed' = <<>>
    /\ said' = [said EXCEPT !.recent = {}]

Next ==
    \/ \E m \in Marks : \/ \E final \in BOOLEAN : ShowText(m, final)
                        \/ Validate(m) \/ Play(m)
    \/ Cut \/ Reconnect \/ Resync

Spec == Init /\ [][Next]_vars

----------------------------------------------------------------------------
TypeOK ==
    /\ gen \in Gens \cup {-1}
    /\ \A k \in Keys : line[k].rev \in Revs \cup {-1}
    /\ pendingValidation \in Seq(Marks) /\ pendingPlayed \in Seq(Marks)

Shown(k) == Append(k, line[k].rev)

(* No line says "played" of a text whose audio was not heard: not of a     *)
(* revision that replaced the one that was, and not through an event of    *)
(* another item or generation (renderTranscriptSegment,                    *)
(* markTargetSegmentPlayed).                                               *)
PlayedIsTrue == \A k \in Keys : line[k].played => Shown(k) \in said.played

(* The text on the screen says "played" when the event came, whichever of  *)
(* text and event was first, unless the stream was connected in between or *)
(* more marks wait than the page keeps (retainPendingPlayed,               *)
(* consumePendingPlayed).                                                  *)
PlayedIsShown ==
    Cardinality(said.recent) <= MaxPending =>
        \A k \in Keys : line[k].rev >= 0 /\ Shown(k) \in said.recent => line[k].played

(* No line says "validated" without an authorization of its terms, for     *)
(* this text or a newer one (markTargetSegmentValidated,                   *)
(* findPendingValidation).                                                 *)
ValidatedIsTrue ==
    \A k \in Keys : line[k].validated =>
        \E m \in said.validated : KeyOf(m) = k /\ RevOf(m) >= line[k].rev

(* A translation that was cut never looks like one that goes on: what is   *)
(* left of it is final and marked as cut (clearSupersededSegments,         *)
(* acceptedSegmentGeneration).                                             *)
CutIsMarked == \A k \in Keys : k[1] < said.gen /\ line[k].rev >= 0 => line[k].cut /\ line[k].final
=============================================================================
