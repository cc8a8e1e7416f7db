------------------------------- MODULE Diff3 -------------------------------
(***************************************************************************)
(* The line merge of a pull and the editor of its conflicts                *)
(* (Playground/src/sharing: diff3.ts, conflict-editor.ts, and the panel    *)
(* of main.ts around it).  A text is the sequence of its lines; whether    *)
(* the last one ends in a newline is left out.  Base, ours and theirs are  *)
(* merged, and the user settles the conflicts of the result one by one, in *)
(* a copy that is saved when no markers are left.                          *)
(***************************************************************************)
EXTENDS Integers, Sequences, FiniteSets

LOCAL INSTANCE SequencesExt

CONSTANT Histories   \* the triples of base, ours and theirs to look at

MarkOurs == -1       \* '<<<<<<< ours'
MarkMid == -2        \* the separator line
MarkTheirs == -3     \* '>>>>>>> theirs'
Markers == {MarkOurs, MarkMid, MarkTheirs}
Blank == 0           \* the empty line
AllTexts == Seq(Nat)

\* What the cases must be; the module that instantiates this one assumes it.
Diff3Assumption == Histories \subseteq [base : AllTexts, ours : AllTexts, theirs : AllTexts]

VARIABLES
    history,     \* what is merged
    disk,        \* the file: ours, then the merged text
    stage,       \* "apart", "merged", or "settled" in the conflict editor
    panel        \* the copy in the conflict editor, in a sequence of at most one

diffVars == <<history, disk, stage, panel>>

-----------------------------------------------------------------------------
\* Pairs of equal lines along a longest common subsequence: [base, other].  Of two
\* ways that are as long, the one that passes over a line of the base.
LcsPairs(base, other) ==
    LET length[i \in 1 .. Len(base) + 1, j \in 1 .. Len(other) + 1] ==
            IF i > Len(base) \/ j > Len(other) THEN 0
            ELSE IF base[i] = other[j] THEN length[i + 1, j + 1] + 1
            ELSE IF length[i + 1, j] >= length[i, j + 1] THEN length[i + 1, j]
            ELSE length[i, j + 1]
        walk[i \in 1 .. Len(base) + 1, j \in 1 .. Len(other) + 1] ==
            IF i > Len(base) \/ j > Len(other) THEN {}
            ELSE IF base[i] = other[j] THEN {[base |-> i, other |-> j]} \cup walk[i + 1, j + 1]
            ELSE IF length[i + 1, j] >= length[i, j + 1] THEN walk[i + 1, j]
            ELSE walk[i, j + 1]
    IN  walk[1, 1]

\* Lines of the base that both sides have, in order.  The pairs of either side
\* rise in both members, so the filter for rising chains passes all of them.
Anchors(base, ours, theirs) ==
    LET both == {[base |-> p[1].base, a |-> p[1].other, b |-> p[2].other] :
                    p \in {q \in LcsPairs(base, ours) \X LcsPairs(base, theirs) :
                              q[1].base = q[2].base}}
    IN  SetToSortSeq(both, LAMBDA x, y : x.base < y.base)

\* What becomes of one region between anchors.
EmitRegion(base, ours, theirs) ==
    IF theirs = base \/ ours = theirs THEN ours
    ELSE IF ours = base THEN theirs
    ELSE <<MarkOurs>> \o ours \o <<MarkMid>> \o theirs \o <<MarkTheirs>>

\* Mutant of Diff3Merge: a region begins at its anchor, on their side.
Diff3AtAnchor(base, ours, theirs) ==
    LET anchor == Anchors(base, ours, theirs)
        n == Len(anchor)
        from(i, text, side) == IF i = 1 THEN 1 ELSE anchor[i - 1][side] + 1
        to(i, text, side) == IF i > n THEN Len(text) ELSE anchor[i][side] - 1
        region(i, text, side) == SubSeq(text, from(i, text, side), to(i, text, side))
    IN  FlattenSeq([i \in 1 .. n + 1 |->
            EmitRegion(region(i, base, "base"), region(i, ours, "a"), region(i, theirs, "a"))
            \o (IF i > n THEN <<>> ELSE <<base[anchor[i].base]>>)])

\* diff3Merge: the regions with the anchors between them.  Its shortcuts, for a
\* side that changed nothing or the same, give what the regions give.
Diff3Merge(base, ours, theirs) ==
    LET anchor == Anchors(base, ours, theirs)
        n == Len(anchor)
        from(i, text, side) == IF i = 1 THEN 1 ELSE anchor[i - 1][side] + 1
        to(i, text, side) == IF i > n THEN Len(text) ELSE anchor[i][side] - 1
        region(i, text, side) == SubSeq(text, from(i, text, side), to(i, text, side))
    IN  FlattenSeq([i \in 1 .. n + 1 |->
            EmitRegion(region(i, base, "base"), region(i, ours, "a"), region(i, theirs, "b"))
            \o (IF i > n THEN <<>> ELSE <<base[anchor[i].base]>>)])

HasConflictMarkers(text) == \E i \in DOMAIN text : text[i] \in Markers

\* parseConflictRegions: well-formed regions from top to bottom; one that another
\* '<<<<<<<' breaks into is passed over.
Regions(text) ==
    LET first(lines, lo, hi) ==
            LET found == {j \in lo .. hi - 1 : text[j] \in lines}
            IN  IF found = {} THEN hi ELSE CHOOSE j \in found : \A k \in found : j <= k
        from[i \in 1 .. Len(text) + 1] ==
            IF i > Len(text) THEN <<>>
            ELSE IF text[i] # MarkOurs THEN from[i + 1]
            ELSE LET stop == first({MarkOurs}, i + 1, Len(text) + 1)
                     mid == first({MarkMid}, i + 1, stop)
                     end == first({MarkTheirs}, mid + 1, stop)
                 IN  IF end >= stop THEN from[i + 1]
                     ELSE <<[start |-> i, mid |-> mid, end |-> end]>> \o from[end + 1]
    IN  from[1]

\* The lines a region is replaced by.  A replacement of one empty line is the
\* empty string, for which nothing is put in.
Replacement(text, r, choice) ==
    LET ours == SubSeq(text, r.start + 1, r.mid - 1)
        theirs == SubSeq(text, r.mid + 1, r.end - 1)
        lines == IF choice = "mine" \/ ours = theirs THEN ours
                 ELSE IF choice = "theirs" THEN theirs
                 ELSE ours \o theirs
    IN  IF lines = <<Blank>> THEN <<>> ELSE lines

-----------------------------------------------------------------------------
Init ==
    /\ history \in Histories
    /\ disk = history.ours
    /\ stage = "apart"
    /\ panel = <<>>

\* A pull merges the file and writes it (mergeFromRemote).
Merge ==
    /\ stage = "apart"
    /\ disk' = Diff3Merge(history.base, history.ours, history.theirs)
    /\ stage' = "merged"
    /\ UNCHANGED <<history, panel>>

\* The user opens the conflict editor, which reads the file.
OpenConflictEditor ==
    /\ stage = "merged" /\ panel = <<>> /\ HasConflictMarkers(disk)
    /\ panel' = <<disk>>
    /\ UNCHANGED <<history, disk, stage>>

\* Mutant of ResolveRegion: the range ends before the last marker's line.
ResolveToEnd(i, choice) ==
    /\ panel # <<>> /\ i \in DOMAIN Regions(panel[1])
    /\ LET text == panel[1]
           r == Regions(text)[i]
       IN  panel' = <<SubSeq(text, 1, r.start - 1) \o Replacement(text, r, choice)
                      \o SubSeq(text, r.end, Len(text))>>
    /\ UNCHANGED <<history, disk, stage>>

\* resolveRegion: one region is replaced by mine, theirs or both.
ResolveRegion(i, choice) ==
    /\ panel # <<>> /\ i \in DOMAIN Regions(panel[1])
    /\ LET text == panel[1]
           r == Regions(text)[i]
       IN  panel' = <<SubSeq(text, 1, r.start - 1) \o Replacement(text, r, choice)
                      \o SubSeq(text, r.end + 1, Len(text))>>
    /\ UNCHANGED <<history, disk, stage>>

\* Save & close: refused while markers are left.
Save ==
    /\ panel # <<>> /\ ~HasConflictMarkers(panel[1])
    /\ disk' = panel[1]
    /\ panel' = <<>>
    /\ stage' = "settled"
    /\ UNCHANGED history

\* Discard & close.
Discard ==
    /\ panel # <<>>
    /\ panel' = <<>>
    /\ UNCHANGED <<history, disk, stage>>

Next ==
    \/ Merge \/ OpenConflictEditor \/ Save \/ Discard
    \/ \E i \in 1 .. Len(disk), choice \in {"mine", "theirs", "both"} : ResolveRegion(i, choice)

Spec == Init /\ [][Next]_diffVars

-----------------------------------------------------------------------------
\* The type invariant.
TypeOK ==
    /\ history \in Histories
    /\ disk \in Seq(Nat \cup Markers)
    /\ stage \in {"apart", "merged", "settled"}
    /\ panel \in Seq(Seq(Nat \cup Markers)) /\ Len(panel) <= 1

Lines(text) == {text[i] : i \in DOMAIN text}
Distinct(text) == \A i, j \in DOMAIN text : text[i] = text[j] => i = j
Only(text, lines) == SelectSeq(text, LAMBDA l : l \in lines)

\* Both sides edited the base in place: no line occurs twice, and lines that two of
\* the texts share are in the same order.
InPlace(h) ==
    /\ \A t \in {h.base, h.ours, h.theirs} : Distinct(t)
    /\ \A s, t \in {h.base, h.ours, h.theirs} : Only(s, Lines(t)) = Only(t, Lines(s))

\* Between two neighbours among the lines all three have, both sides changed the
\* text, and not alike.  Position 0 and one past the last stand for the ends.
Overlap(h) ==
    LET kept == Only(h.base, Lines(h.ours) \cap Lines(h.theirs))
        rank(text, l) == Cardinality({i \in DOMAIN kept :
                            \E j, k \in DOMAIN text : text[j] = kept[i] /\ text[k] = l /\ j < k})
        gap(text, n) == SelectSeq(text, LAMBDA l : l \notin Lines(kept) /\ rank(text, l) = n)
    IN  \E n \in 0 .. Len(kept) :
            LET b == gap(h.base, n)  o == gap(h.ours, n)  t == gap(h.theirs, n)
            IN  o # b /\ t # b /\ o # t

\* What diff3.ts promises of edits in place: it asks for a decision exactly where
\* they overlap.  A clean merge has what both sides kept and what either added, in
\* the order of each side; a merge with conflicts has at least that, and nothing
\* that neither side had.  (Sharing's Merge3 and Marked rest on it.)
MergeKeepsBothEdits ==
    LET b == Lines(history.base)
        o == Lines(history.ours)
        t == Lines(history.theirs)
        both == (o \cap t) \cup (o \ b) \cup (t \ b)
        order(side) == \A i, j \in DOMAIN side : i < j /\ {side[i], side[j]} \subseteq Lines(disk)
                          => \E k, l \in DOMAIN disk : k < l /\ disk[k] = side[i] /\ disk[l] = side[j]
    IN  stage = "merged" /\ InPlace(history) =>
            /\ HasConflictMarkers(disk) <=> Overlap(history)
            /\ both \subseteq Lines(disk) /\ Lines(disk) \subseteq o \cup t \cup Markers
            /\ HasConflictMarkers(disk) \/ (Lines(disk) = both /\ order(history.ours) /\ order(history.theirs))

\* The conflict editor tells the truth: it counts no region only when the text may
\* be saved, and a text that may be saved shows none, whatever was merged and in
\* whatever order regions were settled (conflict-editor.ts updateCounter).
NoRegionNoMarker ==
    \A text \in {disk} \cup Lines(panel) : Regions(text) = <<>> <=> ~HasConflictMarkers(text)
=============================================================================
