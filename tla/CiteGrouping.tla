---------------------------- MODULE CiteGrouping ----------------------------
(***************************************************************************)
(* Cite grouping and collapsing: group_and_collapse, collapse_ranges and  *)
(* RangePiece::attempt_append (citeproc-proc/src/ir/transforms.rs).       *)
(*                                                                         *)
(* A cite is abstracted to what the function reads: the flattened output  *)
(* of its first name block (a name value, or NoName when it has none),    *)
(* whether it has a prefix / suffix, and its citation number (or NoNum),  *)
(* plus the fields the function writes.  The IR edits of the year-style   *)
(* collapse (suppress_names, suppress_year) are recorded as flags; the IR  *)
(* module models what they do to the tree.  Positions are 1-based.        *)
(***************************************************************************)
EXTENDS Naturals, SequencesExt

CONSTANTS
    NumCites,    \* cites in the cluster
    NameVals,    \* rendered first-name blocks
    NoName,      \* no first name block (first_name_block() is None)
    CnumVals,    \* citation numbers (>= 1)
    NoNum,       \* cnum = None
    AffixVals,   \* the has_prefix / has_suffix values a cite may have
    Collapses    \* the style's collapse settings to explore

CollapseModes == {"None", "CitationNumber", "Year", "YearSuffix",
                  "YearSuffixRanged"}
ASSUME Collapses \subseteq CollapseModes /\ CnumVals \subseteq Nat \ {0}

VARIABLES
    collapse,  \* the style's collapse setting ("None" for no attribute)
    cites,     \* the Vec<Unnamed3>, in its current order
    m,         \* the HashMap: rendered name -> [oix, seen_once], or NoEntry
    pc,        \* where group_and_collapse is
    ix         \* the loop position

vars == <<collapse, cites, m, pc, ix>>

NoEntry == [oix |-> 0, seen |-> FALSE]
Pos == 1..NumCites

(* A CnumIx and the two RangePiece shapes. *)
CnumIx(c, i) == [cnum |-> c, ix |-> i]
Single(a) == [kind |-> "single", lo |-> a, hi |-> a]
RangeOf(a, b) == [kind |-> "range", lo |-> a, hi |-> b]

Inputs == [name : NameVals \cup {NoName}, prefix : AffixVals,
           suffix : AffixVals, cnum : CnumVals \cup {NoNum}]

(* Unnamed3::new for one input cite. *)
NewCite(id, in) ==
    [id |-> id, name |-> in.name, prefix |-> in.prefix, suffix |-> in.suffix,
     cnum |-> in.cnum, is_first |-> FALSE, should_collapse |-> FALSE,
     vanished |-> FALSE, ranges |-> <<>>,
     names_suppressed |-> FALSE, year_suppressed |-> FALSE]

TypeOK ==
    /\ collapse \in Collapses
    /\ cites \in [Pos -> [id : Pos, name : NameVals \cup {NoName},
                          prefix : BOOLEAN, suffix : BOOLEAN,
                          cnum : CnumVals \cup {NoNum},
                          is_first : BOOLEAN, should_collapse : BOOLEAN,
                          vanished : BOOLEAN, ranges : Seq([kind : {"single", "range"},
                                lo : [cnum : CnumVals, ix : Pos],
                                hi : [cnum : CnumVals, ix : Pos]]),
                          names_suppressed : BOOLEAN, year_suppressed : BOOLEAN]]
    /\ m \in [NameVals -> [oix : 0..NumCites, seen : BOOLEAN]]
    /\ pc \in {"group", "cnum_mark", "collapse", "done"}
    /\ ix \in Pos

(***************************************************************************)
(* collapse_ranges                                                         *)
(***************************************************************************)

(* A plausible bug in attempt_append: a Range is extended without its end *)
(* being checked against the next number.                                 *)
AttemptAppendNoEndCheck(wip, nxt) ==
    CASE wip.kind = "single" /\ wip.lo.cnum = nxt.cnum - 1 ->
            [wip |-> RangeOf(wip.lo, nxt), emit |-> <<>>]
      [] wip.kind = "range" -> [wip |-> RangeOf(wip.lo, nxt), emit |-> <<>>]
      [] OTHER -> [wip |-> Single(nxt), emit |-> <<wip>>]

(* RangePiece::attempt_append: the new work-in-progress piece, and the    *)
(* piece to emit when nxt could not be appended.                          *)
AttemptAppend(wip, nxt) ==
    CASE wip.kind = "single" /\ wip.lo.cnum = nxt.cnum - 1 ->
            [wip |-> RangeOf(wip.lo, nxt), emit |-> <<>>]
      [] wip.kind = "range" /\ wip.hi.cnum = nxt.cnum - 1 ->
            [wip |-> RangeOf(wip.lo, nxt), emit |-> <<>>]
      [] OTHER -> [wip |-> Single(nxt), emit |-> <<wip>>]

(* collapse_ranges: fold attempt_append over the numbers after the first, *)
(* then push the last work-in-progress piece.                             *)
CollapseRanges(nums) ==
    IF nums = <<>> THEN <<>>
    ELSE LET step(acc, nxt) ==
                 LET r == AttemptAppend(acc.wip, nxt)
                 IN [wip |-> r.wip, pieces |-> acc.pieces \o r.emit]
             last == FoldLeft(step, [wip |-> Single(nums[1]), pieces |-> <<>>],
                              Tail(nums))
         IN Append(last.pieces, last.wip)

(***************************************************************************)
(* Grouping by first name block                                            *)
(***************************************************************************)

(* The affix test of and_modify: the group's last cite has a suffix, the  *)
(* cite after it a prefix, the cite before this one a suffix, or this     *)
(* cite an affix.                                                          *)
Barrier(oix, i) ==
    \/ cites[oix].suffix
    \/ cites[oix + 1].prefix
    \/ cites[i - 1].suffix
    \/ cites[i].prefix \/ cites[i].suffix

(* slice[a..=b].rotate_right(1) *)
RotateRight(s, a, b) ==
    [j \in DOMAIN s |-> IF j = a THEN s[b]
                        ELSE IF a < j /\ j <= b THEN s[j - 1] ELSE s[j]]

(* End of the grouping loop: the citation-number marking, or the collapse. *)
NextGroupPos ==
    IF ix = NumCites
      THEN /\ pc' = IF collapse = "CitationNumber" THEN "cnum_mark" ELSE "collapse"
           /\ ix' = 1
      ELSE /\ ix' = ix + 1
           /\ UNCHANGED pc

Init ==
    /\ collapse \in Collapses
    /\ \E in \in [Pos -> Inputs] : cites = [i \in Pos |-> NewCite(i, in[i])]
    /\ m = [n \in NameVals |-> NoEntry]
    /\ pc = "group"
    /\ ix = 1

(* The cite has no first name block, or it flattens to nothing. *)
GroupSkip ==
    /\ pc = "group"
    /\ cites[ix].name = NoName
    /\ NextGroupPos
    /\ UNCHANGED <<collapse, cites, m>>

(* or_insert_with: the first cite with this rendered name. *)
GroupInsert ==
    /\ pc = "group"
    /\ cites[ix].name # NoName
    /\ m[cites[ix].name] = NoEntry
    /\ m' = [m EXCEPT ![cites[ix].name] = [oix |-> ix, seen |-> FALSE]]
    /\ NextGroupPos
    /\ UNCHANGED <<collapse, cites>>

(* and_modify, affix barrier: the group restarts at this cite. *)
GroupBarrier ==
    /\ pc = "group"
    /\ cites[ix].name # NoName
    /\ m[cites[ix].name] # NoEntry
    /\ Barrier(m[cites[ix].name].oix, ix)
    /\ m' = [m EXCEPT ![cites[ix].name].oix = ix]
    /\ NextGroupPos
    /\ UNCHANGED <<collapse, cites>>

(* A plausible bug: the affix test forgets this cite's own affixes. *)
GroupJoinNoOwnAffix ==
    /\ pc = "group"
    /\ cites[ix].name # NoName
    /\ m[cites[ix].name] # NoEntry
    /\ LET e == m[cites[ix].name] IN
         /\ ~(cites[e.oix].suffix \/ cites[e.oix + 1].prefix \/ cites[ix - 1].suffix)
         /\ e.oix < ix
         /\ LET marked == [cites EXCEPT ![e.oix].is_first = IF e.seen THEN @ ELSE TRUE,
                                        ![ix].should_collapse = TRUE]
            IN cites' = RotateRight(marked, e.oix + 1, ix)
         /\ m' = [m EXCEPT ![cites[ix].name] = [oix |-> e.oix + 1, seen |-> TRUE]]
    /\ NextGroupPos
    /\ UNCHANGED collapse

(* and_modify, no barrier: the group's first cite is marked is_first (the *)
(* first time), this cite should_collapse, and this cite is rotated to    *)
(* just after the stored position oix, which then moves on by one.  The  *)
(* positions other names have stored are left as they are.  (oix < ix    *)
(* always holds: oix is a position an earlier iteration stored.)         *)
GroupJoin ==
    /\ pc = "group"
    /\ cites[ix].name # NoName
    /\ m[cites[ix].name] # NoEntry
    /\ LET e == m[cites[ix].name] IN
         /\ ~Barrier(e.oix, ix)
         /\ e.oix < ix
         /\ LET marked == [cites EXCEPT ![e.oix].is_first = IF e.seen THEN @ ELSE TRUE,
                                        ![ix].should_collapse = TRUE]
            IN cites' = RotateRight(marked, e.oix + 1, ix)
         /\ m' = [m EXCEPT ![cites[ix].name] = [oix |-> e.oix + 1, seen |-> TRUE]]
    /\ NextGroupPos
    /\ UNCHANGED collapse

(***************************************************************************)
(* Collapsing                                                              *)
(***************************************************************************)

(* collapse = CitationNumber: the first cite is_first, all others         *)
(* should_collapse, whatever their names or affixes.                      *)
MarkCitationNumber ==
    /\ pc = "cnum_mark"
    /\ cites' = [i \in Pos |-> IF i = 1 THEN [cites[i] EXCEPT !.is_first = TRUE]
                               ELSE [cites[i] EXCEPT !.should_collapse = TRUE]]
    /\ pc' = "collapse"
    /\ UNCHANGED <<collapse, m, ix>>

(* How many cites after position i form its take_while(should_collapse). *)
FollowCount(i) ==
    Max({k \in 0..(NumCites - i) :
           \A j \in (i + 1)..(i + k) : cites[j].should_collapse})

(* The citation numbers of cites i..i+k, with their positions. *)
CnumsOf(i, k) ==
    LET js == SelectSeq([j \in 1..(k + 1) |-> i + j - 1],
                        LAMBDA j : cites[j].cnum # NoNum)
    IN [n \in DOMAIN js |-> CnumIx(cites[js[n]].cnum, js[n])]

(* The end of a collapse-loop iteration: the next position, or return. *)
NextCollapsePos(next) ==
    IF next > NumCites THEN pc' = "done" /\ ix' = ix
                       ELSE ix' = next /\ UNCHANGED pc

(* A plausible bug: the first cite's own number is not collected. *)
CollapseCnumGroupDropsOwn ==
    /\ pc = "collapse" /\ collapse = "CitationNumber"
    /\ cites[ix].is_first
    /\ LET k == FollowCount(ix)
           nums == CnumsOf(ix + 1, k - 1)
       IN cites' = [j \in Pos |->
                      CASE j = ix -> [cites[j] EXCEPT !.ranges = CollapseRanges(nums)]
                        [] ix < j /\ j <= ix + k -> [cites[j] EXCEPT !.vanished = TRUE]
                        [] OTHER -> cites[j]]
    /\ NextCollapsePos(ix + 1)
    /\ UNCHANGED <<collapse, m>>

(* CitationNumber, an is_first cite: its own number and those of the      *)
(* cites that follow it with should_collapse become its collapsed_ranges; *)
(* those cites vanish.                                                     *)
CollapseCnumGroup ==
    /\ pc = "collapse" /\ collapse = "CitationNumber"
    /\ cites[ix].is_first
    /\ LET k == FollowCount(ix)
       IN cites' = [j \in Pos |->
                      CASE j = ix -> [cites[j] EXCEPT !.ranges =
                                          CollapseRanges(CnumsOf(ix, k))]
                        [] ix < j /\ j <= ix + k -> [cites[j] EXCEPT !.vanished = TRUE]
                        [] OTHER -> cites[j]]
    /\ NextCollapsePos(ix + 1)
    /\ UNCHANGED <<collapse, m>>

(* A year-style collapse, an is_first cite: every cite of its             *)
(* take_while(should_collapse) gets suppress_names (a no-op without a     *)
(* name block) and, unless collapse = Year, suppress_year; the loop then  *)
(* skips them.                                                             *)
CollapseYearGroup ==
    /\ pc = "collapse" /\ collapse \in {"Year", "YearSuffix", "YearSuffixRanged"}
    /\ cites[ix].is_first
    /\ LET k == FollowCount(ix)
       IN /\ cites' = [j \in Pos |->
                        IF ix < j /\ j <= ix + k
                          THEN [cites[j] EXCEPT
                                  !.names_suppressed = @ \/ cites[j].name # NoName,
                                  !.year_suppressed = @ \/ collapse # "Year"]
                          ELSE cites[j]]
          /\ NextCollapsePos(ix + k + 1)
    /\ UNCHANGED <<collapse, m>>

(* Either collapse loop at a cite that is not is_first. *)
CollapseSkip ==
    /\ pc = "collapse" /\ collapse # "None"
    /\ ~cites[ix].is_first
    /\ NextCollapsePos(ix + 1)
    /\ UNCHANGED <<collapse, cites, m>>

(* No collapse attribute: nothing after the grouping. *)
CollapseNone ==
    /\ pc = "collapse" /\ collapse = "None"
    /\ pc' = "done"
    /\ UNCHANGED <<collapse, cites, m, ix>>

Next ==
    \/ GroupSkip \/ GroupInsert \/ GroupBarrier \/ GroupJoin
    \/ MarkCitationNumber
    \/ CollapseCnumGroup \/ CollapseYearGroup \/ CollapseSkip \/ CollapseNone

Spec == Init /\ [][Next]_vars

(***************************************************************************)
(* Properties                                                              *)
(***************************************************************************)

(* The affix barrier ("Keep cites separated by affixes together"): a cite *)
(* that is collapsed into a group has no prefix or suffix of its own, and *)
(* the cite it now follows has no suffix, however later groupings rotate  *)
(* the vector.                                                             *)
AffixBarrier ==
    \A i \in Pos :
       cites[i].should_collapse =>
          /\ ~cites[i].prefix /\ ~cites[i].suffix
          /\ i > 1 => ~cites[i - 1].suffix

(* Cite grouping (design 4.9): once the year-style collapse has run, a    *)
(* cite whose names were suppressed is shown after the nearest earlier    *)
(* cite that still shows its names, and that cite has the same rendered   *)
(* name: the reader attributes the suppressed cite to the right author.   *)
SuppressedNamesFollowSameName ==
    pc = "done" =>
      \A i \in Pos :
         cites[i].names_suppressed =>
            LET shown == {j \in 1..(i - 1) : ~cites[j].names_suppressed}
            IN shown # {} /\ cites[Max(shown)].name = cites[i].name

(* The reference for collapse_ranges: the numbers cut before every number *)
(* that is not its predecessor plus one; a run of one is a Single.         *)
MaximalRuns(nums) ==
    IF nums = <<>> THEN <<>>
    ELSE LET starts == SetToSortSeq({1} \cup {i \in 2..Len(nums) :
                                       nums[i].cnum # nums[i - 1].cnum + 1}, <)
             last(k) == IF k < Len(starts) THEN starts[k + 1] - 1 ELSE Len(nums)
         IN [k \in DOMAIN starts |->
               IF starts[k] = last(k) THEN Single(nums[starts[k]])
               ELSE RangeOf(nums[starts[k]], nums[last(k)])]

(* The numbers a piece prints. *)
Shows(piece) == [j \in 1..(piece.hi.cnum - piece.lo.cnum + 1) |-> piece.lo.cnum + j - 1]

(* Citation-number collapse loses and invents nothing: once the function  *)
(* has returned, the numbers printed by the pieces of the cites that did  *)
(* not vanish are, in order, the numbers of all the cites.                *)
CnumsShownInOrder ==
    pc = "done" /\ collapse = "CitationNumber" =>
      LET kept == SelectSeq([i \in Pos |-> i], LAMBDA i : ~cites[i].vanished)
          pieces == FlattenSeq([k \in DOMAIN kept |-> cites[kept[k]].ranges])
          numbered == SelectSeq([i \in Pos |-> cites[i]], LAMBDA c : c.cnum # NoNum)
      IN FlattenSeq([k \in DOMAIN pieces |-> Shows(pieces[k])])
           = [k \in DOMAIN numbered |-> numbered[k].cnum]

(* collapse_ranges agrees with the reference: every cite that did not     *)
(* vanish carries the maximal runs of the numbers of its group.           *)
RangesMaximal ==
    pc = "done" /\ collapse = "CitationNumber" =>
      \A i \in Pos :
         cites[i].is_first /\ ~cites[i].vanished =>
            cites[i].ranges = MaximalRuns(CnumsOf(i, FollowCount(i)))

=============================================================================
