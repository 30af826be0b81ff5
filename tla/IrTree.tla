------------------------------- MODULE IrTree -------------------------------
(***************************************************************************)
(* The IR tree of a cite (proc/src/ir.rs) and the edits of                 *)
(* proc/src/ir/transforms.rs, as pure operators on tree values.           *)
(*                                                                         *)
(* A node is a record: its kind k, its children kids (the arena children;  *)
(* for Name, ConditionalDisamb and YearSuffix the one content IR that     *)
(* transforms.rs reaches through the lock or the Box) and gv, the         *)
(* GroupVars stored beside it.  Rendered carries ed: NoEd or a            *)
(* CiteEdgeData [kind, tok]; YearSuffix and ConditionalDisamb carry their *)
(* own group_vars (own); YearSuffix its hook; Seq its affixes (pre, suf:  *)
(* non-empty or not), whether it has a delimiter and inline formatting,   *)
(* dropped_gv and display.                                                 *)
(*                                                                         *)
(* An output (Option<Build>) is the sequence of tokens it prints; None is  *)
(* the empty sequence (every rendered leaf prints at least one token).    *)
(* An edge stream is the tokens of its Output edges, with one token per   *)
(* sentinel edge.  Formatting is an Open/Close token pair; display and    *)
(* text case change layout, not the tokens, and are left out of outputs. *)
(***************************************************************************)
EXTENDS Naturals, SequencesExt

NoEd == [kind |-> "None", tok |-> "None"]   \* Rendered(None)
NoGv == "NoGv"
GVs == {"Plain", "Important", "Missing", "Unresolved"}
Pre == "Prefix"
Suf == "Suffix"
Delim == "Delim"
Open == "Open"
Close == "Close"
YearSuffixEdge == "YearSuffixEdge"
CitationNumberEdge == "CitationNumberEdge"

(* Constructors. *)
Rendered(ed, gv) == [k |-> "Rendered", ed |-> ed, kids |-> <<>>, gv |-> gv]
NameNode(ir, gv) == [k |-> "Name", kids |-> <<ir>>, gv |-> gv]
Cond(ir, own, gv) == [k |-> "Cond", kids |-> <<ir>>, own |-> own, gv |-> gv]
YearSuffixNode(hook, kids, own, gv) ==
    [k |-> "YearSuffix", hook |-> hook, kids |-> kids, own |-> own, gv |-> gv]
SeqNode(kids, f, gv) ==
    [k |-> "Seq", kids |-> kids, gv |-> gv, pre |-> f.pre, suf |-> f.suf,
     delim |-> f.delim, fmt |-> f.fmt, dropped |-> f.dropped, display |-> "none"]

(* IR::year_suffix: a fresh hook, Unresolved, with no suffix rendered yet. *)
YearSuffixIr(hook) == YearSuffixNode(hook, <<>>, "Unresolved", "Unresolved")

(* A node with one child replaced. *)
WithKid(t, i, c) == [t EXCEPT !.kids[i] = c]

(***************************************************************************)
(* GroupVars (the type is outside this repository's sources; modelled     *)
(* from the design, section 3): Important wins, then Missing.             *)
(***************************************************************************)
Neighbour(a, b) ==
    CASE "Important" \in {a, b} -> "Important"
      [] "Missing" \in {a, b} -> "Missing"
      [] "Unresolved" \in {a, b} -> "Unresolved"
      [] OTHER -> "Plain"

ShouldRenderTree(g) == g # "Missing"

(* IrSeq::overall_group_vars *)
OverallGv(t) ==
    IF t.dropped = NoGv THEN NoGv
    ELSE LET acc == FoldLeft(Neighbour, t.dropped, [i \in DOMAIN t.kids |-> t.kids[i].gv])
         IN IF acc # "Missing" THEN "Important" ELSE "Plain"

(* overall_group_vars(..).map_or(true, should_render_tree) *)
SeqRenders(t) == OverallGv(t) = NoGv \/ ShouldRenderTree(OverallGv(t))

(***************************************************************************)
(* Queries of ir.rs                                                        *)
(***************************************************************************)

(* IR::is_empty: Rendered(None); a container when its children iterator   *)
(* yields something; never a NameCounter.                                 *)
IsEmpty(t) ==
    CASE t.k = "Rendered" -> t.ed = NoEd
      [] t.k \in {"Seq", "Name", "Cond", "YearSuffix"} -> t.kids # <<>>
      [] OTHER -> FALSE

(* Outputs joined with the delimiter token when the Seq has one. *)
JoinWith(xs, d) ==
    IF d THEN FlattenSeq([i \in DOMAIN xs |->
                             IF i = 1 THEN xs[i] ELSE <<Delim>> \o xs[i]])
    ELSE FlattenSeq(xs)

NonEmpty(xs) == SelectSeq(xs, LAMBDA x : x # <<>>)

(* fmt.group(xs, delimiter, formatting) then affixed_quoted. *)
Decorate(t, body) ==
    (IF t.pre THEN <<Pre>> ELSE <<>>) \o (IF t.fmt THEN <<Open>> ELSE <<>>)
      \o body \o (IF t.fmt THEN <<Close>> ELSE <<>>) \o (IF t.suf THEN <<Suf>> ELSE <<>>)

(* IrSeq::flatten_seq, given the outputs of the children: None when the   *)
(* group vars say not to render or no child printed anything.             *)
SeqFlatten(t, xs) ==
    IF ~SeqRenders(t) \/ NonEmpty(xs) = <<>> THEN <<>>
    ELSE Decorate(t, JoinWith(NonEmpty(xs), t.delim))

RECURSIVE Flatten(_)
(* IR::flatten and flatten_children. *)
Flatten(t) ==
    LET xs == [i \in DOMAIN t.kids |-> Flatten(t.kids[i])]
    IN CASE t.k = "Rendered" -> IF t.ed = NoEd THEN <<>> ELSE <<t.ed.tok>>
         [] t.k = "Seq" -> SeqFlatten(t, xs)
         [] OTHER -> FlattenSeq(NonEmpty(xs))

(* CiteEdgeData::to_edge_data *)
ToEdgeData(ed) ==
    CASE ed.kind \in {"Output", "Year"} -> <<ed.tok>>
      [] ed.kind = "YearSuffix" -> <<YearSuffixEdge>>
      [] ed.kind = "CitationNumber" -> <<CitationNumberEdge>>

(* IrSeq::append_edges, given the edges of the children: nothing for a    *)
(* Seq without children; otherwise the prefix, the open tags, the          *)
(* children's edges with a delimiter between two that emitted something,  *)
(* the close tags and the suffix.                                          *)
SeqAppendEdges(t, subs) ==
    IF t.kids = <<>> THEN <<>> ELSE Decorate(t, JoinWith(NonEmpty(subs), t.delim))

RECURSIVE AppendEdges(_)
(* IR::append_edges and append_child_edges: a Seq emits only when its     *)
(* overall group vars say to render.                                       *)
AppendEdges(t) ==
    LET subs == [i \in DOMAIN t.kids |-> AppendEdges(t.kids[i])]
    IN CASE t.k = "Rendered" -> IF t.ed = NoEd THEN <<>> ELSE ToEdgeData(t.ed)
         [] t.k = "YearSuffix" -> IF IsEmpty(t) THEN <<YearSuffixEdge>> ELSE <<>>
         [] t.k = "Seq" -> IF SeqRenders(t) THEN SeqAppendEdges(t, subs) ELSE <<>>
         [] OTHER -> FlattenSeq(NonEmpty(subs))

(* IR::to_edge_stream *)
ToEdgeStream(t) == AppendEdges(t)

RECURSIVE YsHooks(_, _)
(* list_ysh_inner: the paths of the YearSuffix nodes, in document order, *)
(* descending through ConditionalDisamb and Seq only.                     *)
YsHooks(t, path) ==
    CASE t.k = "YearSuffix" -> <<path>>
      [] t.k \in {"Cond", "Seq"} ->
            FlattenSeq([i \in DOMAIN t.kids |-> YsHooks(t.kids[i], Append(path, i))])
      [] OTHER -> <<>>

(* IR::list_year_suffix_hooks *)
ListYearSuffixHooks(t) == YsHooks(t, <<>>)

(***************************************************************************)
(* Group-variable recomputation                                            *)
(***************************************************************************)

RECURSIVE ForceGv(_), RecomputeSeq(_)

(* A plausible bug in force_gv: a Seq's overall group vars are taken from *)
(* its children before they are recomputed.                                *)
ForceGvEarly(t) ==
    CASE t.k = "Seq" -> [node |-> RecomputeSeq(t), gv |-> OverallGv(t)]
      [] t.k \in {"YearSuffix", "Cond"} -> [node |-> t, gv |-> t.own]
      [] OTHER -> [node |-> t, gv |-> NoGv]

(* IR::force_gv: a Seq recomputes its children, then reports its overall  *)
(* group vars; YearSuffix and ConditionalDisamb report their own; Rendered *)
(* and Name report nothing.                                               *)
ForceGv(t) ==
    CASE t.k = "Seq" -> LET s == RecomputeSeq(t) IN [node |-> s, gv |-> OverallGv(s)]
      [] t.k \in {"YearSuffix", "Cond"} -> [node |-> t, gv |-> t.own]
      [] OTHER -> [node |-> t, gv |-> NoGv]

(* IrSeq::recompute_group_vars: each child's stored gv is overwritten by  *)
(* what force_gv reports, when it reports something.                      *)
RecomputeSeq(t) ==
    [t EXCEPT !.kids = [i \in DOMAIN t.kids |->
        LET r == ForceGv(t.kids[i])
        IN IF r.gv = NoGv THEN r.node ELSE [r.node EXCEPT !.gv = r.gv]]]

(* IR::recompute_group_vars *)
RecomputeGroupVars(t) == IF t.k = "Seq" THEN RecomputeSeq(t) ELSE t

(***************************************************************************)
(* Edits of transforms.rs                                                  *)
(***************************************************************************)

NoPath == <<0>>

RECURSIVE NodeAt(_, _), ReplaceNode(_, _, _)
NodeAt(t, path) == IF path = <<>> THEN t ELSE NodeAt(t.kids[Head(path)], Tail(path))
ReplaceNode(t, path, c) ==
    IF path = <<>> THEN c
    ELSE WithKid(t, Head(path), ReplaceNode(t.kids[Head(path)], Tail(path), c))

RECURSIVE FnbFrom(_, _)

(* A plausible bug in first_name_block: a Seq takes the last of its       *)
(* contents that has a name block.                                        *)
FnbFromLast(t, path) ==
    CASE t.k = "Name" -> path
      [] t.k = "Cond" -> FnbFrom(t.kids[1], Append(path, 1))
      [] t.k = "Seq" ->
            LET found == {i \in DOMAIN t.kids : FnbFrom(t.kids[i], Append(path, i)) # NoPath}
            IN IF found = {} THEN NoPath
               ELSE FnbFrom(t.kids[Max(found)], Append(path, Max(found)))
      [] OTHER -> NoPath

(* IR::first_name_block, as the path of the Name node: a Seq takes the   *)
(* first of its contents that has one.                                    *)
FnbFrom(t, path) ==
    CASE t.k = "Name" -> path
      [] t.k = "Cond" -> FnbFrom(t.kids[1], Append(path, 1))
      [] t.k = "Seq" ->
            LET found == {i \in DOMAIN t.kids : FnbFrom(t.kids[i], Append(path, i)) # NoPath}
            IN IF found = {} THEN NoPath
               ELSE FnbFrom(t.kids[Min(found)], Append(path, Min(found)))
      [] OTHER -> NoPath

FirstNameBlock(t) == FnbFrom(t, <<>>)

(* IR::suppress_names: the first name block's ir becomes Rendered(None). *)
SuppressNames(t) ==
    LET p == FirstNameBlock(t)
    IN IF p = NoPath THEN t
       ELSE ReplaceNode(t, Append(p, 1), Rendered(NoEd, NodeAt(t, Append(p, 1)).gv))

(* IR::is_empty of the tree transforms.rs works on (it takes no arena;    *)
(* outside this repository's sources, from the design 4.7): Rendered(None) *)
(* or a container with no children.                                        *)
IsEmptyContent(t) == (t.k = "Rendered" /\ t.ed = NoEd) \/ (t.k # "Rendered" /\ t.kids = <<>>)

RECURSIVE HasExplicitYearSuffix(_)

(* A plausible bug in has_explicit_year_suffix: any Explicit hook counts, *)
(* whether or not a suffix has been rendered into it.                      *)
HasExplicitYearSuffixAnyHook(t) ==
    CASE t.k = "YearSuffix" -> t.hook = "Explicit"
      [] t.k = "Cond" -> HasExplicitYearSuffix(t.kids[1])
      [] t.k = "Seq" -> \E i \in DOMAIN t.kids : HasExplicitYearSuffix(t.kids[i])
      [] OTHER -> FALSE

(* IR::has_explicit_year_suffix: an Explicit hook whose ir is not empty. *)
HasExplicitYearSuffix(t) ==
    CASE t.k = "YearSuffix" -> t.hook = "Explicit" /\ t.kids # <<>> /\ ~IsEmptyContent(t.kids[1])
      [] t.k = "Cond" -> HasExplicitYearSuffix(t.kids[1])
      [] t.k = "Seq" -> \E i \in DOMAIN t.kids : HasExplicitYearSuffix(t.kids[i])
      [] OTHER -> FALSE

(* The pair test of suppress_first_year: a Seq of exactly two contents,  *)
(* the second a year-suffix hook that is unresolved with an explicit      *)
(* suffix, or important with a non-empty ir and no explicit suffix.       *)
YearPair(t, explicit) ==
    /\ Len(t.kids) = 2
    /\ t.kids[2].k = "YearSuffix"
    /\ \/ t.kids[2].gv = "Unresolved" /\ explicit
       \/ /\ t.kids[2].gv = "Important" /\ ~explicit
          /\ t.kids[2].kids # <<>> /\ ~IsEmptyContent(t.kids[2].kids[1])

RECURSIVE SuppressFirstYear(_, _), SuppressInContents(_, _, _)

(* The loop over a Seq's contents from position i: each content is       *)
(* mutated in turn until one reports that it found the year.              *)
SuppressInContents(t, i, explicit) ==
    IF i > Len(t.kids) THEN [node |-> t, found |-> FALSE]
    ELSE LET r == SuppressFirstYear(t.kids[i], explicit)
             t2 == WithKid(t, i, r.node)
         IN IF r.found THEN [node |-> t2, found |-> TRUE]
            ELSE SuppressInContents(t2, i + 1, explicit)

(* IR::suppress_first_year: a ConditionalDisamb suppresses inside its ir *)
(* and reports false; a Seq replaces the year of its year pair by         *)
(* Rendered(None), or else searches its contents.                         *)
SuppressFirstYear(t, explicit) ==
    CASE t.k = "Cond" ->
            [node |-> WithKid(t, 1, SuppressFirstYear(t.kids[1], explicit).node),
             found |-> FALSE]
      [] t.k = "Seq" /\ YearPair(t, explicit) ->
            [node |-> WithKid(t, 1, Rendered(NoEd, t.kids[1].gv)), found |-> TRUE]
      [] t.k = "Seq" -> SuppressInContents(t, 1, explicit)
      [] OTHER -> [node |-> t, found |-> FALSE]

(* IR::suppress_year *)
SuppressYear(t) == SuppressFirstYear(t, HasExplicitYearSuffix(t)).node

(* A plausible bug in split_first_field: the right-inline Seq is built    *)
(* without the original suffix.                                            *)
SplitFirstFieldNoSuffix(t) ==
    IF t.k # "Seq" \/ Len(t.kids) <= 1 THEN t
    ELSE LET plain == [pre |-> FALSE, suf |-> FALSE, delim |-> FALSE, fmt |-> FALSE,
                       dropped |-> NoGv]
             left == [SeqNode(<<t.kids[1]>>, [plain EXCEPT !.pre = t.pre], t.kids[1].gv)
                        EXCEPT !.display = "LeftMargin"]
             right == [SeqNode(Tail(t.kids), plain, "Important")
                        EXCEPT !.display = "RightInline"]
         IN [t EXCEPT !.kids = <<left, right>>, !.pre = FALSE, !.suf = FALSE,
                      !.dropped = NoGv, !.display = "none"]

(* IR::split_first_field: a Seq of more than one content becomes a Seq of *)
(* a left-margin Seq holding the first content (with the prefix) and a    *)
(* right-inline Seq holding the rest (with the suffix); the outer Seq     *)
(* keeps formatting and delimiter, and drops affixes and dropped_gv.      *)
SplitFirstField(t) ==
    IF t.k # "Seq" \/ Len(t.kids) <= 1 THEN t
    ELSE LET plain == [pre |-> FALSE, suf |-> FALSE, delim |-> FALSE, fmt |-> FALSE,
                       dropped |-> NoGv]
             left == [SeqNode(<<t.kids[1]>>, [plain EXCEPT !.pre = t.pre], t.kids[1].gv)
                        EXCEPT !.display = "LeftMargin"]
             right == [SeqNode(Tail(t.kids), [plain EXCEPT !.suf = t.suf], "Important")
                        EXCEPT !.display = "RightInline"]
         IN [t EXCEPT !.kids = <<left, right>>, !.pre = FALSE, !.suf = FALSE,
                      !.dropped = NoGv, !.display = "none"]

=============================================================================
