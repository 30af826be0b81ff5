-------------------------- MODULE GlobalNameDisamb --------------------------
(***************************************************************************)
(* disambiguated_person_names (citeproc-proc/src/disamb/names.rs): global *)
(* name disambiguation over every DisambName of the document.  The early  *)
(* return, the preamble that builds one NameVariantMatcher per name, and  *)
(* the per-name `while is_ambiguous(edge)` loop, one step per iteration,  *)
(* with its reset when the iterator is exhausted.                         *)
(*                                                                         *)
(* The style (rule, disambiguate-add-givenname, one shared name element)  *)
(* and the interned DisambNameData of every name are chosen in Init: any  *)
(* document the query layer can present.  Interning makes the data of    *)
(* distinct DisambNames distinct.                                          *)
(***************************************************************************)
EXTENDS NameMatcher, Functions

CONSTANTS
    DisambNames,   \* the interned DisambName ids of db.all_person_names()
    Refs,          \* reference ids
    PersonNames,   \* person names, records [family, initial, given]
    NoData         \* marks "no DisambNameData here"

VARIABLES
    rule,       \* style.citation.givenname_disambiguation_rule
    dagn,       \* style.citation.disambiguate_add_givenname
    data,       \* DisambName -> DisambNameData, as dn.lookup(db) returns it
    matchers,   \* DisambName -> its NameVariantMatcher (<<>> before the preamble)
    pc,         \* where disambiguated_person_names is
    idx,        \* position of the current name in dns
    cur,        \* the working copy `dn` of the current name
    edge,       \* its current edge
    iter,       \* its SingleNameDisambIter
    results     \* the result map; NoData for names not in it

vars == <<rule, dagn, data, matchers, pc, idx, cur, edge, iter, results>>

(* dns: the order in which the loops visit the names. *)
DnSeq == SetToSeq(DisambNames)

DataFor(el) == [ref : Refs, value : PersonNames, primary : BOOLEAN, el : {el}]
AllData == UNION {DataFor(el) : el \in NameEls}
Edges == {SingleName(d) : d \in AllData}

TypeOK ==
    /\ rule \in Rules /\ dagn \in BOOLEAN
    /\ data \in [DisambNames -> AllData]
    /\ matchers \in [DisambNames -> Seq(Edges)]
    /\ pc \in {"start", "lookup", "while", "done"}
    /\ idx \in 1..Len(DnSeq)
    /\ cur \in AllData \cup {NoData}
    /\ edge \in Edges \cup {NoData}
    /\ iter \in Iters \cup {NoData}
    /\ results \in [DisambNames -> AllData \cup {NoData}]

Init ==
    /\ rule \in Rules
    /\ dagn \in BOOLEAN
    /\ \E el \in NameEls :
         data \in {f \in [DisambNames -> DataFor(el)] : IsInjective(f)}
    /\ matchers = [dn \in DisambNames |-> <<>>]
    /\ pc = "start"
    /\ idx = 1
    /\ cur = NoData /\ edge = NoData /\ iter = NoData
    /\ results = [dn \in DisambNames |-> NoData]

(* `if !dagn || rule == ByCite { return Default::default() }` *)
EarlyReturn ==
    /\ pc = "start"
    /\ ~dagn \/ rule = "ByCite"
    /\ pc' = "done"
    /\ UNCHANGED <<rule, dagn, data, matchers, idx, cur, edge, iter, results>>

(* The preamble: one matcher per name. *)
BuildMatchers ==
    /\ pc = "start"
    /\ dagn /\ rule # "ByCite"
    /\ matchers' = [dn \in DisambNames |-> FromDisambName(data[dn], rule)]
    /\ pc' = "lookup"
    /\ UNCHANGED <<rule, dagn, data, idx, cur, edge, iter, results>>

(* Head of the outer loop: look the name up, render it, start its iterator. *)
LookupName ==
    /\ pc = "lookup"
    /\ LET d == data[DnSeq[idx]] IN
         /\ cur' = d
         /\ edge' = SingleName(d)
         /\ iter' = DisambIter(d, rule)
    /\ pc' = "while"
    /\ UNCHANGED <<rule, dagn, data, matchers, idx, results>>

(* After results.insert: go on with the next name, or return. *)
Advance ==
    /\ pc' = IF idx = Len(DnSeq) THEN "done" ELSE "lookup"
    /\ idx' = IF idx = Len(DnSeq) THEN idx ELSE idx + 1

(* Still ambiguous and the iterator yields a pass: apply it, re-render. *)
ExpandName ==
    /\ pc = "while"
    /\ IsAmbiguous(matchers, edge)
    /\ LET r == IterNext(iter) IN
         /\ r.out \in Passes
         /\ cur' = [cur EXCEPT !.el = ApplyPass(cur.el, r.out)]
         /\ edge' = SingleName(cur')
         /\ iter' = r.iter
    /\ UNCHANGED <<rule, dagn, data, matchers, pc, idx, results>>

(* A plausible bug: the exhausted branch breaks without resetting dn, so  *)
(* the partly expanded copy is inserted.                                  *)
ResetNameMissing ==
    /\ pc = "while"
    /\ IsAmbiguous(matchers, edge)
    /\ LET r == IterNext(iter) IN
         /\ r.out = NoPass
         /\ iter' = r.iter
    /\ results' = [results EXCEPT ![DnSeq[idx]] = cur]
    /\ Advance
    /\ UNCHANGED <<rule, dagn, data, matchers, cur, edge>>

(* Still ambiguous and the iterator is exhausted: reset dn to the looked  *)
(* up data, break, and insert it.                                         *)
ResetName ==
    /\ pc = "while"
    /\ IsAmbiguous(matchers, edge)
    /\ LET r == IterNext(iter) IN
         /\ r.out = NoPass
         /\ iter' = r.iter
    /\ cur' = data[DnSeq[idx]]
    /\ results' = [results EXCEPT ![DnSeq[idx]] = data[DnSeq[idx]]]
    /\ Advance
    /\ UNCHANGED <<rule, dagn, data, matchers, edge>>

(* A plausible bug: the looked-up data is inserted instead of the        *)
(* working copy the loop expanded.                                         *)
RecordNameOriginal ==
    /\ pc = "while"
    /\ ~IsAmbiguous(matchers, edge)
    /\ results' = [results EXCEPT ![DnSeq[idx]] = data[DnSeq[idx]]]
    /\ Advance
    /\ UNCHANGED <<rule, dagn, data, matchers, cur, edge, iter>>

(* No longer ambiguous: the loop ends and dn is inserted. *)
RecordName ==
    /\ pc = "while"
    /\ ~IsAmbiguous(matchers, edge)
    /\ results' = [results EXCEPT ![DnSeq[idx]] = cur]
    /\ Advance
    /\ UNCHANGED <<rule, dagn, data, matchers, cur, edge, iter>>

Next ==
    \/ EarlyReturn
    \/ BuildMatchers
    \/ LookupName
    \/ ExpandName
    \/ ResetName
    \/ RecordName

(* The function runs to completion on one thread: once it can take a      *)
(* step it takes one.                                                      *)
Spec == Init /\ [][Next]_vars /\ WF_vars(Next)

(***************************************************************************)
(* Properties                                                              *)
(***************************************************************************)

(* Matcher completeness (design 8.4): in every iteration of the while     *)
(* loop, the edge the loop has rendered for the current name, after the   *)
(* passes its own iterator has yielded so far, is one of the edges the    *)
(* preamble put in that name's matcher.                                    *)
WorkingEdgeAccepted ==
    pc = "while" => Accepts(matchers[DnSeq[idx]], edge)

(* Global disambiguation correctness (design 8.5): once the function has  *)
(* returned, no name's result renders to an edge that another name's      *)
(* matcher accepts, unless the result is the name's original data (it     *)
(* was reset, or never needed expanding).                                  *)
ResultsUnique ==
    pc = "done" =>
      \A dn \in DisambNames :
         results[dn] # NoData /\ results[dn] # data[dn] =>
           \A other \in DisambNames \ {dn} :
              ~Accepts(matchers[other], SingleName(results[dn]))

(* disambiguated_person_names returns.                                     *)
Terminates == <>(pc = "done")

(* The loop implements the one-step promise of section 4.6: the result    *)
(* map, once returned, is the least unambiguous expansion of every name   *)
(* or its original data, and empty when the pass is disabled.             *)
Abstract == INSTANCE GlobalNameDisambAbstract
    WITH results <- IF pc = "done" THEN results
                    ELSE [dn \in DisambNames |-> NoData]
AbstractSpec == Abstract!Spec

=============================================================================
