----------------------------- MODULE RefIrNames -----------------------------
(***************************************************************************)
(* One names variable seen from both sides of disambiguation              *)
(* (citeproc-proc/src/disamb/names.rs):                                   *)
(*  - the reference side, <Names as Disambiguation>::ref_ir: the while    *)
(*    loop that adds one NFA run per name count, bumping the runner's     *)
(*    bump_name_count until the rendered token count stops growing, a     *)
(*    person name entering the NFA through add_expanded_name_to_graph     *)
(*    with every expansion its iterator allows;                           *)
(*  - the cite side, the NameIR of a cite of the same reference: crank    *)
(*    (add-names) and the PersonDisambNameRatchets (add-given-name)       *)
(*    that the per-cite driver advances.                                  *)
(* Both run in one behaviour: the driver tests the cite against the NFA   *)
(* whenever it likes, so every interleaving is allowed.                   *)
(*                                                                         *)
(* A token of the names variable is a person [kind |-> "Person", d] with  *)
(* its DisambNameData, or a literal name [kind |-> "Literal", text].      *)
(* An NFA run is recorded by the bump it was rendered with; its language  *)
(* is the product of each shown token's alternative edges.                *)
(***************************************************************************)
EXTENDS NameMatcher, FiniteSetsExt

CONSTANTS
    NameIrs,    \* the possible name_irs of the reference: one names list per variable
    EtAls,      \* the possible [min, use_first] et-al settings; min = 0: none
    MaxBump,    \* add-names passes the driver may apply to one NameIR of the cite
    EtAlTerm    \* the "et al." term, a Built token

VARIABLES
    rule,       \* style.citation.givenname_disambiguation_rule
    nirs,       \* name_irs: per names variable, its names in order
    etal,       \* the et-al setting of the names element
    pc,         \* "next" at the head of `for nir in name_irs`, "loop" in the
                \* while loop, "done" once ref_ir has returned
    v,          \* the names variable the for loop is at
    bump,       \* runner.bump_name_count (one runner for all variables)
    counted,    \* counted_tokens
    maxCounted, \* max_counted_tokens
    runs,       \* per variable, the bumps of the runs whose end is in its nfa.accepting
    pushed,     \* the RefIR::Name blocks pushed into seq.contents
    result,     \* the GroupVars ref_ir returns, "none" before it returns
    citeBump,   \* per variable, the cite NameIR's bump_name_count
    iters,      \* <<variable, position>> -> the person's SingleNameDisambIter
    datas,      \* <<variable, position>> -> the person's DisambNameData
    cranked     \* what the last crank returned (the driver re-renders on TRUE)

refVars == <<pc, v, bump, counted, maxCounted, runs, pushed, result>>
citeVars == <<citeBump, iters, datas, cranked>>
vars == <<rule, nirs, etal, refVars, citeVars>>

Vars == DOMAIN nirs

(***************************************************************************)
(* names_to_builds and ntb_len (crate::names, outside this repository's   *)
(* sources; from the design, 4.8: the names shown grow by one per bump,   *)
(* respecting et-al).  With et-al min m and use-first u, a list of at     *)
(* least m names shows u + bump of them, followed by the et-al term while *)
(* some are hidden.  ntb_len counts the names (the ratchets) shown.       *)
(***************************************************************************)
ShownCount(ts, e, b) ==
    IF e.min # 0 /\ Len(ts) >= e.min THEN Min({Len(ts), e.use_first + b}) ELSE Len(ts)

NamesToBuilds(ts, e, b) ==
    SubSeq(ts, 1, ShownCount(ts, e, b))
      \o (IF ShownCount(ts, e, b) < Len(ts) THEN <<EtAlTerm>> ELSE <<>>)

NtbLen(ts, e, b) == ShownCount(ts, e, b)

(* The edges of a person in the NFA, from add_expanded_name_to_graph: the *)
(* original edge, then the edge after each pass of dn.disamb_iter(rule),  *)
(* all between spot and next_spot.                                        *)
AddExpandedNameToGraph(d, r) == ToSet(FromDisambName(d, r))

(* The tokens that reach the NFA: the closure passed to graph_with_stack  *)
(* skips a Literal or Built token that renders empty (fmt.is_empty).      *)
EdgeToks(ts) == SelectSeq(ts, LAMBDA t : t = EtAlTerm \/ t.kind = "Person" \/ t.text # "")

(* The alternatives a token contributes to the run: a Literal or Built    *)
(* token one edge, a person its expanded edges.                           *)
TokEdges(t, r) ==
    CASE t = EtAlTerm -> {<<EtAlTerm>>}
      [] t.kind = "Literal" -> {<<t.text>>}
      [] t.kind = "Person" -> AddExpandedNameToGraph(t.d, r)

(* A plausible bug in the closure: only person names add edges. *)
RunAddsEdgePersonsOnly(ts) == \E i \in DOMAIN ts : ts[i] # EtAlTerm /\ ts[i].kind = "Person"

(* graph_with_stack returns start only when no token added an edge.       *)
RunAddsEdge(ts) == EdgeToks(ts) # <<>>

(***************************************************************************)
(* The cite side                                                           *)
(***************************************************************************)

(* The persons of every variable, as <<variable, position>>. *)
Positions ==
    UNION {{<<x, i>> : i \in {j \in DOMAIN nirs[x] : nirs[x][j].kind = "Person"}} : x \in Vars}

(* PersonDisambNameRatchet::new *)
NewRatchet(d, r) == NewIter(FromRule(r, d.primary), d.el)

(* What the cite renders for variable x: its shown tokens with each       *)
(* person's current data, one edge per token.                             *)
CiteEdges(x) ==
    LET ts == NamesToBuilds(nirs[x], etal, citeBump[x])
        es == [i \in DOMAIN ts |->
                 IF ts[i] = EtAlTerm THEN <<EtAlTerm>>
                 ELSE IF ts[i].kind = "Literal" THEN <<ts[i].text>>
                 ELSE SingleName(datas[<<x, i>>])]
    IN SelectSeq(es, LAMBDA e : e # <<"">>)

(* Variable x's NFA accepts an edge sequence: some accepted run has one   *)
(* token per edge, each edge among its token's alternatives.              *)
NfaAccepts(x, es) ==
    \E b \in runs[x] :
       LET ts == EdgeToks(NamesToBuilds(nirs[x], etal, b))
       IN Len(ts) = Len(es) /\ \A i \in DOMAIN ts : es[i] \in TokEdges(ts[i], rule)

(***************************************************************************)
(* Actions                                                                 *)
(***************************************************************************)

(* ref_ir's preamble: one runner with bump_name_count 0 for the whole     *)
(* element, an empty seq, and the name_irs of the reference; the cite's    *)
(* NameIRs start at bump 0 with one ratchet per person.                    *)
Init ==
    /\ rule \in Rules
    /\ nirs \in NameIrs
    /\ etal \in EtAls
    /\ pc = "next"
    /\ v = 0
    /\ bump = 0
    /\ counted = 0
    /\ maxCounted = 0
    /\ runs = [x \in Vars |-> {}]
    /\ pushed = <<>>
    /\ result = "none"
    /\ citeBump = [x \in Vars |-> 0]
    /\ datas = [p \in Positions |-> nirs[p[1]][p[2]].d]
    /\ iters = [p \in Positions |-> NewRatchet(nirs[p[1]][p[2]].d, rule)]
    /\ cranked = FALSE

(* The head of `for nir in name_irs`: a fresh NFA, the builds of the next *)
(* variable at the runner's current bump_name_count, max_counted_tokens 0. *)
RefNextVar ==
    /\ pc = "next"
    /\ v < Len(nirs)
    /\ v' = v + 1
    /\ counted' = NtbLen(nirs[v + 1], etal, bump)
    /\ maxCounted' = 0
    /\ pc' = "loop"
    /\ UNCHANGED <<bump, runs, pushed, result, rule, nirs, etal, citeVars>>

(* A plausible bug: the builds are recounted before the runner is bumped. *)
RefRunRecountFirst ==
    /\ pc = "loop"
    /\ counted > maxCounted
    /\ IF RunAddsEdge(NamesToBuilds(nirs[v], etal, bump))
         THEN /\ runs' = [runs EXCEPT ![v] = @ \cup {bump}]
              /\ bump' = bump + 1
              /\ maxCounted' = counted
              /\ counted' = NtbLen(nirs[v], etal, bump)
         ELSE UNCHANGED <<runs, bump, maxCounted, counted>>
    /\ UNCHANGED <<pc, v, pushed, result, rule, nirs, etal, citeVars>>

(* One iteration of `while counted_tokens > max_counted_tokens`: a run    *)
(* that adds an edge is accepted, the runner bumped and the builds        *)
(* recounted; a run that adds none `continue`s with nothing changed.      *)
RefRun ==
    /\ pc = "loop"
    /\ counted > maxCounted
    /\ IF RunAddsEdge(NamesToBuilds(nirs[v], etal, bump))
         THEN /\ runs' = [runs EXCEPT ![v] = @ \cup {bump}]
              /\ bump' = bump + 1
              /\ maxCounted' = counted
              /\ counted' = NtbLen(nirs[v], etal, bump + 1)
         ELSE UNCHANGED <<runs, bump, maxCounted, counted>>
    /\ UNCHANGED <<pc, v, pushed, result, rule, nirs, etal, citeVars>>

(* The while loop exits; RefNameIR::from_name_ir records the person ids,  *)
(* and the name block is pushed only when the NFA accepts something.      *)
RefFinish ==
    /\ pc = "loop"
    /\ counted <= maxCounted
    /\ pc' = "next"
    /\ pushed' = IF runs[v] # {}
                   THEN Append(pushed, [i \in {p[2] : p \in {q \in Positions : q[1] = v}} |->
                                          nirs[v][i].d])
                   ELSE pushed
    /\ UNCHANGED <<v, bump, counted, maxCounted, runs, result, rule, nirs, etal, citeVars>>

(* After the for loop: OnlyEmpty when no block was pushed, else the Seq   *)
(* and DidRender.                                                          *)
RefReturn ==
    /\ pc = "next"
    /\ v = Len(nirs)
    /\ pc' = "done"
    /\ result' = IF pushed = <<>> THEN "OnlyEmpty" ELSE "DidRender"
    /\ UNCHANGED <<v, bump, counted, maxCounted, runs, pushed, rule, nirs, etal, citeVars>>

(* NameIR::crank on variable x's NameIR: an AddNames pass bumps its        *)
(* bump_name_count; any other pass leaves the NameIR alone.               *)
Crank(x, pass) ==
    /\ pass = "AddNames" => citeBump[x] < MaxBump
    /\ citeBump' = [citeBump EXCEPT ![x] = IF pass = "AddNames" THEN @ + 1 ELSE @]
    /\ cranked' = (pass = "AddNames")
    /\ UNCHANGED <<iters, datas, rule, nirs, etal, refVars>>

(* An add-given-name pass on one person: its ratchet's iterator yields    *)
(* the next pass, which apply_pass applies to its data.                   *)
AdvanceRatchet(p) ==
    LET r == IterNext(iters[p])
    IN /\ r.out \in Passes
       /\ iters' = [iters EXCEPT ![p] = r.iter]
       /\ datas' = [datas EXCEPT ![p].el = ApplyPass(@, r.out)]
       /\ UNCHANGED <<citeBump, cranked, rule, nirs, etal, refVars>>

Next ==
    \/ RefNextVar
    \/ RefRun
    \/ RefFinish
    \/ RefReturn
    \/ \E x \in Vars, pass \in {"AddNames", "AddGivenName", "Conditionals"} : Crank(x, pass)
    \/ \E p \in Positions : AdvanceRatchet(p)

(* ref_ir is a plain loop on one thread: it keeps stepping while it can. *)
Spec == Init /\ [][Next]_vars /\ WF_refVars(RefNextVar \/ RefRun \/ RefFinish \/ RefReturn)

(***************************************************************************)
(* Properties                                                              *)
(***************************************************************************)

TypeOK ==
    /\ rule \in Rules /\ nirs \in NameIrs /\ etal \in EtAls
    /\ pc \in {"next", "loop", "done"} /\ v \in 0..Len(nirs)
    /\ bump \in Nat /\ counted \in Nat /\ maxCounted \in Nat
    /\ runs \in [Vars -> SUBSET (0..bump)]
    /\ result \in {"none", "OnlyEmpty", "DidRender"}
    /\ citeBump \in [Vars -> 0..MaxBump] /\ cranked \in BOOLEAN
    /\ iters \in [Positions -> Iters]
    /\ \A p \in Positions : datas[p].value = nirs[p[1]][p[2]].d.value /\ datas[p].el \in NameEls

(* A cite is never ambiguous with nothing: once ref_ir has built the      *)
(* reference's NFAs, each variable's NFA accepts the cite's own rendering *)
(* of that variable, after any number of add-names cranks and             *)
(* add-given-name passes, in either order (design 4.8: ambiguity is       *)
(* acceptance by two NFAs, and the cite's own must be one of them).       *)
OwnNfaAccepts == pc = "done" => \A x \in Vars : NfaAccepts(x, CiteEdges(x))

(* next() is never asked for a pass it cannot give: however the driver   *)
(* interleaves add-given-name passes on the persons of a cite, no         *)
(* ratchet's iterator reaches one of next()'s unreachable!() arms.        *)
NeverUnreachable == \A p \in Positions : IterNext(iters[p]).out # Unreachable

(* The expansion table of the design (section 4.3), as a reference: the   *)
(* passes a fresh iterator yields for its method, initialize-with flag    *)
(* and starting form.                                                      *)
TablePasses(method, iw, form) ==
    CASE method = "AddInitials" /\ iw /\ form = "short" -> <<"WithFormLong">>
      [] method = "AddInitialsThenGivenName" /\ iw /\ form = "short" ->
            <<"WithFormLong", "WithInitializeFalse">>
      [] method = "AddInitialsThenGivenName" /\ iw -> <<"WithInitializeFalse">>
      [] method = "AddInitialsThenGivenName" /\ form = "short" -> <<"WithFormLong">>
      [] OTHER -> <<>>

(* A person whose ratchet is exhausted has been expanded exactly as the   *)
(* table says: its name element is its reference element with the table's *)
(* passes applied, whatever rule, primary flag and element it started     *)
(* from and however its passes interleaved with the other persons'.       *)
ExhaustedAsTable ==
    \A p \in Positions :
       LET d == nirs[p[1]][p[2]].d
       IN IterNext(iters[p]).out = NoPass =>
            datas[p].el = FoldLeft(ApplyPass, d.el,
                             TablePasses(FromRule(rule, d.primary),
                                         d.el.initialize_with /\ d.el.initialize, d.el.form))

(* ref_ir's loops end: the for loop runs once per variable, and each      *)
(* while loop stops once counted_tokens stops growing.                    *)
Terminates == <>(pc = "done")

=============================================================================
