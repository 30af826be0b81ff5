# TLA+ models of citeproc-rs name disambiguation and cite grouping

This directory holds TLA+ models of three source files of citeproc-rs:

- `src/crates/citeproc-proc/src/disamb/names.rs`: name expansion, name matchers, global name disambiguation, the reference NFA's name-block loop (`ref_ir`) and the cite's name ratchets.
- `src/crates/proc/src/ir/transforms.rs`: cite grouping and collapsing.
- `src/crates/proc/src/ir.rs`: the IR tree of a cite and its queries; the IR edits are in transforms.rs.

Each module is written from the source. Section numbers refer to the design document `spec.md`.

## The system's parts and how they interact

The design's components, with what is in `src/`:

| Part | Code | Status | Module |
|---|---|---|---|
| C1 edge interner | query layer (not in `src/`) | contract only | the edge is the tuple of shown name parts |
| C2 per-reference NFA | not in `src/` | not modelled | acceptance abstracted to membership in a matcher |
| C3 `SingleNameDisambIter` | names.rs:186-306 | modelled | `NameDisambIter`, driven by the ratchets of `RefIrNames` |
| C4 single-name renderer | names.rs:162-184, calls `render_person_name` (not in `src/`) | partly, from the design | `NameMatcher!SingleName` |
| C5 `NameVariantMatcher` | names.rs:392-417 | modelled | `NameMatcher` |
| C6 `disambiguated_person_names` | names.rs:419-471 | modelled | `GlobalNameDisamb`, refines `GlobalNameDisambAbstract` |
| `Names::ref_ir` | names.rs:25-136, 367-390 | partly (`names_to_builds` from the design) | `RefIrNames` |
| C7 IR tree (`ir.rs`, IR edits in transforms.rs) | ir.rs, transforms.rs:13-166 | partly | `IrTree`, `IrEdits` |
| C8 per-cite driver | mostly not in `src/`; ratchets and `crank` at names.rs:516-535 | partly | `RefIrNames` (cite side) |
| C9 grouping and collapsing | transforms.rs:196-454 | modelled | `CiteGrouping` |

How the parts interact:

- **Global name disambiguation (C6)** runs once per document.
  - It first builds one matcher (C5) per `DisambName`. A matcher holds the edges (C1) of the name's original rendering (C4), followed by one edge per pass its iterator (C3) yields.
  - Then, for each name, it applies the iterator's passes until no other matcher accepts the name's edge. If the iterator runs out first, the name is reset to its original data.
- **Reference NFAs and the cite driver (C2, C8).** For each reference, `ref_ir` builds an NFA per names variable. It runs the names once per name count, bumping `bump_name_count` until the count of rendered names stops growing. One runner serves all the variables of a names element, so its `bump_name_count` carries over from one variable to the next. Each person contributes its original edge and every expansion its iterator (C3) allows. The driver meanwhile adds names to a cite (`crank`) and expands given names (the ratchets). A cite is ambiguous when two references' NFAs accept it.
- **Grouping (C9)** runs per citation cluster, after disambiguation (C8).
  - It groups cites whose first name block renders identically, moving later cites next to the first one.
  - It then collapses the groups. Citation-number collapse turns numbers into ranges. Year collapse suppresses names, and suppresses years too unless `collapse="year"`. These are IR edits (C7).

## Modules

- **`NameDisambIter`** (pure operators). Defines the sets of rules, methods, states and name elements, and the following operators:
  - `FromRule` for `from_rule`.
  - `NewIter` for `SingleNameDisambIter::new`. Its `initialize_with` flag is `initialize_with.is_some() && initialize == Some(true)`; the two optional fields are taken as booleans.
  - `IterNext` for `next()`, one operator per arm: `NextAddInitials`, `NextGivenNameInit`, `NextGivenName`. Each returns the yielded pass, `NoPass` (None) or `Unreachable` (the `unreachable!()` arms), together with the new iterator.
  - `ApplyPass`, `DisambIter`, and `PassesFrom`. `PassesFrom` drains an iterator; it is RECURSIVE, with fuel.
- **`NameMatcher`**:
  - `SingleName` is `single_name`/`single_name_edge`; the `render_person_name` it calls is modelled from the design. The short form shows the family name. The long form shows the initial when initialize and initialize-with are both set, and otherwise the given name.
  - `Variants` is the data after each prefix of the yielded passes.
  - `FromDisambName` and `Accepts` model the matcher.
  - `IsAmbiguous` means more than one matcher accepts the edge.
- **`GlobalNameDisamb`**. `disambiguated_person_names`, one action per step:
  - `EarlyReturn` and `BuildMatchers` (the preamble);
  - `LookupName` (the head of the outer loop);
  - `ExpandName`, an iteration of the `while` that applies a pass;
  - `ResetName`, when the iterator is exhausted: reset, break, insert;
  - `RecordName`, when the name is no longer ambiguous: insert.

  `Init` chooses the style (rule, `disambiguate-add-givenname`, one shared name element) and injective data for every name. Interning gives distinct names distinct data.
- **`GlobalNameDisambAbstract`**. What C6 promises (§4.6), in one step: every name maps to its least unambiguous expansion, or to its original data. `GlobalNameDisamb` instantiates it, mapping `results` to the empty map until `pc = "done"`.
- **`CiteGrouping`**. `group_and_collapse`, one action per loop iteration. `collapse_ranges` and `attempt_append` are pure operators.
  - A cite is reduced to what the function reads: its first name block rendered to a name value (or `NoName`), `has_prefix`, `has_suffix` and its citation number. It also carries the fields the function writes: `is_first`, `should_collapse`, `vanished` and `collapsed_ranges`.
  - The effects of `suppress_names` and `suppress_year` are recorded as flags.
  - `m` is the `HashMap` from name to `(oix, seen_once)`.
  - Actions:
    - `GroupSkip`, `GroupInsert`, `GroupBarrier`, `GroupJoin`: the branches of the name-grouping loop. `GroupJoin` includes the rotation and `*oix += 1`.
    - `MarkCitationNumber`.
    - `CollapseCnumGroup`, `CollapseYearGroup`, `CollapseSkip`, `CollapseNone`: the collapse loops.
- **`IrTree`** (pure operators). A node is a record with its kind, its children and the group vars stored beside it.
  - Two versions of the tree meet here. ir.rs uses an arena (`NodeId`), while transforms.rs still uses the older tree (`seq.contents`, a name block behind `Arc<Mutex<NameIR>>`). In both, a Name, ConditionalDisamb or YearSuffix reaches one content IR, which is the node's one child in the model.
  - An output is the sequence of tokens it prints: text tokens, `Prefix`/`Suffix`, `Delim`, and an `Open`/`Close` pair for inline formatting. Display, quotes and text case change layout, not tokens, and are left out.
  - Queries: `IsEmpty`, `Flatten` (`SeqFlatten` for `flatten_seq`), `ToEdgeStream` (`AppendEdges`, `SeqAppendEdges` for `IrSeq::append_edges`), `ListYearSuffixHooks`, `OverallGv`, `FirstNameBlock`, `HasExplicitYearSuffix`.
  - Constructor `YearSuffixIr` for `IR::year_suffix`. Edits: `SuppressNames`, `SuppressYear` (`SuppressFirstYear`, `SuppressInContents`, `YearPair`), `SplitFirstField`, `RecomputeGroupVars` (`ForceGv`, `RecomputeSeq`).
  - `GroupVars` is defined outside `src/`. `Neighbour` and `ShouldRenderTree` follow design §3 (Important wins, then Missing; only Missing hides a tree).
- **`IrEdits`**. The edits as actions on one cite's tree (`ir`), in any order, counted by `edits` up to `MaxEdits`. In `src/` only `group_and_collapse` calls `suppress_names` and `suppress_year`. The driver calls `split_first_field` and `recompute_group_vars` from outside `src/`, so the model lets every edit happen at any point.
- **`RefIrNames`**. The names variables of one reference's names element, seen from both sides at once.
  - Reference side, `ref_ir`. `Init` is the preamble with the one runner. `RefNextVar` is the head of `for nir in name_irs`: a fresh NFA and the builds at the runner's current `bump_name_count`. `RefRun` is one iteration of the while loop, including the `continue` of a run that adds no edge. `RefFinish` is the loop exit and the push. `RefReturn` returns OnlyEmpty or DidRender. A run is recorded by the bump it used; its language is the product of each shown token's edges (`TokEdges`, `AddExpandedNameToGraph`).
  - Cite side, one NameIR per variable. `Crank` is `NameIR::crank` on any of them. `AdvanceRatchet` is the driver's add-given-name step on one person (`IterNext`, `ApplyPass`), starting from `PersonDisambNameRatchet::new`.
  - `names_to_builds` and `ntb_len` are outside `src/`. Following §4.8, they show `use_first + bump` names (all of them when et-al does not apply), followed by the et-al term while names are hidden. `ntb_len` counts the names shown.
- **`MCGlobalNameDisamb`**, **`MCCiteGrouping`**, **`MCIrEdits`** and **`MCRefIrNames`**. Constants for TLC. `MCIrEdits` builds root Seqs of one to three blocks. A block is a plain output, a name block, a date group (year, then a year-suffix hook that is Explicit or Plain, filled or not, stored as Important or Unresolved) either alone or inside a ConditionalDisamb, an affixed group around a name, or two nested groups whose stored vars are stale. A date group's hook is either fresh from `IR::year_suffix` (Explicit or Plain, Unresolved, no suffix yet) or filled (Explicit stored Unresolved, Plain stored Important). All the hooks of one tree are the same: they belong to one reference and one style, an explicit `year-suffix` variable turns the implicit suffix off, and a cite's hooks are filled together. The root has either no affixes, or affixes, delimiter and formatting. That gives 1560 trees.

## Runs

| Run | What it checks | Result |
|---|---|---|
| `global_disamb` | Three names, two references, three person names that share a family name and/or an initial. `WorkingEdgeAccepted`: the loop's edge is always in the name's own matcher (§8.4). `ResultsUnique`: a result that is not the original data is accepted by no other matcher (§8.5). `AbstractSpec`: refinement of the one-step specification. | pass, about 500k states |
| `global_disamb_termination` | `Terminates`: the function returns, under weak fairness. Two names and one reference keep the liveness check small. | pass |
| `grouping_year` | Four cites, names A/B/none, any affixes; collapse None, Year or YearSuffix. `AffixBarrier`: a collapsed cite has no affix and does not follow a suffixed cite. | pass, about 490k states |
| `grouping_cnum` | Four cites, numbers 1..3, no affixes. `CnumsShownInOrder`: the surviving cites' ranges print every number once, in order. `RangesMaximal`: `collapse_ranges` equals the reference "maximal runs". | pass, about 207k states |
| `ir_edits` | Up to three edits on 1560 trees. `RecomputeSettles`: after `recompute_group_vars`, every Seq on the Seq spine stores its true overall group vars. `SuppressNamesFirstOnly`: `suppress_names` blanks the first name block in document order and no other. `YearBlankedForSuffix`: every rendering `suppress_year` blanks is a year, the first of a two-item date group whose own hook prints its suffix, before and after (§4.7: the year goes when the suffix is present or explicit). The code decides this from a whole-cite flag and the stored group vars, not from the hook. `SplitKeepsText`: `split_first_field` keeps the printed text, affixes included, when both of its sides print something. | pass, about 34k states |
| `ir_edge_fidelity` | `EdgeStreamFidelity` (§8.8): without sentinels, the edge stream spells what `flatten` prints | **violation** (divergence) |
| `ir_is_empty` | `IsEmptyAsDesigned` (§4.7 and the doc comment) | **violation** (divergence from the doc comment) |
| `ir_year_twice` | `YearSuppressedOnce`: one `suppress_year` blanks at most one rendering | **violation** (code bug) |
| `ref_ir_names` | One names variable. `OwnNfaAccepts`: once `ref_ir` has built the NFA, it accepts the cite's own rendering after any interleaving of add-names and add-given-name passes. `NeverUnreachable`: no ratchet's iterator reaches an `unreachable!()` arm of `next()`, for every rule, primary flag and element. `ExhaustedAsTable`: an exhausted ratchet has expanded its name exactly as the §4.3 table says. `Terminates`: `ref_ir` returns (weak fairness on its loops). | pass, about 37k states |
| `ref_ir_two_vars` | Author and editor under et-al. `OwnNfaAccepts` | **violation** (code bug) |
| `grouping_interleaved` | Year collapse over names A, B, A, B. `SuppressedNamesFollowSameName` | **violation** (code bug) |
| `grouping_cnum_affix` | Citation-number collapse with affixes. `AffixBarrier` | **violation** (divergence from §4.9) |

Every property of a passing run has a mutant in `PROJECT.json`: a plausible bug in the mapped code that TLC then catches. Each module states a `TypeOK` for the reader, but no run checks it: no bug in the code could break it that a property above does not already catch.

### Findings

1. **Stale group positions** (transforms.rs:383-385).
   - The rotation moves cites, but only the stored position of the name being grouped is updated.
   - With names A, B, A, B the cites end as A1, A2, B2, B1. A2 is wrongly marked `is_first` and B2 `should_collapse`.
   - Year collapse then suppresses B2's names right after A2, so B's work is printed as if it were A's.
   - The order within B is also reversed.
2. **Citation-number collapse ignores affixes** (transforms.rs:392-398, flagged by the code's own XXX comment).
   - A cite with a prefix or suffix vanishes into a range, and its affix is not printed.
   - §4.9 says affixes are a barrier to grouping.

3. **The edge stream prints affixes around nothing** (ir.rs:531).
   - `IrSeq::append_edges` returns early only for a Seq with no children.
   - After `suppress_names` empties the only name in an affixed group, `flatten` prints nothing for the group. The edge stream still has its prefix and suffix: `append_edges` tests only that the group has children (line 531), not that any child emitted an edge. Stored group vars play no part: `overall_group_vars` never returns Missing, so every Seq with dropped group vars renders.
4. **`is_empty` is inverted** (ir.rs:208). It is true for a container that has children.
   - Its only caller under `src/`, `append_edges` (ir.rs:365), relies on the inverted answer: it emits the YearSuffix sentinel when `is_empty` is true, that is, for a filled hook, which is what `flatten` prints. Fixing `is_empty` alone would break edge-stream fidelity (§8.8); the name and the doc comment are what disagree with the code.
   - transforms.rs calls the older tree's `is_empty`, which is outside `src/` and is modelled from §4.7 (`IsEmptyContent`). The edits therefore do not read the inverted answer.
5. **A ConditionalDisamb hides a suppressed year** (transforms.rs:100). `suppress_first_year` returns `false` after suppressing inside a ConditionalDisamb. In a cite with two date groups in ConditionalDisambs, both years are blanked.
6. **`ref_ir` carries the name count from one variable to the next** (names.rs:41).
   - One `OneNameVar` runner is made before `for nir in name_irs`, and its `bump_name_count` is never reset.
   - The second variable's NFA therefore starts at the count the first variable's loop ended at, while the cite's NameIR for that variable starts at 0.
   - An author of one name and two editors under et-al (min 2, use-first 1): the editors' NFA holds only "Jane Smith, Adam Smith", and the cite's "Jane Smith et al." is not accepted by its own reference. Section 1 of the design says a reference's NFA accepts every rendering of a cite of it.

## Bounds

- **Iterator.** Every rule, primary flag and name element is enumerated through the persons of `MCRefIrNames` (one primary, two not), which is the whole input space of `next()`. `IterFuel = 3` is one more than the iterator can ever yield.
- **Global disambiguation.** Three names are needed for the ambiguity test to count several acceptors, with one name disambiguated against two others. The three person names (Smith/J/John, Smith/J/Jane, Smith/A/Adam) make:
  - the short form ambiguous for all three;
  - the initials ambiguous for two;
  - the given names unique.

  Every branch is therefore reached: expand, reset and record.
- **Grouping.** Four cites is the smallest cluster in which two names can interleave twice, which is what the stale-position bug needs. Three citation numbers allow a run, a break and a repeat.

- **IR edits.** Every block kind appears up to three times in one cite. This covers:
  - a name block after another name block, as first, second or third content;
  - two date groups, one of them inside a ConditionalDisamb;
  - each arm of the year-pair test;
  - a nest deep enough that a recompute which folds before recursing leaves a stale value.

  Three edits let any two edits run after a third.
- **`ref_ir` names.** The inputs are:
  - one to three persons of one family, two of whom share an initial, with and without a literal name;
  - every name element and rule;
  - et-al off, or et-al from two names showing one.

  Et-al makes the loop take two or three runs. `MaxBump = 3` lets the cite show more names than any run did.
  The two-variable instance needs only one author and one or two editors, under one element with initials: the first variable's loop leaves the runner at bump 1, which is enough to hide the editors' one-name rendering.

## Fairness

`RefIrNames` assumes weak fairness of the `ref_ir` loop's own steps only (`WF_refVars(RefNextVar \/ RefRun \/ RefFinish \/ RefReturn)`). `ref_ir` is a plain loop. The driver's cranks are choices, not obligations. A `continue` step changes nothing, so it does not count as progress.

`GlobalNameDisamb` uses `WF_vars(Next)`. `disambiguated_person_names` is a plain function on one thread with no waits (§5), so it keeps taking steps while one is enabled. The grouping and IR-edit models check only safety.

`CHECK_DEADLOCK FALSE` is set in every cfg. `disambiguated_person_names`, `group_and_collapse` and `ref_ir` return, so their final state has no successor. A cite's IR stops being edited after `MaxEdits` edits, and a cite's names after `MaxBump` add-names passes.

## Not modelled, and the plan

The plan, most important first:

1. **Compose IR edits with the year collapse.** `CiteGrouping` records `suppress_names` and `suppress_year` as flags. An instance of `IrEdits` per cite would print the collapsed cluster.
2. **Substitution in `ref_ir`.** The `OnlyEmpty` return is where `substitute` would apply (two TODOs); `get_free_conds` already walks the substitute through `cross_product`, which is outside `src/`.

Left out:

- The edge interner, the NFA, `render_person_name` and the query layer are outside `src/`, and are used only through their contracts.
- Formatting, affix text and locale data do not change any control decision of the modelled code.
- `NameCounter` (only counts names), `collapse_to_cnum` (parses the flattened string as a number; no caller under `src/`), `deep_equals` (private, no caller), and the quotes, display and text case of a Seq.
- `split_first_field` has no caller under `src/`. `SplitKeepsText` checks it keeps the text; the delimiter it drops between later fields, and the affix of a side that prints nothing (transforms.rs:57), are left out of the property, since the design asks only that the prefix go left and the suffix right.
- A `ref_ir` run that adds no edge repeats forever (names.rs:107). It needs `names_to_builds` to yield only names that render empty, and that function is outside `src/`. The model's inputs have no empty literal. The mutant of `Terminates` shows that such a run hangs.
- `YearSuffixRanged` behaves like `YearSuffix` in `group_and_collapse` (`collapsed_year_suffixes` is never filled), so it is not enumerated separately.
