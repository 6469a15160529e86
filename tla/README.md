# Verification models for the repository

This directory holds TLA+ models of the stateful parts of the Go sources under `src/`. It has three kinds of file:

- TLC configurations that model-check them on small instances;
- TLAPS proofs of the main planning and apply invariants and of the resource invariants;
- `PROJECT.json`, which lists the components, runs, mutants, source map, findings, hazards and theorems.

## The system and its parts

The sources are a sample of a Terraform-like tool:

- **Stack component instances** (`internal/stacks/.../stackeval/component_instance.go`). A stack declares components. Each component instance computes a module-tree plan and later applies it.
  - Plans are computed concurrently. Each is memoised by a promise that resolves once.
  - A plan is forced *deferred* when something it must be ordered after has an incomplete plan:
    - the components it requires;
    - in destroy mode, the dependents recorded in the prior state;
    - otherwise, those dependents that are `removed` blocks.
  - In the apply phase a component reads the outputs of its requirements through `ResultValue`. A component whose predecessors did not apply completely is skipped with a placeholder result.
- **The interpolation-language lexer** (`config/lang/lex.go`). The parser calls `Lex` until EOF. The lexer switches between literal and interpolation mode, over a byte offset into a UTF-8 string.
- **Provider resources**:
  - GitHub team;
  - AWS DB cluster parameter group;
  - AWS Lambda function (code from a local zip or S3; code and configuration updated by two calls);
  - InfluxDB database;
  - Circonus JSON check.

  Their CRUD functions call remote APIs, and any call can fail. The plugin framework calls these functions and saves their result in Terraform's state.
- Small pieces with no interesting state:
  - the saved cloud plan bookmark;
  - the component factory lookup;
  - the `state list` command;
  - a generated AWS client;
  - a mock registry used by tests.

## Modules

| Module | Models | State | Actions |
|---|---|---|---|
| `StackPlan` | `CheckModuleTreePlan`, `PlanChanges` | `mode`, and per node `status` (promise pending/planned/failed), `deferred`, `complete`, `action` | `CheckModuleTreePlan(c)`, `PlanRemoved(r)` |
| `StackApply` (extends `StackPlan`) | `ApplyModuleTreePlan`, `PlaceholderApplyResultForSkippedApply`, `ResultValue` and `CheckInputVariableValues` in the apply phase | the above, plus per node `applied`, `applyOk` (`Complete`), `finalState`, `exists` (objects in the world) | planning steps, `ApplyModuleTreePlan(n)` |
| `HilRunes` | `next`, `peek`, `backup` of `lex.go` | the lexer's fields `LexerFields` (pos, width, mode, depth, panic), an input `b` of bytes | `NextRuneIn(b, L)`, `PeekIn(b, L)`, `Backup(L)` (operators; no state of its own) |
| `HilLexer` (extends `HilRunes`) | every function of `lex.go` | `input` (the UTF-8 bytes of a string of runes), `lx` (pos, width, mode, depth, panic), last token and value, call count | `LexCall` (one whole `Lex` call) |
| `DbParamGroup` | `resource_aws_db_cluster_parameter_group.go` | whether RDS holds the group and its parameter values; whether the state tracks it, its saved parameter set, taint; configuration, last outcome, refreshed | `Create`, `Read`, `Update`, `Delete`, out-of-band parameter change and delete, configuration change |
| `LambdaFunction` | `resource_aws_lambda_function.go` | whether AWS holds the function, its code and configuration; the local zip; whether the state tracks it, its code source, source hash, `update_code`, configuration, taint; configuration, last outcome, refreshed in this run | `Create`, `Read`, `Update`, `Delete`, out-of-band modify and delete, file edit, configuration change |
| `GithubTeam` | `resource_github_team.go` | GitHub's teams and LDAP mappings, ids handed out, state id and DN, configuration, last outcome, refreshed | `Create`, `Read`, `Update`, `Delete`, out-of-band delete, configuration change |

Each `MC*` module supplies the model values and small constant definitions used by its `.cfg` files.

How the code maps onto the models:

- **Map iteration order.** The deferral loops iterate `collections.Set.Elems()`, a Go map, so the order is random. `ScanOutcomes` gives every result some order can produce:
  - the loop may stop at any element that stops it;
  - it ends undeferred only if every element lets it continue.

  No permutations are enumerated, which keeps the model provable.
- **Plan steps.** Each plan is one atomic step. Its promise resolves once, and it only reads promises that have already resolved.
- **Plan failures.** The early returns of `CheckModuleTreePlan` (invalid inputs, invalid providers, a failing modules runtime) are the `failed` branch of `PlanOutcome`.
- **Runes and bytes.** The input is the UTF-8 bytes of a string of runes. The two-byte rune `é` is the string `"eacute"` followed by a `"cont"` byte. `next`, `peek` and `backup` are in `HilRunes`, apart from the recursive lexing functions, so that the prover can reason about them.
- **Whole calls.** The lexer's functions are mutually `RECURSIVE` operators that return the new lexer fields. `LexCall` performs one whole `Lex` call, including its recursive re-lexing of skipped empty strings.
- **Provider calls.** Every GitHub, RDS or Lambda call may fail. Each action takes the branch the code takes on each failure. A create call may also act and still return an error (a lost reply, a timeout); Create then returns before `SetId` in all three resources.
- **One run of `terraform apply`.** `fresh` (GitHub, RDS, Lambda) says the state was refreshed in this run and nothing has been applied since. Only a successful refresh sets it; Create, Update and Delete clear it. Changes outside Terraform and a rebuilt zip leave it, because they can happen between the refresh and the apply of one run. A configuration edit leaves it too, which also admits an apply that pairs a new configuration with an older refresh: more behaviours than the tool produces, so the safety properties are checked on a superset. Update and Delete run only when it is set.
- **Lambda code.** The code source is `"file"` (the local zip) or an S3 object; zip contents and S3 objects are disjoint model values, so a code hash is the content itself. `ReadBack` is the `Read` that ends `Create` and `Update`. `ZipSent` is the `source_code_hash` test that makes `Update` send the local zip. The configuration (handler, memory, role, ...) is one abstract value.
- **Parameter sets.** The `parameter` schema set is a set of name/value records. `ParamHash` is the set's hash, which keys an element by name and value. `Difference` is `ns.Difference(os)` under that hash. RDS's group is a function from parameter names to a value or `Default`; `UserParams` is what `DescribeDBClusterParameters` with `Source: "user"` returns.

### Modelled from the documented contract (code not under `src/`)

These definitions are marked `spec_modelled` in the map:

- the apply orchestrator's wait (`WaitFor`): requirements first, or prior dependents for a Delete;
- `PlanApplyable`;
- `ApplyComponentPlan` (`Applied`, `PartlyApplied`). A failed apply may or may not have changed the objects. A failed Delete never creates anything.
- `Component.PlanIsComplete`;
- the plan of a `removed` block;
- the plugin framework's refresh (`Planned`);
- UTF-8 encoding.

After a failing `Update` the framework saves the planned values (no `d.Partial`). The GitHub model encodes this in `Update`.

The parameter group model also follows the framework's contract for:
- what a failing function saves under `d.Partial(true)`: only the keys passed to `SetPartial`;
- tainting a resource whose `Create` failed after `SetId`, and replacing it by `Delete` then `Create`.

## Runs

| Run | Result | What it shows |
|---|---|---|
| `stackplan_removal` | violation | `RemovalDeferral` fails, see Findings 1 and 2. Both modes are in the run and TLC reports the shorter, normal-mode trace; with `PlanModes = {"destroy"}` in `MCStackPlan_removal.cfg` it reports the destroy-mode one. |
| `stackapply` | pass, 6064 states | In every planning mode and every iteration order:<br>- a complete plan never sits on an incomplete required plan (`RequiredDeferralMonotone`);<br>- every plan resolves (`PlanningTerminates`).<br>Applying any reachable plan, with applies failing part way:<br>- creates only on top of requirements that exist and applied successfully (`CreateAfterRequired`);<br>- always finishes (`ApplyTerminates`), in destroy mode too, thanks to `ResultValue`'s planned-outputs shortcut for Delete. |
| `lexer` | pass, 14462 states | For all 4681 inputs of up to four runes over `$ { } " \ n space (`:<br>- the position stays in the input (`LexTypeOK`);<br>- interpolation mode occurs only inside an open `${` (`ModeDepthConsistent`). |
| `lexer_progress` | violation | `${` followed by a rune that starts no token makes `Lex` return empty identifiers forever. TLC reports `${$` or `${\`, depending on its search order; the mechanism is the same. |
| `lexer_wide_panic` | violation | `$é` panics (`NoPanic`). |
| `githubteam` | pass, 882 states | With the framework's refresh before each apply, a successful apply that keeps the team in state has set the configured LDAP mapping, whatever failed before (`AppliedMatchesConfig`). |
| `dbparamgroup` | pass, 13133 states | Whatever calls fail and whatever is changed outside Terraform:<br>- a successful apply saves exactly the group's user parameters (`StateMatchesRemote`), so drift stays visible;<br>- an apply that starts from a state matching RDS sets every configured parameter (`ConfiguredParamsApplied`); |
| `dbparamgroup_converge` | violation | A parameter removed from the configuration is never reset (`AppliedConverges`). |
| `dbparamgroup_missing` | violation | After an out-of-band delete every refresh fails (`RefreshForgetsMissing`). |
| `lambda` | pass, 6212 states | Whatever calls fail, whatever is changed on AWS and whatever the local zip holds:<br>- a refreshed state that shows no change matches the function AWS holds (`NoSilentDrift`);<br>- an apply that starts from a state recording AWS's configuration, succeeds and keeps the function in the state leaves the configured code and configuration there (`ConfiguredApplied`), however the zip was rebuilt since the refresh. A configuration changed on AWS between refresh and apply is not sent and the apply still reports success; `NoSilentDrift` shows it at the next refresh. |
| `lambda_orphan` | violation | A function AWS created can be missing from the state (`NoOrphanFunction`). |
| `githubteam_orphan` | violation | A team on GitHub can fall out of Terraform's state (`NoOrphanTeams`). |

### Bounds

- **Stacks.** The removal run has three components: c2 needs c1, and c3 needs c1 and c2. The apply run has four: c2 needs c1, c3 needs c2, and c4 needs c2 and c3, so the required-components loop meets a passing and a stopping element in either order. There is also one `removed` block and one address that resolves to nothing.
  - c1's prior dependents are c2 and the removed block. c2's prior dependent is the unresolved address.
  - This gives every loop of `CheckModuleTreePlan`:
    - a passing element;
    - an element that stops it with deferral;
    - an element that stops it without deferral.
  - Every mode runs in one run, so each action kind (Create, Update, Delete, Read) occurs. Each plan can fail, be deferred, or be complete.
- **Lexer.**
  - Four runes are enough for every nesting the lexer handles: `${"${`, escapes, and `}` in a string.
  - The wide-rune run uses two runes over `$ a é`.
  - `LexCall` is bounded at one call per byte plus two. A lexer that consumes input reaches EOF within one call per byte plus one, so the extra call makes non-progress visible as a violation.
- **Parameter group.** Two parameter names and two values. This is enough to add a parameter, change its value and remove it while another is kept. The configuration ranges over all 9 parameter sets.
- **Lambda.** Two configurations, two zip contents and one S3 object. This is enough for a configuration change, a file edit, an out-of-band code change back to the same or another content, and a switch between the two code sources.
- **GitHub.** Three team ids and the DNs `""` and `dn`. The team ids are symmetric.

### Fairness

`StackPlan` and `StackApply` assume weak fairness of each plan and apply step. Each runs in its own goroutine and blocks only on promises. `PlanningTerminates` and `ApplyTerminates` say that under this fairness the waits never form a cycle.

The resource models (`GithubTeam`, `DbParamGroup`, `LambdaFunction`) assume no fairness. Their properties are safety properties, and an operator may stop running Terraform at any point.

`CHECK_DEADLOCK FALSE` is set only where the system legitimately stops:
- planning and applying are finished;
- the lexer has returned EOF;
- the lexer has panicked.

The lexer's termination is stated as a bound on the number of calls, so it is a safety property.

### Mutants

Every property of every passing run is broken by a plausible bug in the code it is about (see `PROJECT.json`). Examples:
- a required-components loop that looks only at its first element;
- a skipped apply reported as complete;
- `ResultValue` without the Delete shortcut, which deadlocks;
- a byte-wise `backup`;
- a `}` that does not leave interpolation mode;
- a nil-pointer LDAP DN;
- a Create that never maps LDAP;
- a parameter hash on the name only;
- parameters described from every source;
- an Update without the read-back;
- a Lambda refresh that keeps the saved configuration;
- an Update that sends the zip only when the file's hash changed;
- a desired code that names the source instead of its content.

## Findings

1. **Removed-block deferral depends on map order** (`component_instance.go:253`). In normal mode the loop over prior dependents breaks at the first dependent that is not a `removed` block. A removed dependent whose plan failed or was deferred is then never examined, and the component's plan is complete.
2. **The same in destroy mode** (`component_instance.go:208`). The loop breaks at the first dependent that is not a configured component. A later dependent whose plan failed is then not waited for.
3. **Lexer non-progress** (`lex.go:160`, also `:140`). An interpolation holding a rune that starts no token outside a string (`$`, `{`, `\`) makes `Lex` return empty identifiers without consuming input. `${"}` does the same with empty strings. Whether the parser then spins depends on the grammar, which is not under `src/`.
4. **`backup` after `peek`** (`lex.go:97`). `lexModeLiteral` backs up the `$` with the width of the peeked rune:
   - before a wide rune it moves before the input, and `$é` panics;
   - at EOF the width is 0, so the `$` is not put back, and `$` lexes to an empty string.

   `HilRunes_proofs` proves the mechanism for every input (see Proofs).
5. **Orphaned GitHub teams** (`resource_github_team.go:64`, `:78`, `:93`). A team is lost from state in two ways:
   - Create returns the LDAP error before `SetId`;
   - any GetTeam error in Read clears the id.

   The next create then fails on the taken name.
6. **Parameter group never converges** (`resource_aws_db_cluster_parameter_group.go:193`). Update sends only `ns.Difference(os)`. A parameter removed from the configuration, or set outside Terraform, keeps its value in RDS. The read-back puts it into the state again, so every plan shows the same change.
7. **Refresh fails forever after an out-of-band delete** (`resource_aws_db_cluster_parameter_group.go:121`). Read returns the Describe error instead of clearing the id. Refresh then fails on every run, so the resource can be neither re-created nor removed.

8. **Orphaned Lambda functions** (`resource_aws_lambda_function.go:222`). `CreateFunction` runs in a one-minute retry loop, and `Create` returns its error before `d.SetId`. A function AWS created whose reply was lost, or whose retry then fails on the existing name, is not in the state. The specification says a failed create keeps track of a half-created resource; the next apply fails on the taken name.

Also seen while modelling, without a run of its own: `Read` always hashes `d.Get("filename")` (`:270`), which is empty for an S3 code source. Every create from S3 therefore ends in an error and a tainted resource, and every refresh fails, so an S3-sourced function can be neither updated nor destroyed. In the model no S3-sourced state reaches `Update` or `Delete`.

The parameter group has the orphan of finding 8 too (`resource_aws_db_cluster_parameter_group.go:97`): a `CreateDBClusterParameterGroup` call that created the group but returned an error makes `Create` return before `SetId` (`:107`). `DbParamGroup.Create` has this branch, and TLC finds `exists => tracked` violated in two steps; no run states it, as the run budget is spent and the mechanism is the one of `lambda_orphan`.

## Proofs

`StackPlan_proofs` proves two theorems for every set of components, dependency structure and planning mode:
- `TypeCorrect`: `Spec => []TypeOK`;
- `RequiredMonotone`: `Spec => []RequiredDeferralMonotone`.

They rest only on `ConstAssumption`: the components and removed blocks are disjoint, and the dependency maps are typed. `RequiredDeferralMonotone` is not inductive by itself, so the proof uses the inductive invariant:

`IInv == TypeOK /\ NotPlannedIncomplete /\ RequiredDeferralMonotone`

The argument:

1. `NotPlannedIncomplete` says that a node not planned has `complete = FALSE`. With it, a step that plans node n can only change n's status and completeness (`PlanOutcomeFrame`). So the premise of monotonicity for every other component is unchanged.
2. For n itself, a complete plan needs `deferred = FALSE`. By `RequiredScanNotDeferred`, the only scan outcome `FALSE` arises when every required component's plan is already complete.
3. A plan that is complete is never planned again. So what a component required stays complete afterwards.

`DbParamGroup_proofs` proves, for every set of parameter names and values (assuming only that `Default` is not a value):
- `TypeCorrect`: `Spec => []DbTypeOK`. Its lemmas show that `UserParams` yields a parameter set with one value per name, and that `Modify` keeps the group's values in their type.
- `DriftVisible`: `Spec => []StateMatchesRemote`. `UpdateBodyOk` shows that Update's body reports success only through the read-back of an existing group. Every other step either sets the outcome to something other than `ok` or clears the id. The inductive invariant is `DbTypeOK /\ StateMatchesRemote`.
- `ParamsApplied`: `Spec => ConfiguredParamsApplied`, an action property. Update sends only `Difference(cfg.params, os)`, so the argument is about the parameters it does not send:
  - `ModifyApplies`: `Modify` gives each sent parameter its value and leaves the others; this uses the one-value-per-name shape of `ParamSets`.
  - `DifferenceOmits`: a configured parameter that is not sent is in the saved set, because the set hash is the whole element.
  - `UserParamsValue`: a parameter in the saved set, when that set equals the group's user parameters (the property's hypothesis), already has its value in the group.
  - `UpdateBodyApplies` combines the three. For Create the saved set is empty, so every parameter is sent.

  The hypothesis cannot be dropped: from a stale state the unsent parameters need not match, which is the hazard at `:193`.

`LambdaFunction_proofs` proves, for every set of configurations, zip contents and S3 objects (assuming only `LambdaAssumption`: contents and objects are disjoint, `None` is no content, and `"file"` no object):
- `TypeCorrect`: `Spec => []LambdaTypeOK`. `ReadBackType` types the read-back that ends Create and Update.
- `NoDrift`: `Spec => []NoSilentDrift`. The invariant is not inductive by itself: whether a refresh leaves nothing to plan depends on what it read. The inductive invariant adds:

  `RefreshedAccurate == outcome = "refreshed" => exists /\ tracked /\ stCode = "file" /\ stConf = remoteConf /\ stHash = file /\ stUpdate = (remoteCode # file)`

  Every action sets `outcome`, and only a successful Read sets it to `"refreshed"`, so the state at that point is exactly what Read read (`RefreshedStep`). From it, an empty plan (`~Planned`) means the source is the zip, the configuration is the one configured, and `update_code` is false, so the code equals the zip.
- `Applied`: `Spec => ConfiguredApplied`, an action property. A Create that reports success had a zip source (`ReadBackOk`), and it created the function with the zip and the configuration. An Update runs only while `fresh` holds, and the inductive invariant adds what the refresh left for it:

  `FreshZip == fresh => tracked /\ stCode = "file" /\ stHash \in Contents`

  Only a successful Read sets `fresh`, and the steps that keep it (out-of-band changes, a rebuilt zip, a configuration edit) touch neither the code source nor `source_code_hash` (`FreshStep`). So `source_code_hash` is set and the current zip is sent (`ZipSent`, `UpdateOk`), whatever the file holds now. A configuration that was not sent equalled the saved one, which by the property's hypothesis is the function's. The hypothesis cannot be dropped: a configuration changed on AWS after the refresh is not sent, and TLC finds the unconditional form false in five steps. With `ZipSent` weakened to "hash changed" TLC finds the property itself false.

`GithubTeam_proofs` proves:
- `TypeCorrect`: `Spec => []TeamTypeOK`;
- `RefreshedApplyMatches`: `Spec => []AppliedMatchesConfig`.

`AppliedMatchesConfig` is not inductive by itself. An Update that finds `ldap_dn` unchanged reads back GitHub's mapping, and this is correct only because the preceding refresh recorded that mapping. The inductive invariant therefore adds:

`FreshInv == fresh /\ stateId # NoId => stateLdap = teamLdap[stateId]`

Only a refresh sets `fresh`, and it reads the mapping. Out-of-band deletes and configuration changes leave both sides of `FreshInv` alone. The framework refreshes before every apply, and the model's guards (`Planned`) say so. With `-refresh=false` the argument fails: after a failed mapping call the state already holds the new DN, so an Update skips the mapping and reports success. That case is listed as a hazard and is not modelled.

`StackApply_proofs` proves, for every stack and planning mode:
- `ApplyTypeCorrect`: `Spec2 => []ApplyTypeOK`.
- `CreateOrdering`: `Spec2 => CreateAfterRequired`. The inductive invariant is:

  `ApplyIInv == ApplyTypeOK /\ ActionsPlanned /\ DoneIsPlanned /\ OkExists`

  - `ActionsPlanned`: a planned node carries the action `PlanChanges` picks for the mode.
  - `DoneIsPlanned`: only planned nodes are applied.
  - `OkExists`: a Create or Update that applied successfully leaves its objects.

  The argument:
  1. Objects appear only in the node's own apply. Under a Read or a Delete they never appear (`ApplyExistence`), so the action is a Create or an Update.
  2. That happens only in normal mode, where every required component is planned as a Create or an Update too (`PlannedActions`).
  3. The apply was not skipped, so every required component applied successfully. By `OkExists`, its objects exist.

  While writing this proof, `PlannedAction` changed from an overlapping `CASE` to an `IF` chain. An overlapping `CASE` leaves the arm unspecified in the logic. The `IF` chain has the precedence of the Go `switch`.

`HilRunes_proofs` proves, for every input `b` (a sequence of bytes) and every value `L` of the lexer's fields:
- `BackupAfterPeek`: from any offset not before the start, `next`, `peek`, `backup` (what `lexModeLiteral` does at `lex.go:83-97`) leaves the offset at `L.pos + w1 - w2`. Here `w1` is the width of the rune read and `w2` the width `next` records for the peeked rune: 0 at the end, 2 for a wide rune. `backup` is correct only when `w1 = w2`.
- `DollarWidePanics`: for every input starting with `$` and a two-byte rune, the offset becomes -1 and the next `next` panics. This is finding 4 for every such input, not only for `$é`.
- `LastRuneLost`: when the rune read is the input's last and is one byte long, the offset ends at the end of the input, so that rune is never lexed.
- `OneByteBackupSafe`: on inputs of one-byte runes the offset stays within the input and moves forward by 0 or 1. This is the step of the argument for `LexTypeOK` that concerns `backup`.

The lemmas under them describe each case of `next`: before the start (`NextBeforeStart`: panic, width 0), at or past the end (`NextAtEnd`: width 0), and inside the input (`NextInside`: advance by `RuneWidthAt`). `NextThenBackup` and `PeekKeepsPos` follow: `backup` right after `next` returns to the offset, and `peek` keeps it.

Every invariant and action property of the passing runs is proved except the following, which are only model-checked:
- **Liveness** (`PlanningTerminates`, `ApplyTerminates`). TLAPS does not handle `ENABLED` or fairness.
- **The lexer** (`LexTypeOK`, `ModeDepthConsistent`). A `Lex` call runs a loop of `next`/`backup` steps over the input, as mutually `RECURSIVE` operators. An invariant of a whole call therefore needs induction over the input, which the provers cannot do (the library's induction theorems take an operator parameter). Also, any module that reaches a `RECURSIVE` operator loses the SMT backend. What is proved is the single step those loops repeat, in `HilRunes_proofs`. Whole calls stay with TLC.
- **The planning removal properties.** `RemovalDeferral` is violated by the code, so there is nothing to prove.

## Not modelled

- **In the Lambda model:** `update_code` set to true in the configuration (it is Optional; the model keeps its default false), `vpc_config`, the ARN and the individual configuration attributes.
- **In the parameter group model:** tag values (tags that fail to list are saved as empty) and the `apply_method` meta-parameter.
- **Single-reply conversions** (InfluxDB read, Circonus URL parsing). They are listed as hazards.
- **Pure I/O, generated code and test helpers** (saved plan bookmark, `state list`, factory lookup, ACM client, mock registry, tests).
- **In the stack model:**
  - the plan-phase and inspect-phase `ResultValue`;
  - diagnostics;
  - provider configuration;
  - instances collapsed per component: the code's `PlanIsComplete` is a conjunction over the instances.
