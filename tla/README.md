# Verification of depose

depose records what a coding agent did (tool calls captured by hooks, kernel
execs, session logs), merges it into one timeline, seals it into a signed and
dated bundle, and lets a third party verify the bundle with a separate Go
program. This directory holds TLA+ models of its core, the TLC configurations
that check them on small instances, and proofs checked by TLAPS.

Paths below are relative to the repository; `PROJECT.json` maps every modelling
definition to the lines it translates.

Run `tlc -config <cfg> <module>` for a run and `tlapm <module>` for a proof
module; `PROJECT.json` lists which cfg belongs to which module.

## 1. Inventory

| Component | State it keeps | Operations | What is hard |
| --- | --- | --- | --- |
| Capture hooks (`packages/capture-claude`) | `~/.depose/captures/*.json`, `pending/*.json` | pre hook, post hook, failure record | separate processes per call, several calls in flight, no lock, killed hooks, markers keyed by input |
| Merge: intents and effects (`packages/core/src/normalize/merge-intent-effect.ts`) | one timeline in memory | link, correlate, file gaps, walk file states | broken stores, two orders (time and id), guesses taking what belongs to another |
| Merge: correlation and kernel execs (`merge-correlate.ts`, `merge-kernel.ts`) | one timeline | link results and intents to captures, execs to intents | windows, scores, shared candidates |
| Capture scope and pruning (`capture-scope.ts`, `cli/commands/captures.ts`) | the store | decide which records are a session's, delete old ones | halves of a pair treated apart |
| Seal: commitments, chain, tree (`packages/chain`, `events/commitments.ts`, `writer-seal.ts`) | events.jsonl, commitments, the manifest's roots | commit, chain, root, prove | producer and verifier computing the same thing twice, proofs in trees of every shape |
| Disclosure (`bundle/src/disclosure.ts`, `cli/commands/disclose.ts`) | a disclosure directory | disclose a selection, prove consistency with an earlier disclosure | five writes over what an earlier disclosure left, refusals part-way, a source damaged since it was sealed |
| Bundle writer (`packages/bundle/src/writer*.ts`) | the bundle directory | write content, files map, sign, date, write manifest | writes over an earlier bundle, deaths and refusals part-way |
| Anchor (`packages/bundle/src/anchor.ts`, `cli/commands/anchor.ts`) | anchor.json, anchor-N.tsr, the label | date a sealed bundle later | three writes, retries, force, overlap, rotated key |
| Timestamping (`packages/chain/src/timestamp-rfc3161.ts`, `rfc3161-*.ts`, `apps/verify/timestamp`) | one round: endpoints in order, nonce, failures, tokens kept | a round of authorities, three tries each; validate an answer | timeouts and cut-off answers, replayed tokens, a nonce in several encodings |
| Keys (`packages/chain/src/sign-ed25519.ts`, `key-catalog.ts`, `cli/commands/key.ts`) | key files, archive/, catalog.json | load or generate, sign, rotate, revoke, seed, show | read-modify-write without locks, five-step rotation |
| Verifier (`apps/verify`) | none | checks over a directory | must accept every honest bundle and only those |
| Kernel collector (`apps/collect-execve`) | capture store | per exec: read /proc, keep what is in the agent's tree | /proc races the process, ring buffer overflow |
| Capture shim (`apps/capture-shim`) | capture store | find the program in PATH, record, become it | finding itself, links and programs that move meanwhile |
| Reconstruction (`packages/core/src/reconstruct`) | none | tree over parent links, destructive rules | gaps that sort away from their event; shell parsing |
| Adapters (`packages/core/src/normalize`: Claude Code, Codex, shell histories, reflog) | none | parse lines to events | two grammars each, torn lines, calls and answers paired by id |
| Install and uninstall (`cli/commands/install*.ts`) | settings.json, its backups, the shim and its links | install, uninstall, for the agent and for the shell | a dozen file operations over the user's own files, deaths, edits in between |
| Narrative, exports, command line | none | render, print | |

How they interact: the agent starts a pre hook before and a post hook after
every tool; hooks of different calls meet only in the store and in `pending/`.
`depose package` reads the store and the session log, merges, seals and writes
the bundle directory named after the session, using the key directory and an
authority. `depose anchor` reads that directory and the key directory and adds
to it. `depose-verify` reads it. The shim stands in PATH under the names of
other programs, where `depose install` linked it, and writes to the same store
as the hooks and the kernel collector; packaging reads log, history, reflog and
store one after the other while all of these go on.

What makes each correct: a signed link from an effect to an intent is its own
call's; what was lost is disclosed by a gap; a bundle the producer reports as
written verifies; anchoring never disturbs the seal; a key that has signed is
kept, and revocable unless its cataloguing failed; the verifier asks for nothing an honest
producer does not write; what was read is in the timeline, each result, capture
and exec linked or disclosed; a token kept is one the verifier takes; installing
costs the user nothing, and a command run through the shim is the command.

## 2. Modules

| Module | What it is | Code |
| --- | --- | --- |
| `CaptureHooks` | the two hooks of every call, one file operation or clock reading a step | `packages/capture-claude/src` |
| `IntentEffect` | the merge's pass and the verifier's two checks, as operators on the same records | `merge-intent-effect.ts`, `check_intent_effect.go` |
| `BindPass` | the pass as a state machine over any timeline | `merge-intent-effect.ts` |
| `CaptureSession` | composes `CaptureHooks` with `IntentEffect`: the bundle built at any moment of a session, and the verdict on it | `capture-events.ts`, `merge.ts` |
| `CaptureSessionProofs` | the invariants of hooks, markers, ids and times, what the pass makes of any effects, the invariant of the pass over any timeline, and the theorems about the three modules | |
| `SealedBundle` | the bundle directory, packaging, anchoring, and the verifier's directory checks | `packages/bundle`, `cli/commands/anchor.ts`, `apps/verify/cmd` |
| `KeyStore` | the key directory under every command that touches it | `sign-ed25519.ts`, `key-catalog.ts`, `cli/commands/key.ts` |
| `ExecveCollector` | the kernel probe, its ring buffer and the collector, in a tree of processes that fork, exec, exit and reuse pids | `apps/collect-execve` |
| `ExecveCollectorProofs` | the invariants of processes, walks and records, and their theorems | |
| `MerkleChain` | the hash chain, the tree, and its inclusion and consistency proofs, as functions | `hash-chain.ts`, `merkle.ts`, `merkle.go`, `replay.go` |
| `Disclosure` | seals of a growing session, the disclosures drawn from them file by file, and the verifier's checks of both | `writer-seal.ts`, `disclosure.ts`, `check_chain.go`, `check_merkle.go`, `check_disclosure.go`, `verify_disclosure.go` |
| `DisclosureProofs` | what roots, audit paths and chain hashes bind, the invariant of the builds, and the theorems about both modules | |
| `TsaRound` | what a round of authorities promises, the abstract specification | doc comment and result of `tryTimestamps` |
| `TsaClient` | the round itself: endpoints, attempts, answers, nonces, validation, and the verifier's check of a token; implements `TsaRound` | `timestamp-rfc3161.ts`, `rfc3161-*.ts`, `apps/verify/timestamp` |
| `TsaClientProofs` | the proof of that refinement, and theorems about tokens and nonces | |
| `SessionEvents` | the event every source is turned into, and the order of time | `claude-code-build-event.ts`, `merge-support.ts` |
| `ClaudeLog`, `CodexLog`, `Histories` | the adapters, as operators from lines to events | `normalize/claude-code*.ts`, `codex*.ts`, `shell-history*.ts`, `git-reflog.ts` |
| `CaptureScope` | which records are a session's, and the events they become | `capture-scope.ts`, `capture-events.ts`, `capture.ts` |
| `MergeTimeline` | the merge of all events and the tree shown of it | `merge.ts`, `merge-correlate.ts`, `merge-kernel.ts`, `timeline.ts` |
| `Pipeline` | composes the five above: files being written and pruned while `loadAndMergeEvents` reads them | `cli/src/pipeline.ts`, `cli/commands/captures.ts` |
| `PipelineProofs` | what sorting, deduplication, the adapters and the correlation do to events, the invariant of reading and merging, and the theorems about the timeline | |
| `Installation` | install and uninstall of both kinds, one file operation a step | `cli/commands/install*.ts` |
| `CaptureShim` | extends it with commands run through the shim | `apps/capture-shim` |
| `CaptureShimProofs` | invariants of links, hooks and the command being run, and their theorems | |
| `SealedBundleProofs` | the invariants of the bundle directory, and their theorems | |
| `KeyStoreProofs` | the inductive invariant of the key directory, and its theorems | |
| `MC*` | small instances for TLC | |

A definition whose comment begins with "Mutated form of" or "Faulty:" is a
plausible bug. It is used by no specification: it shows which mistake a property would catch.

### CaptureHooks

State: `marker` is `pending/`, by input hash, each marker with the inode it was
written through, its content (the call it names, or `Torn` between the
truncating open and the write) and its age; `intentRec` and `effectRec` are the
records in the store, by call; `local` is a running hook's memory; `fs` the
files the tools change; `failed` the failure records; `clock` the wall clock.
`pc` says where each call is; its values follow the code of `runHook`,
`capture`, `writePendingIntent`, `handlePostToolUse` and `takePendingIntent`
statement by statement. `PreThrow`, `PreKill`, `MarkerLost`, `PostThrow` and
`PostKill` are the error paths: the hook's own catch, a death, and the swallowed
error of a marker that cannot be written. A write in the store is one step
(ULID-named files are written once and read later only); a marker is two,
because a reader can meet it truncated, and its inode matters, because a post
hook may unlink the file a pre hook still has open. The sweep before it is a
listing (`PreList`, with its cutoff), a look at each name (`PreStat`) and an
unlink (`PreSweep`), each a step; what it has yet to deal with is `old` and
`doomed` in the hook's memory, and only old markers are listed there, since a
fresh one cannot fall behind a cutoff taken already. A hook that throws over its
input, before it knows the call, leaves a failure record that names none
(`NoCall`).

Left out: what records hold besides their input hash, file hashes, times and
link; a marker is torn only between open and write, never for good (a death
there leaves `Torn`). No two readings of the clock coincide: ids drawn in one
millisecond are in random order, which the interleaving of readings already
gives.

### IntentEffect and BindPass

A record carries its id, time, input hash, files and link; ids and times are
numbers because only order and distance are used. `Bind` applies `BindOne` to
the effects in time order, as a recursive function over the sets of effects that
have had their turn (`Latest` is the last of them); `LastPost` and `Broken` are the file walk, taken in
time order by the merge (`ContinuityGaps`) and in id order by the verifier
(`UndisclosedChanges`). `BindPass` gives the loop as steps, so that invariants
and action properties can speak of the middle of the pass.

### SealedBundle

`disk` maps path to content. A content file is known by the packaging run that
wrote it, since salts and `producedAt` make the runs' bytes differ. The
manifest is a record with the run (`seal`), the key, the pinned files, tokens
and label; a token is the seal it commits to and an id. `PackageStart` ..
`PackageToken` are `handlePackage` and `writeBundle` in order; `AnchorStart` ..
`AnchorLabel` are `handleAnchor` and `anchorBundle`. A round of authorities is
one step that answers or not (`Answer`, `NoAnswer`); `TsaClient` is that step
in detail. `Crash` ends a command
anywhere and, with `Tearing`, may leave the file being written cut off.
`Verifies` is the conjunction of the verifier's checks on the directory. A
packaging run may overtake anchors that are at work; two packaging runs at once
are left out. Only signed bundles are modelled; one token stands for several.

### KeyStore

A pair is a number, the same for both halves and for the fingerprint. Every
file operation of `loadOrGenerateKeyPair`, `handleKeyRotate`, `handleKeyRevoke`
and `handleKeyCatalog` is a step; what a command read stays in `proc[p]` until
it writes it back. A torn catalog is modelled, a torn key file is not.
`ensureCatalogued` swallows its errors: `CatalogueFails` goes on with a key that
is in no catalog, where the catalog could not be read or saved. `listed` is a
history variable, in a command's memory and in what it signed: the command saw its
key in the catalog or saved it there.

### ExecveCollector

`parent` and `image` are what /proc shows: the parent of every pid, and the
exec whose program it runs. Execs are numbered as they happen. `ring` is the
ring buffer, `dropped` the execs that found it full, `col` the collector with
the exec in hand and the chain walked so far. The ancestors of a process are the
pids in every set that holds its parent and is closed under parents (`Climbs`,
`Ancestors`, `InReach`); every turn of the walk in `Ancestry` and the
reading of the command line are steps of their own, between which processes
move on. `GivesUp` is `main`'s handling of an error, `Stop` and `Leave` the
signal and the loop's way out. `steady` is a history variable: the execs whose
process and ancestors have not changed since. A record is written in one step
(a file of its own name).

### MerkleChain and Disclosure

A hash is the term it was computed from, so two hashes are equal exactly when
their inputs are; nothing else is assumed of SHA-256. The tree, the audit path
and the consistency proof are functions on intervals, as the code recurses;
checking a proof is a fold over its elements. The TypeScript and the Go
versions of both are the same algorithm statement by statement, and `map` names
lines of either.

`seals` are the manifests made so far, each with its number of events and its
seed. Ids a capture minted and field values are the same in every seal of the
session; ids minted by the merge and salts depend on the seed, which is fresh
unless the fixed seed is used (seed 0): two seals under it share a prefix, two
others need not. Every bundle is signed and has its fields committed.
`lines[s]` is events.jsonl of seal `s`: which event each line is and whether a
value on it was damaged. A file of a disclosure directory is known by the build
that wrote it, and the content the checks read (`Document`, `DisclosedLines`,
`SelectOpenings`) follows from that, so files of several builds can stand side
by side. `Start` is everything `buildDisclosure` reads and refuses before its
first write; each write after it is a step, `RefuseFile` is the throw in the
middle, `Die` a death between two writes. Sealing is taken before all
disclosures: it writes to a directory of its own and reads none of theirs.
`VerifyBundle` and `VerifyDisclosure` are the verifier's checks, `Consistent`
is `depose-verify consistency` of two directories that verify.

Left out: which dates, narrative and text the documents carry; several
attestation files copied one by one (one step copies them all); a write cut off
in the middle; damage while a disclosure is being made; lines without a chain
hash; unsigned bundles; the parsing of selections.

### TsaRound and TsaClient

One call of `tryTimestamps` draws a nonce, sends one query to each endpoint in
the order of the round and up to `Attempts` times, and keeps the token that
passes `validateTsr`. A step of `Settles` is one way an exchange can end: an
error or the idle timeout, a refusal, an answer (any token ever signed, for this
query or another, with the nonce in minimal or padded DER, or without one), or
an answer cut off, after which the code neither resolves nor rejects (`pc` is
"hung"). `Proceeds` is the loop between exchanges. A digest is known by its
document and all signatures are good; authorities cannot sign for each other.
`TsaRound` knows only failures, answers and the end of the round; the mapping
takes `answered` to the endpoints of the kept tokens and `over` to `pc = "done"`.

### The pipeline

`Pipeline` writes log lines, history and reflog lines, records and failure
records, lets time pass and prunes; `pc` follows `loadAndMergeEvents` through
log, siblings, the listing of the store and the reading of its files one by
one, then the sidecar, then `MergeEvents`. An id is the place an event came
from, so the ids of a run are all different unless the code reuses one.
Correlation works on positions of the sorted timeline; a link is a pair of
them. What events say, except for commands, paths and times, is left out; so are, in
this composition, the hashes of files and the gaps about them
(`fileContinuityGaps`), which `CaptureSession` has. Every time is a number: a log
line carries a time that parses. Where the first or last event of the session
does not (`claude-code.ts:126` keeps the string as it stands), `resolveWindow`
returns null (`capture-scope.ts:195`), and `--include-unscoped-captures` then
takes every record without a session id, whatever its time (line 231);
`InWindow` has no such case.

The loops of the code that carry something from line to line (`NormalizeNext`,
`CodexNext`, `BashNext`, `ReadFailure`) are recursive functions over the lines
read so far; an entry of fish's history is read from the lines up to the next
one (`FishEntry`), and an empty one is dropped with its date. Sorting counts, for each event, those that precede it
(`SortByTime`), which is what a stable sort comes to; `InOrder` lists the members
of a set of places. Written so, they can be reasoned about.

### Installation and CaptureShim

`settings` is settings.json as absent, torn, or the two lists of hook entries;
`backups` what was saved of it; `bin` what stands under each allowlisted name;
`shim` the copied binary. `cmd.pc` follows the four commands file operation by
file operation, and `Die` may stop them after each, leaving a file being written
cut off. An unlink may be refused (`Fault` counts it with the deaths): the code
passes it over and removes the shim all the same, and `stuck`, a history
variable, holds the names the last uninstall left so. `promised` is a history
variable: the user's hooks at the start of an install, or as the user last saved
them; nothing once an uninstall starts, which makes no backup, or when the user
saves over a command that is about to write. In `CaptureShim` a run of the shim
walks PATH one directory a step, records, and execs, while `ProgramsChange`
moves a program; `behind` is the program found at the start with depose's
directory taken out, `steady` that none moved meanwhile.

## 3. Runs

Passing runs:

| Run | Question | Bounds |
| --- | --- | --- |
| `bind_pass` | Is pairing right on every store, however broken? | every timeline of up to four records over three times, with a hooked input and the shim's unhashed intents: enough for two effects to compete for two intents with recorded, dangling, double and missing links |
| `session_sequential` | Are the records of calls made one at a time paired right, what was lost disclosed, and no file check failed, with a fault anywhere? | three calls on one file, one fault: the third call sees what the first two left |
| `session_overlap` | And with two calls in flight? Does the bundle pass the intent check, does every signed link name its own call, does a call in flight keep its marker, and a taken marker stay gone? | two calls, own inputs, two faults, markers that expire |
| `bundle_life` | Does a bundle at rest verify through anchoring, forcing, refusals and a rotated key; can a mixture of two runs verify; can anchoring, even twice at once, touch the seal it was started over; is the bundle dated in the end? | two packaging runs and two processes over one directory, two keys, two tokens, one fault (a death, even inside a write, or one packaging run that overtakes an anchor at work), raw files in one run and not in the other, authorities silent any finite number of times |
| `keys_crash` | Do signing keys stay matched, kept and, once catalogued, revocable? | every command one at a time, four pairs, one death, torn catalog, cataloguing that fails any number of times |
| `execs_recorded` | Are the execs of the agent's tree recorded, and only those, while /proc changes under the collector? | the agent and two forks (a grandchild, a child of init, or one pid twice), two execs, a ring of one, one fault |
| `disclosures` | Are proofs exact in trees of every shape, does damage show, and does a directory several disclosures wrote into say nothing that was not sealed, or not selected? | two seals of 2, 3, 5 or 7 events (trees with lone nodes on one and two levels), disclosures drawn from seals of 2 and 3, two of them over two directories, one dated seal and one not, one death or damaged line |
| `tsa_rounds` | Does the round implement its promise and end, are the kept tokens good and of this round, is an honest one ever turned away? | two authorities, three attempts, two rounds over one of two documents, every order of endpoints; two-byte nonces that need a sign byte, start with a zero, or both need and lose nothing |
| `timelines` | Is everything read in the timeline, scoped and counted, linked or disclosed, and each gap under its event? | three lines or records in all, of either agent and every kind; one jump of the clock to either edge of the correlation window (5), the slack of kernel execs (1) and the session's margin (2) or past them; one record pruned or added between the listing and the reading |
| `shell_capture` | Does a command run through the shim end in its program, do links ever dangle, does an install lose a hook? | two names, PATH with a directory before and one behind the shim's, two installs or uninstalls, one edit, one death or refused unlink, one run, one program that moves |

Runs that find a disagreement (each checks what a comment, a message or a
document says, and TLC shows the code doing otherwise; `PROJECT.json` quotes the
line):

| Run | What happens |
| --- | --- |
| `two_orders` | overlapping calls on one file: time order and id order differ, and the honest bundle fails file-continuity |
| `shim_by_name` | a shell passes the bare name as argv[0]; the shim takes the working directory for its own and becomes itself, for ever |

`ContinuityAccepts` appears on both sides on purpose: it holds with one call at
a time and fails with two.

### Other disagreements

Those about packaging, anchoring, keys, capture, the collector and disclosure
were seen with the same models, each by a short counterexample, when the
property named by the document was stated; the others while translating the
code. No run keeps them.

Packaging, anchoring and keys:

- Packaging a dated bundle again, with no authority answering, leaves the old
  token file (`writer.ts:217`), and the verifier fails the new bundle for a file
  the manifest does not name (`check_files.go:169`).
- A command that read the catalog before a revocation writes it back without it
  (`key.ts:130`); "revocation wins" (`key-catalog.ts:138`,
  `docs/key-management.md:226`) holds for commands that do not overlap.
- An anchor that waits for an authority while the session is packaged again
  writes the manifest of the earlier seal over the new one
  (`cli/commands/anchor.ts:53,66`, against its lines 6-7 and D20 in
  `docs/decisions.md`); `SealUntouched` excepts it.
- Two overlapping anchors can leave the token of one and the document of the
  other, where both finish or the one that wrote the token last dies. Nothing need
  be forced. Running again then says "Already anchored" and leaves the bundle
  failing verification until it is forced (`anchor.ts:119-122`, against
  `anchor.ts:133`, "run depose anchor again"); `RestingBundleVerifies` excepts the
  first (`Mismatched`), `RetryDates` both (`TokenUnclaimed`).
- `--require-anchor` refused: "no bundle was produced" is reported after the
  content of an earlier bundle was overwritten (`writer-attest.ts:75`).
- Packaging over an anchored bundle pins `attestations/anchor.json`, which the
  verifier refuses (`files-map.ts:38`, against `docs/bundle-format.md:721`).
- Raw records of an earlier run of the directory are pinned again
  (`writer-sources.ts:53`, against its line 40).
- `--force` replaces the anchor it should add to (`anchor.ts:139`, against
  `anchor.ts:97`).
- A death between anchor.json and the manifest leaves the label pending, and
  running again does not mend it (`cli/commands/anchor.ts:65`).
- Two first runs leave halves of different pairs (`sign-ed25519.ts:124`); so do
  two deaths, one in a rotation and one while the next pair is generated, which
  is why `keys_crash` allows one.
- A rotation that died leaves its old key active for good (`key.ts:130`).
- A revoked current key signs (`sign-ed25519.ts:208`, against
  `docs/key-management.md:170`).

Capture and merge:

- A post hook that never writes: `bindIntentAndEffect` returns before it files a
  gap (`merge-intent-effect.ts:71`); `docs/hook-installation.md:7` says every
  call is then reported as a gap.
- A lost marker: the guess may take the intent of a later identical call, whose
  own effect then closes it again, and the verifier fails the bundle
  (`merge-intent-effect.ts:119`; `pending.ts:55` says it costs the link only).
- A stale marker: an effect signs a link to an earlier identical call whose post
  hook never ran (`pending.ts:86`; `pending.ts:8` says such a marker is swept).
- Identical calls in flight share one marker (`pending.ts:117`, against
  `pending.ts:7`).
- A sweep looks at a marker's age and unlinks by name (`pending.ts:127`): a stale
  marker that a call of the same input writes again in between is unlinked fresh,
  and that call's effect goes without its link. With inputs all different the
  name has no second writer (`DistinctInputsKeepMarkers`).

Kernel collector and disclosure:

- An exec whose process is gone before the walk has no ancestry and is not
  recorded (`collector.go:91`, against the comment in `procfs.go:8-10`); a pid
  given out again can put an outsider's exec below the agent, which is why
  `RecordedWasDescendant` is about pids given out once.
- A full ring drops execs with no record of it (`probe_linux.go:109`), and a
  collector that is stopped leaves no `capture_failed` record.
- Disclosing again into one directory leaves a file an earlier disclosure
  carried, so the directory holds what `includedFiles` does not list
  (`disclosure.ts:139-149`, against its line 33), and a token or file of another
  seal makes the new disclosure fail verification.
- A full bundle's placeholder without an opening passes when commitments.json
  exists: `openAll` is called with `requireAll = !present`
  (`check_merkle.go:58`), while `check_merkle.go:47` says every placeholder must
  have an opening in a full bundle.
- The incomplete-bundle check looks for signatures.json in the output
  directory (`disclosure.ts:141`), where an earlier disclosure may have left
  one; its message speaks of the bundle.

Timestamping:

- The nonce is written with its leading zeros (`rfc3161-request.ts:39-50`), one
  time in 512 not minimal DER, which `rfc3161-tstinfo.ts:118` says DER requires;
  it is the same for every authority and attempt of the round, so authorities
  that refuse it refuse it every time. `HonestTokenKept` shows that a token
  echoing either form is kept.
- An answer cut off in its body is waited for without end, against
  `timestamp-rfc3161.ts:141-145`, which promises a report of who failed.
- `timestamp-rfc3161.ts:10-12` says the bundle is not produced when both
  authorities fail; it is sealed with its date pending.

Adapters and pipeline:

- A user line of a current Claude log whose `message.content` is a string is
  read by the flat grammar, which finds no text in it
  (`claude-code-flat.ts:37,51`); a line that is the JSON `null` throws outside
  the `try` (`claude-code.ts:126`).
- A torn Codex line is a warning and no gap (`codex.ts:20-23` speaks of a gap);
  a Codex command given as an array gives the merge no argv to score, and its
  working directory is never read. In fish's format only the first stage of a
  command is kept.
- A capture that recorded no working directory counts as related to every path
  (`merge-correlate.ts:192-200`); the overlap of argv never helps a hook's own
  capture, whose argv is `bash -c <line>` (`hook-input.ts:81`, against
  `merge-correlate.ts:1-4`).
- A log whose first or last time does not parse has no window at all: with
  `--include-unscoped-captures` it takes every record without a session id
  (`capture-scope.ts:193-195,231`). Outside what the model's lines can be.
- When the log names no session, `--include-unscoped-captures` takes the records
  of every session, whatever their time (`capture-scope.ts:39-44,223-226`).
- An execve record without a usable time is read as a command (`capture.ts`).
- Two events of one log line and one instant may sort with the child first; the
  tree then shows the child as a root (`claude-code.ts:127`, `timeline.ts:92`).

Shim and install:

- Two shim directories on PATH run each other for ever even when run by path;
  `docs/shim-installation.md:88-92` promises a FATAL message.
- A program without an interpreter line, which a shell would run, ends in 126.
- `docs/shim-installation.md:43` speaks of a copy of stdin, which is no longer
  made; `propagateSignals` does nothing.
- Uninstalling leaves the post hook registered (`install.ts:59` edits
  `PreToolUse` only; `docs/hook-installation.md:7` says both or neither),
  removes the user's own hook when it shares an entry with depose's, makes no
  backup and restores none (`install.ts:36` says it restores). `promised` is
  about installs only for that reason.
- An install that adds the missing half prints "No changes made".
- Uninstalling unlinks whatever stands under an allowlisted name; links the
  user added (`ln -s ... tofu` in the docs) dangle afterwards, and so does one
  whose unlink is refused, since the shim goes all the same (`install.ts:106-120`);
  `LinksReachTheShim` excepts it (`stuck`). A death in the middle of a reinstall
  leaves links to an executable shim cut off.
- What the user saves between an install's backup and its write is lost from
  the settings, and only what was there at the backup can be recovered.

### Fairness

Three runs need it. In `bundle_life` a started command goes on unless it
dies (weak fairness of its steps: it is a sequential program); the producer
runs `depose anchor` again while it can, which is what the pending label and
the command's own message ask for; an authority asked again and again answers
in the end (strong fairness of `AnchorAnswered`). Deaths and overtakings are bounded
by `MaxFaults`. `RetryDates` leaves out the cases in which running again cannot
help: the key was rotated away, the session was packaged again, a death cut a
write off (a torn anchor.json makes every later `depose anchor` throw until it is
forced), or a token is on disk that no document names while every later plain
`depose anchor` is turned away (`TokenUnclaimed`). The last has three ways in: a
forced anchor died between its token and its document; of two overlapping anchors,
forced or not, one wrote its document and the other then replaced the token and
died; or both finished, their documents in the other order than their tokens.

In `execs_recorded` the loop of the collector is scheduled (weak fairness of
`Collect`); nothing is assumed of the processes it observes.

In `tsa_rounds` an exchange settles (weak fairness of `Settles`), which the idle
timeout of the socket justifies, and the loop goes on (weak fairness of
`Proceeds`). An endpoint that sends a byte now and then would evade an idle
timeout; an answer cut off is the end "hung".

Deadlock checking is off everywhere: sessions end, passes return, and bounds
stop the rest.

## 4. Proofs

Eight modules hold proofs, each for every value of the constants that satisfies
the modules' named assumptions and the ones a theorem states itself. What each
shows, and the argument:

**The hooks** (`CaptureSessionProofs`, first half): type correctness; a signed
link names a stored intent of the same input; with inputs all different it is
the call's own (`LinkIsOwn`); a closed call's marker is gone
(`ClosedIntentHasNoMarker`); the store only grows; a call in flight keeps its
young marker (`InFlightHasMarker`) in sessions of distinct inputs and in
sessions whose calls run one by one. It takes more than no two calls of one
input in flight: no other hook's sweep may hold on to the call's name from
before (`SweepsSpare`), which is what a repeated input breaks when calls overlap
and the lemma `OwnMarkerInFlight` assumes. With distinct inputs it follows from
`OldAreOld` (a marker is its own call's and no older than its record, so what a
sweep holds is too old), one by one from `SweepIsOpening`. There is no bound on
calls, overlap or faults other than the constants, and inputs may coincide: the
runs give every overlapping call an input of its own, the theorems cover
identical calls racing for one marker as well. `IInv` adds to the properties
that a record is in the store before its call passes the writing step, a whole
marker names a stored intent of the marker's input, so does a link read and not
yet written, and past its unlink a call is named by no marker. The step that
could break it is `PreFill`, which writes through an inode: it is safe because
the marker of that name is the one opened, or is left alone. `MarkerStands` adds
what the marker of a call in flight is at each point of its life, given that the
records are stamped before the clock passes them (`Stamped`).

**The session's bundle** (same module): when no two calls
share an input, every pair the bundle shows is one call (`PairsAreOneCall`), a
lost outcome is disclosed (`LostOutcomeDisclosed`), and the verifier's
intent-effect check fails no bundle (`IntentEffectAccepts`), whatever overlapped,
failed or died and at whatever moment the bundle is built. When calls run one by
one the file-continuity check fails none either (`ContinuityAccepts`), repeated
inputs included; `two_orders` shows that it does with two. The argument has two
parts. `Settled` says of the pass what holds whatever the records are: pairs fit
by link or input, the payload names what was paired, an orphan names nothing that was
claimed; it is carried through the recursion of `Bind` by a least counterexample
over the number of effects handled. `Numbered` says of the store that ids are
readings of the clock and no two records of one half share one, so a link or an
input leads back to a call. For continuity, `Spans` says that the id and stamp of
a record bracket no other record's, so the order of times and the order of ids
agree on everything the two walks compare.

**The pass over any timeline** (end of the same module): links form a matching,
recorded links are kept, gaps are truthful, and the verifier rejects the merge's
output exactly when two effects name one intent. `PassInv` adds that an effect whose
turn has not come is untouched, one that has had it is an orphan or names an
intent that was claimed, orphans name nothing in the bundle, and the gaps are
those of the final pass. The finished pass is `Bind` of the whole timeline
(`PassIsBind`), so the theorems about the session's bundle, which use `Bind`, are
about the pass; this one assumes finite timelines with numbers for times
(`TimelinesAreFinite`), and the invariant is that the effects handled are those before
all that wait.

**The bundle directory** (`SealedBundleProofs`): a directory that verifies holds
one packaging run's content (`VerifiedMeansOneRun`); anchoring never touches the
seal it was started over (`SealUntouched`); a bundle at rest verifies before any
fault or second run (`RestingBundleVerifies`). The last assumes `TornApart`: a
torn file differs from every manifest and anchor document, which the code's
parse errors justify. The invariant rests on `OneManifestPerSeal` (all manifests
of one seal, on disk or in some command's memory, agree but for tokens and
label), `ManifestsKnown` (each covers what its run wrote), and one packaging run
at a time, which is the model's limit; `CalmInv` follows a single run and the
anchors after it file by file.

**The key directory** (`KeyStoreProofs`): no signing key is lost, one that
signed while its cataloguing did not fail stays catalogued, and a revocation
stands, for any number of keys and deaths, with torn catalogs. The theorems
assume `OneAtATime`, commands that do not overlap: with two the statements are
false (above). A signature matches the public key beside it
(`SignatureMatchesKey`) under `FewDeaths`, at most one death or no rotation:
`MatchInv` shows that a mismatch takes a rotation that died and a second death,
and with two deaths it happens (above). `IInv` adds that every key that has
signed is archived before either of its files is gone (`HalvesArchived`), so
that generating over half a pair loses nothing; what each stage of each command
knows of the key files (`KeysAt`); and that whatever is about to be saved covers
the saved catalog (`CatalogAt`), revocations included. Seeding is the exception:
it is safe because an empty catalog means that no key of such a command has
signed.

**The collector** (`ExecveCollectorProofs`): what is recorded was below the
agent, when pids were given out once (`RecordedWasDescendant`), and an exec whose
process and ancestors stand still is recorded once, with its own command line
(`SteadyExecRecorded`). `Tree` says that /proc has no cycles and every parent is
a process; `Truthful` that an exec below the agent, and one whose walk
has met the agent, was in the tree when it happened; `Apart` that one exec is in
one place only (ring, hand or store); `SteadyKept` that the line from a steady
exec to the agent stays whole and the walk is somewhere on it.

**The chain, the tree and disclosures** (`DisclosureProofs`): the sealed bundle
verifies, and does not once a line is lost, moved or changed (`DamageShows`); a
disclosure directory that verifies shows only sealed lines, hashes and openings
(`VerifiedShowsSealed`), whatever runs, deaths and damage left in it; one that
was reported finished shows nothing outside its selection
(`NothingWithheldShown`); two disclosures are found consistent only if the chain
of one extends that of the other, and are whenever the later was made to be
consistent with the earlier (`ConsistentMeansExtended`). Seals may have any
number of events, so trees any shape: a root binds the leaves under it and how
many they are (`HeadBinds`), what verifies along a leaf's audit path is that
leaf (`OnlyLeafRises`), a chain hash binds every event up to its place. These
are inductions over widths and lengths, each by a least counterexample.
`DisclosureInv` carries through every step that a build at work passed its
checks (`Good`) and that each file of a directory is some good build's.

The other direction is that what a producer draws is accepted (`ProofsExact`),
and that a disclosure reported finished verifies (`FinishedVerifies`). The
producer descends by the largest power of two below a width; the verifier climbs
by halving two indices, rising several levels at once where the last node has no
sibling. The proof meets them in blocks: the ranges of leaves the descent visits
start at a multiple of a power of two and either have that width or end the tree
(`Block`), and a walk that stands at the head of a block (`Along`) has consumed
exactly that block's path (`WalksAlong`, `WalksBoth`). A walk that ends at the
root with its index used up has therefore taken the path of its own place, and
by `HeadBinds` that place is the leaf's. A power of two (`Pow`) is what doubling
so many times gives, since the provers know nothing of `^`. `FiledInv` adds to
`DisclosureInv` what a finished run left beside the lines: its own document,
manifest and signatures, and carried files that a seal pins.

The theorems assume what the module does: damage is no payload and no link
(`SpoiltIsNothing`), and an absent file is neither a seal nor a consistency
entry (`NoneIsNothing`).

**The round of authorities** (`TsaClientProofs`): the round implements `TsaRound`
(`RoundImplementsPromise`), every kept token is the answer of an authority to
this round's query (`KeptTokensHold`), and an honest one is kept in either
encoding of its nonce (`HonestTokenKept`), for any finite, non-empty set of
authorities, any attempts, rounds and answers. `IInv` links the loop to the
counters of the promise: endpoints before the turn have answered or failed
`Attempts` times and those after it have done neither, the one being asked has
attempts left and is still wanted, and one that is settled failed or answered as
`lastError` says. That a round tries every authority once comes from the order
being a bijection, which is where finiteness is used. The comparison of nonces
rests on lemmas about trimming leading zeros: two encodings agree exactly when
they are one number, given that all nonces have one length.

**Installation and shim** (`CaptureShimProofs`): a name depose linked leads to a
shim unless its unlink was refused, a hook that was there when an install started is in the settings or in a
backup, and a command run through the shim by path ends in the program PATH held
behind it (`RunsWhatPathHolds`), for any allowlist, hooks, commands, faults,
edits and runs. The last assumes `ByName = FALSE`; by name it is false, as
`shim_by_name` shows. `LinkInv` adds that an install past opening the shim has one
there; links are removed before the shim is. `HookInv` adds that a promised hook
is in a backup by the time an install opens the settings for writing, and that
nothing is promised during an uninstall. `RunInv` adds that what the walk over
PATH has found is the first program outside depose's directory (`FoundFirst`).

**The pipeline** (`PipelineProofs`): all four invariants that `timelines` checks,
for logs, histories, reflogs, stores and sidecars of any length, any times and
whatever is written and pruned in between. The bundle holds no record of another
session and counts each one it leaves out (`ScopedAndCounted`); whatever was read
is in the timeline (`NothingDropped`); every gap of the merge is shown under its
event (`GapsShownUnderTheirEvent`); each tool result, capture and kernel execve is
linked to a capture close to it or disclosed by exactly one gap, and a call shares
its captures with no other call and no result (`CorrelationAccounted`).

`PipeInv` has four parts. `Types`: what is in the files is shaped like lines and
records. `Gathered`: the names listed are in the store, for every file opened the
reading holds the event of a record that belongs to the session or counts an
exclusion, and a record that belongs and was not pruned is held or still to be
read; it survives a write or a prune by another because those add records or
unlink them, and change none (`Elsewhere`). `ReadOff`: what was read of the log
and its siblings is what the adapters make of the files, which is needed because
others append until the reading starts. `MergedAll`: the result is `MergeEvents`
of the four sources.

The rest is about the operators. An adapter's loop is unfolded once a function
satisfying its equation has been shown to exist (`FoldExists`), and a property of
every prefix of the lines follows by a least counterexample (`FoldHolds`); with
it each source makes events under ids of its own (`Event`, `Origins`). Sorting is
a permutation that respects time: the ranks of the elements of a finite set under
a total order are the numbers below its size (`SortedIs`). Deduplication keeps one
event of each id and an event for every id (`StandsFor`), so an id names one place
of the sorted timeline (`OneOfEachId`). A gap of the merge bears its reason at the
head of its id and none of the sources does (`ReasonsDiffer`), so a link, being a
pair of ids, is a pair of places (`TieOfPlaces`), and what a gap says it is about is
one event (`DisclosedOnce`). The theorems assume that inputs are shaped as the
adapters expect (`LogLinesShaped`, `HistoriesShaped`, `RecordsShaped`) and that
delays and windows are natural numbers with the slack inside the window
(`TimesAreNumbers`), as the constants of the code are.

Only model-checked: liveness (`RetryDates`, `EventsAreTaken`, `RoundEnds`), which is
out of the prover's reach. Every other invariant and action property of
a passing run has a theorem, those about hooks, keys, the collector and the shim
under the conditions stated with them.

Induction: theorems of the library that take an operator cannot be used, but
`WFMin` with `NatLessThanWellFounded` gives every set of naturals a least member
(`LeastNat`), and a recursive function of a LET can be unfolded once a function
satisfying its equation has been shown to exist. Both are used throughout.

## 5. Not modelled

Listed in `PROJECT.json` with reasons. Byte-level encodings (canonical JSON,
DER, CBOR) are assumed to be injective, but for the INTEGERs of nonces, which
are modelled; formatting, narrative and exports render a sealed bundle and keep
no state; argument parsing and printing are left out. The destructive rules
(`reconstruct/destructive-*.ts`, `shell-*.ts`) split a command line into words
character by character and match words against a table: sequential string code
with neither state nor ordering, better served by its own table of tests.
Splitting of commands into words is left out of the adapters for the same
reason. In the verifier, the schema, mode, identity and revocation checks read
one field each and are left out.

## 6. Plan

Done: all modules of section 2; proofs about the hooks, the session's bundle, the
pass, the bundle directory, the key directory, the collector, disclosures, the
round, the installation and the shim, and the pipeline.

Left, in order:

1. `ExecveCollector` composed with the kernel attribution of the merge: an exec
   attributed to an intent shares an ancestor with it and is inside its window,
   whatever pids were given out again.
2. The destructive rules over a small alphabet of words.
