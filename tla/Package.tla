------------------------------ MODULE Package ------------------------------
(***************************************************************************)
(* From a stage to installed files.  Handle (handle_run and what it calls) *)
(* walks a directory for files whose names end in tags such as .020, reads *)
(* their $VER:, writes a package: an archive with a Manifest that maps     *)
(* files to destinations, and then walks the directory a second time to    *)
(* add the files themselves.  Load (load_run) reads the Manifest on        *)
(* another machine, looks whether that has what the package requires,      *)
(* picks for each destination the best file it can run, and installs one   *)
(* after the other.                                                        *)
(*                                                                         *)
(* A name is a sequence of what stands between its dots, a path a sequence *)
(* of names, a text one of cells (VersionTag).  Names that differ in case  *)
(* alone do not occur.  How one file is put into place is LoadInstall's    *)
(* subject: here that is one step, which may fail and change nothing.      *)
(***************************************************************************)
EXTENDS VersionTag, FiniteSets

CONSTANTS
    NAME,           \* the package's name
    Assign,         \* what each known directory of SYS is installed to
    ShortSuffixes,  \* suffixes of three letters or digits that are no tags
    Spaced,         \* for a part of a name with a blank, what precedes that
    MaxFiles,       \* HANDLE_MAX_FILES, LOAD_MAX_FILES
    MaxReqs,        \* HANDLE_MAX_REQS, LOAD_MAX_REQS
    ManifestMax,    \* HANDLE_MANIFEST_MAX, in tokens
    Cases,          \* what the two programs may be given
    Drafts,         \* texts that another program may write into the stage
    MaxEdits,       \* bound: how often it does, or removes a file
    MaxMishaps      \* bound: calls that fail and resets

CpuTags == <<"020", "030", "040", "060">>
Cpus == <<"68000", "68020", "68030", "68040", "68060">>
Ranks == <<0, 20, 30, 40, 60>>
Tags == {CpuTags[i] : i \in DOMAIN CpuTags} \cup {"881", "882", "mmu", "wos", "pup"}

(* Members that Handle makes itself.                                       *)
Manifest == <<"Manifest">>
PackageVer == <<"-package", "ver">>
AutoShow == <<"Load", "displayme">>
Reserved == {Manifest, PackageVer, AutoShow}
SYS == <<"SYS">>
Readme == <<NAME, "readme">>

NoManifest == [version |-> <<>>, os |-> <<>>, reqs |-> <<>>, files |-> <<>>]
NoBin == [man |-> NoManifest, held |-> [p \in {} |-> <<>>], there |-> FALSE]
AutoShowText == <<"other">>

ASSUME PackageAssumption ==
    /\ {MaxFiles, MaxReqs, ManifestMax, MaxEdits, MaxMishaps} \subseteq Nat
    /\ ShortSuffixes \cap Tags = {}
(* The names of assigns end in colons, which no file name has, and none    *)
(* has a blank in it.                                                      *)
Names == Seq(STRING) \ {<<>>}
ASSUME AssignAssumption ==
    /\ Assign \in [DOMAIN Assign -> Names]
    /\ \A s \in DOMAIN Assign : \A i \in DOMAIN Assign[s] : Assign[s][i] \notin DOMAIN Spaced
    /\ SYS[1] \notin DOMAIN Spaced
ASSUME CasesAssumption ==
    \A c \in Cases :
        /\ DOMAIN c.stage \subseteq Seq(Names) \ {<<>>}
        /\ \A p \in DOMAIN c.stage, s \in DOMAIN Assign : p[1][1] # Assign[s][1]
        /\ \A p \in DOMAIN c.stage : c.stage[p] \in Seq(STRING)
        /\ \A d \in DOMAIN c.installed : c.installed[d] \in Seq(STRING)
        /\ \A m \in DOMAIN c.old.held : c.old.held[m] \in Seq(STRING)
        /\ c.version \in Seq(STRING)
        /\ c.sys \in BOOLEAN /\ c.host.cpu \in Nat
        /\ DOMAIN c.staged.lines = 1 .. Len(c.staged.lines) /\ Len(c.staged.lines) \in Nat
        /\ DOMAIN c.old = DOMAIN NoBin /\ c.old.there \in BOOLEAN
        /\ DOMAIN c.old.man = DOMAIN NoManifest
        /\ Len(c.old.man.files) \in Nat
        /\ DOMAIN c.old.man.files = 1 .. Len(c.old.man.files)
ASSUME DraftsAssumption == Drafts \subseteq Seq(STRING)

-----------------------------------------------------------------------------
(* handle_variant.c: known tags are taken off the end of a name; what is   *)
(* then last must not look like one.                                       *)
BaseLen(n) == LeastOf({k \in DOMAIN n : \A j \in k + 1 .. Len(n) : n[j] \in Tags})
BaseOf(n) == SubSeq(n, 1, BaseLen(n))
TagsOf(n) == {n[j] : j \in BaseLen(n) + 1 .. Len(n)}
handle_variant_parse_leaf(n) ==
    /\ BaseLen(n) > 1 => n[BaseLen(n)] \notin ShortSuffixes
    /\ ~ {"wos", "pup"} \subseteq TagsOf(n)

(* The highest CPU tag counts, and WarpOS and PowerUP before any.          *)
handle_variant_cpu_string(tags) ==
    IF "wos" \in tags THEN "wos"
    ELSE IF "pup" \in tags THEN "pup"
    ELSE Cpus[1 + Cardinality({i \in DOMAIN CpuTags :
                     \E j \in i .. Len(CpuTags) : CpuTags[j] \in tags})]

Last(p) == p[Len(p)]
Below(p) == SubSeq(p, 2, Len(p))
Parent(p) == SubSeq(p, 1, Len(p) - 1)

handle_is_hidden_name(n) == n[1] = ""
Visible(p) == \A i \in DOMAIN p : ~handle_is_hidden_name(p[i])

(* The files that the first walk maps, and those that the second packs.    *)
(* In SYS only those in known directories are mapped; of a program's files *)
(* only the Manifest beside them is left out; the second walk leaves out   *)
(* every name that Handle uses itself, wherever it stands.                 *)
Mapped(sys, p) ==
    /\ Visible(p)
    /\ IF sys THEN Len(p) > 1 /\ p[1] \in DOMAIN Assign ELSE p[1] # Manifest
Packed(p) == Visible(p) /\ \A i \in DOMAIN p : p[i] \notin Reserved

MemberName(sys, p) == IF sys THEN <<SYS>> \o p ELSE p

(* handle_add_file, as handle_walk_sys_tree and handle_walk_app_tree call  *)
(* it: the File: line of a staged file.                                    *)
handle_add_file(sys, p) ==
    LET tags == TagsOf(Last(p))
    IN [dest |-> (IF sys THEN <<Assign[p[1]]>> \o Below(Parent(p)) ELSE Parent(p))
                     \o <<BaseOf(Last(p))>>,
        from |-> MemberName(sys, p),
        cpu |-> handle_variant_cpu_string(tags),
        fpu |-> IF "882" \in tags THEN "882" ELSE IF "881" \in tags THEN "881" ELSE "none",
        mmu |-> "mmu" \in tags]

(* ExNext lists a directory in any order, and a directory in it before the *)
(* walk goes on: next come the files that share most with the last.        *)
Shared(p, q) ==
    Cardinality({i \in DOMAIN p : i \in DOMAIN q /\ SubSeq(p, 1, i) = SubSeq(q, 1, i)})
NextOf(todo, last) == {p \in todo : \A q \in todo : Shared(q, last) <= Shared(p, last)}

-----------------------------------------------------------------------------
(* handle_merge_stage_manifest: OS: and Requires: lines are taken over,    *)
(* here by the line in which they stand.  A last line that no newline ends *)
(* is dropped where another would be an error.                             *)
IsReq(line) == line.key = "Requires"
ReqLines(staged) == {i \in DOMAIN staged.lines : IsReq(staged.lines[i])}
MergedReqs(staged) ==
    LET reqs == ReqLines(staged)
        dropped == {i \in reqs : /\ staged.open /\ i = Len(staged.lines)
                                 /\ staged.lines[i].name = "" \/ Cardinality(reqs) > MaxReqs}
    IN [i \in reqs \ dropped |-> staged.lines[i]]
TooMany(reqs) == Cardinality(DOMAIN reqs) > MaxReqs
MergeFails(staged) ==
    LET reqs == MergedReqs(staged)
    IN TooMany(reqs) \/ \E i \in DOMAIN reqs : reqs[i].name = ""
IsOS(line) == line.key = "OS"
MergedOS(staged) ==
    LET os == {i \in DOMAIN staged.lines : IsOS(staged.lines[i])}
    IN IF os = {} THEN <<>> ELSE staged.lines[CHOOSE i \in os : \A j \in os : j <= i].val

(* What is read of the staged Manifest when it cannot be opened, or when a *)
(* Read fails: what is there up to some place, as if it ended there.       *)
CutStagedLine(line) ==
    {<<>>} \cup {<<[line EXCEPT !.val = SubSeq(@, 1, k)]>> : k \in 0 .. Len(line.val)}
      \cup (IF IsReq(line) THEN {<<[line EXCEPT !.name = n, !.val = <<>>]>> : n \in {"", "part"}}
            ELSE {})
CutStaged(staged) ==
    UNION {{[lines |-> SubSeq(staged.lines, 1, k - 1) \o rest, open |-> rest # <<>>] :
              rest \in CutStagedLine(staged.lines[k])} : k \in DOMAIN staged.lines}

(* The tokens of a File: line, and what reads as one when only some of     *)
(* them are there.                                                         *)
TokensOf(line) ==
    <<"File", "From", "CPU">> \o (IF line.fpu = "none" THEN <<>> ELSE <<"FPU">>)
                              \o (IF line.mmu THEN <<"MMU">> ELSE <<>>)
Keeping(line, tokens) ==
    [dest |-> line.dest,
     from |-> IF "From" \in tokens THEN line.from ELSE <<>>,
     cpu |-> IF "CPU" \in tokens THEN line.cpu ELSE "none",
     fpu |-> IF "FPU" \in tokens THEN line.fpu ELSE "none",
     mmu |-> line.mmu /\ "MMU" \in tokens]

(* A path cut short: less of its last name, or of its directories alone.   *)
CutPaths(p) ==
    {Parent(p) \o <<SubSeq(Last(p), 1, k)>> : k \in 1 .. Len(Last(p)) - 1} \cup {Parent(p)}

(* What may be left of a line cut behind its n-th token or in the next.    *)
CutLine(line, n) ==
    LET tokens == TokensOf(line)
        whole == Keeping(line, {tokens[i] : i \in 1 .. n})
    IN CASE n = 0 -> {<<>>, <<whole>>}
         [] n = 1 -> {<<whole>>} \cup {<<[whole EXCEPT !.from = q]>> : q \in CutPaths(line.from)}
         [] n = 2 -> {<<whole>>, <<[whole EXCEPT !.cpu = "part"]>>}
         [] OTHER -> {<<whole>>}

(* handle_build_manifest: handle_str_cat stops without a word when the     *)
(* buffer is full.  A Requires: line takes a token.                        *)
handle_build_manifest(files, reqs) ==
    LET used[i \in 0 .. Len(files)] ==
            IF i = 0 THEN Cardinality(DOMAIN reqs) ELSE used[i - 1] + Len(TokensOf(files[i]))
        k == CHOOSE i \in 0 .. Len(files) :
                 /\ i > 0 => used[i] <= ManifestMax
                 /\ \A j \in i + 1 .. Len(files) : ~(used[j] <= ManifestMax)
    IN IF k = Len(files) THEN {files}
       ELSE {SubSeq(files, 1, k) \o rest :
               rest \in CutLine(files[k + 1],
                                IF ManifestMax <= used[k] THEN 0 ELSE ManifestMax - used[k])}

-----------------------------------------------------------------------------
(* load_parse_file_line: a token ends at a blank.  68000 is the default.   *)
FirstWord(p) ==
    LET spaced(i) == {j \in DOMAIN p[i] : p[i][j] \in DOMAIN Spaced}
        at == {i \in DOMAIN p : spaced(i) # {}}
        i == LeastOf(at)
        j == LeastOf(spaced(i))
    IN IF at = {} THEN p
       ELSE SubSeq(p, 1, i - 1) \o <<SubSeq(p[i], 1, j - 1) \o <<Spaced[p[i][j]]>>>>
load_parse_file_line(line) ==
    [line EXCEPT !.dest = FirstWord(@), !.from = FirstWord(@),
                 !.cpu = IF @ = "none" THEN "68000" ELSE @]
ManifestFails(man) ==
    \/ man.files = <<>> \/ Len(man.files) > MaxFiles \/ TooMany(man.reqs)
    \/ \E i \in DOMAIN man.files : man.files[i].from = <<>>

AtLeast(got, need) == got[1] > need[1] \/ (got[1] = need[1] /\ got[2] >= need[2])

(* load_check_deps: an OS: that begins with no digit is not looked at.     *)
OsMet(os, host) ==
    \/ os = <<>> \/ ~IsDigit(os[1])
    \/ ver_parse_token(os) # <<>> /\ AtLeast(host.os, ver_parse_token(os))
ReqMet(req, host) ==
    /\ req.name \in DOMAIN host.libs
    /\ req.val = <<>> \/ (/\ ver_parse_token(req.val) # <<>>
                          /\ AtLeast(host.libs[req.name], ver_parse_token(req.val)))
load_check_deps(man, host) ==
    OsMet(man.os, host) /\ \A i \in DOMAIN man.reqs : ReqMet(man.reqs[i], host)

load_cpu_rank(cpu) ==
    IF cpu \in {"wos", "pup"} THEN 0
    ELSE IF \E i \in DOMAIN Cpus : Cpus[i] = cpu
    THEN Ranks[CHOOSE i \in DOMAIN Cpus : Cpus[i] = cpu] ELSE -1

load_variant_runnable(line, host) ==
    CASE line.cpu = "wos" -> host.wos
      [] line.cpu = "pup" -> host.pup
      [] OTHER -> /\ load_cpu_rank(line.cpu) \in 0 .. host.cpu
                  /\ line.fpu = "882" => host.fpu = "882"
                  /\ line.fpu = "881" => host.fpu # "none"
                  /\ line.mmu => host.cpu >= 30

(* Wrong on purpose: an MMU counts for more than an FPU.                   *)
score_mmu_first(line) ==
    (IF line.cpu \in {"wos", "pup"} THEN 1000 ELSE 100 * load_cpu_rank(line.cpu))
      + (CASE line.fpu = "882" -> 30 [] line.fpu = "881" -> 20 [] OTHER -> 0)
      + (IF line.mmu THEN 50 ELSE 0)

load_variant_score(line) ==
    (IF line.cpu \in {"wos", "pup"} THEN 1000 ELSE 100 * load_cpu_rank(line.cpu))
      + (CASE line.fpu = "882" -> 30 [] line.fpu = "881" -> 20 [] OTHER -> 0)
      + (IF line.mmu THEN 5 ELSE 0)

(* load_select_variants: the first of the best lines of each destination,  *)
(* or nothing where one has no line that runs.                             *)
Best(files, rivals) ==
    LeastOf({j \in rivals : \A k \in rivals :
                load_variant_score(files[k]) <= load_variant_score(files[j])})
load_select_variants(files, host) ==
    LET dests == {files[i].dest : i \in DOMAIN files}
        rivals == [d \in dests |-> {j \in DOMAIN files :
                     files[j].dest = d /\ load_variant_runnable(files[j], host)}]
    IN IF \E d \in dests : rivals[d] = {} THEN {} ELSE {Best(files, rivals[d]) : d \in dests}

(* load_resolve_dest: what has no assign goes below TO, or InstallRoot.    *)
load_resolve_dest(dest, to) ==
    IF \E s \in DOMAIN Assign : Assign[s] = dest[1] THEN dest ELSE <<to>> \o dest

-----------------------------------------------------------------------------
VARIABLES
    given,      \* arguments, host, staged Manifest and what there was before
    stage,      \* the files below FROM and their texts
    bin,        \* the package at OUT
    installed,  \* the files on the machine Load runs on
    job,        \* Handle
    load,       \* Load
    edits, mishaps

vars == <<given, stage, bin, installed, job, load, edits, mishaps>>

Nothing == [p \in {} |-> <<>>]
Without(f, p) == [q \in DOMAIN f \ {p} |-> f[q]]
With(f, p, t) == [q \in DOMAIN f \cup {p} |-> IF q = p THEN t ELSE f[q]]
(* LhAddEntryA appends; the first entry of a name is the one that is read. *)
Append1(f, p, t) == IF p \in DOMAIN f THEN f ELSE With(f, p, t)

(* job.seen: what a walk has come to; job.files: the File: lines so far;   *)
(* job.cut: whether the Manifest is cut; job.skimmed: whether the staged   *)
(* one was read in part; job.unseen: whether what is at OUT was not seen.  *)
(* load.todo: lines still to be installed; load.placed: for each           *)
(* destination written, the member; load.unseen: destinations that were    *)
(* written though what was there was not seen.                             *)
Init ==
    /\ given \in Cases
    /\ stage = given.stage /\ bin = given.old /\ installed = given.installed
    /\ job = [at |-> "idle", seen |-> {}, last |-> <<>>, files |-> <<>>,
              man |-> NoManifest, ver |-> Bad, checked |-> 0, cut |-> FALSE,
              skimmed |-> FALSE, unseen |-> FALSE]
    /\ load = [at |-> "idle", man |-> NoManifest, todo |-> {}, placed |-> Nothing, unseen |-> {}]
    /\ edits = 0 /\ mishaps = 0

HandleRuns == job.at \in {"scan", "check", "build", "create", "list", "pack"}
HandleOver == job.at \in {"done", "failed", "cut"}

HandleKeeps == UNCHANGED <<given, stage, installed, load, edits>>
Mishap == mishaps < MaxMishaps /\ mishaps' = mishaps + 1
Fails == job' = [job EXCEPT !.at = "failed", !.seen = {}, !.last = <<>>] /\ UNCHANGED bin

(* handle_run: FROM is locked; the walk begins.                            *)
StartScan ==
    /\ job.at = "idle"
    /\ job' = [job EXCEPT !.at = "scan"]
    /\ HandleKeeps /\ UNCHANGED <<bin, mishaps>>

ToScan == {p \in DOMAIN stage \ job.seen : Mapped(given.sys, p)}

(* handle_walk_sys_tree, handle_walk_app_tree: the next file of the walk.  *)
ScanOne(p) ==
    /\ job.at = "scan" /\ p \in NextOf(ToScan, job.last)
    /\ \/ /\ handle_variant_parse_leaf(Last(p)) /\ Len(job.files) < MaxFiles
          /\ job' = [job EXCEPT !.seen = @ \cup {p}, !.last = p,
                                !.files = Append(@, handle_add_file(given.sys, p))]
          /\ UNCHANGED bin
       \/ /\ ~(handle_variant_parse_leaf(Last(p)) /\ Len(job.files) < MaxFiles)
          /\ Fails
    /\ HandleKeeps /\ UNCHANGED mishaps

(* handle_set_package_version: VERSION=, or the tag of the PRIMARY file.   *)
Given(v) == IF v = <<>> THEN Bad
            ELSE [Bad EXCEPT !.kind = "ver", !.major = v[1], !.minor = v[2]]
handle_set_package_version ==
    IF given.version # <<>> THEN Given(ver_parse_token(given.version))
    ELSE IF given.primary \in DOMAIN stage
    THEN load_ver_scan_file(stage[given.primary]) ELSE Bad

(* handle_scan_stage behind the walk: the staged Manifest, as far as it is *)
(* read, and the version.                                                  *)
Hangs == job' = [job EXCEPT !.at = "hang", !.seen = {}, !.last = <<>>] /\ UNCHANGED bin

EndScanWith(v, staged) ==
    IF job.files = <<>> \/ MergeFails(staged) THEN Fails
    ELSE CASE v.kind = "hang" -> Hangs
           [] v.kind = "ver" ->
                /\ job' = [job EXCEPT !.at = IF given.sys THEN "check" ELSE "build",
                                      !.ver = v, !.seen = {}, !.last = <<>>,
                                      !.skimmed = (staged # given.staged),
                                      !.man = [NoManifest EXCEPT
                                                 !.version = <<v.major, v.minor>>,
                                                 !.os = MergedOS(staged),
                                                 !.reqs = MergedReqs(staged)]]
                /\ UNCHANGED bin
           [] OTHER -> Fails

EndScan ==
    /\ job.at = "scan" /\ ToScan = {}
    /\ \/ EndScanWith(handle_set_package_version, given.staged) /\ UNCHANGED mishaps
       \/ /\ \E staged \in CutStaged(given.staged) :
                EndScanWith(handle_set_package_version, staged)
          /\ Mishap
    /\ HandleKeeps

FromStage(sys, member) == IF sys THEN Below(member) ELSE member

(* handle_check_sys_ver_uniform: the next file must have that version.     *)
(* Wrong on purpose: any tag will do.                                      *)
CheckTagged(v) ==
    CASE v.kind = "hang" -> Hangs
      [] v.kind = "ver" ->
           /\ job' = [job EXCEPT !.checked = @ + 1,
                                 !.at = IF job.checked + 1 = Len(job.files) THEN "build" ELSE @]
           /\ UNCHANGED bin
      [] OTHER -> Fails

CheckWith(v) ==
    CASE v.kind = "hang" -> Hangs
      [] v.kind = "ver" /\ <<v.major, v.minor>> = job.man.version ->
           /\ job' = [job EXCEPT !.checked = @ + 1,
                                 !.at = IF job.checked + 1 = Len(job.files) THEN "build" ELSE @]
           /\ UNCHANGED bin
      [] OTHER -> Fails

CheckOne ==
    /\ job.at = "check"
    /\ \E p \in {FromStage(given.sys, job.files[job.checked + 1].from)} :
         CheckWith(load_ver_scan_file(IF p \in DOMAIN stage THEN stage[p] ELSE <<>>))
    /\ HandleKeeps /\ UNCHANGED mishaps

(* handle_run: the Manifest is made; a package that is in the way is       *)
(* deleted, or the end of it.  A failing Lock of OUT is taken for a sign   *)
(* that none is there: it stays until LhOpenArchive deletes it.            *)
BuildManifest ==
    /\ job.at = "build"
    /\ \E files \in handle_build_manifest(job.files, job.man.reqs), unseen \in BOOLEAN :
         /\ IF unseen THEN bin.there /\ Mishap ELSE UNCHANGED mishaps
         /\ IF bin.there /\ ~unseen /\ ~given.force THEN Fails
            ELSE /\ job' = [job EXCEPT !.at = "create", !.man.files = files,
                                       !.cut = files # job.files, !.unseen = unseen]
                 /\ bin' = IF unseen THEN bin ELSE NoBin
    /\ HandleKeeps

(* handle_build_package_ver: a line that says what Handle found.           *)
handle_build_package_ver ==
    LET v == job.ver
        two(n) == <<Digits[((n \div 10) % 10) + 1], Digits[(n % 10) + 1]>>
        date == <<" ", "(">> \o two(v.ymd % 100) \o <<".">> \o two(v.ymd \div 100)
                  \o <<".">> \o two(v.ymd \div 10000) \o <<")">>
    IN Tag \o <<" ", NAME, " ">> \o Decimal(v.major) \o <<".">> \o Decimal(v.minor)
         \o (IF v.ymd = 0 THEN <<>> ELSE date) \o <<"end">>

(* LhOpenArchive, and -package.ver and Load.displayme are added.           *)
CreateBin ==
    /\ job.at = "create"
    /\ job' = [job EXCEPT !.at = "list"]
    /\ bin' = [NoBin EXCEPT !.there = TRUE,
                            !.held = With(With(Nothing, <<PackageVer>>, handle_build_package_ver),
                                          <<AutoShow>>, AutoShowText)]
    /\ HandleKeeps /\ UNCHANGED mishaps

AddManifest ==
    /\ job.at = "list"
    /\ job' = [job EXCEPT !.at = "pack"]
    /\ bin' = [bin EXCEPT !.man = job.man]
    /\ HandleKeeps /\ UNCHANGED mishaps

ToPack == {p \in DOMAIN stage \ job.seen : Packed(p)}

(* handle_walk_dir, handle_add_one: the second walk reads and adds a file. *)
PackOne(p) ==
    /\ job.at = "pack" /\ p \in NextOf(ToPack, job.last)
    /\ job' = [job EXCEPT !.seen = @ \cup {p}, !.last = p]
    /\ bin' = [bin EXCEPT !.held = Append1(@, MemberName(given.sys, p), stage[p])]
    /\ HandleKeeps /\ UNCHANGED mishaps

(* NAME.readme, if there is one and a Lock of it succeeds, is the last     *)
(* member.                                                                 *)
EndPack ==
    /\ job.at = "pack" /\ ToPack = {}
    /\ job' = [job EXCEPT !.at = "done", !.seen = {}, !.last = <<>>]
    /\ \/ /\ bin' = IF given.readme THEN [bin EXCEPT !.held = Append1(@, <<Readme>>, <<"other">>)]
                    ELSE bin
          /\ UNCHANGED mishaps
       \/ given.readme /\ UNCHANGED bin /\ Mishap
    /\ HandleKeeps

(* Wrong on purpose: the package is closed and left where it is.           *)
HandleCallFailsLeaves ==
    /\ HandleRuns /\ Mishap
    /\ job' = [job EXCEPT !.at = "failed", !.seen = {}, !.last = <<>>]
    /\ HandleKeeps /\ UNCHANGED bin

(* LhOpenArchive deletes what is at OUT before it makes the new package.   *)
MaybeDeleted == bin' = bin \/ (job.at = "create" /\ bin' = NoBin)

(* A call fails whose result Handle looks at.  Once the package is open    *)
(* Handle closes and deletes it, and does not look whether that worked.    *)
HandleCallFails ==
    /\ HandleRuns
    /\ job' = [job EXCEPT !.at = "failed", !.seen = {}, !.last = <<>>]
    /\ \/ /\ IF job.at \in {"list", "pack"} THEN bin' = NoBin ELSE MaybeDeleted
          /\ Mishap
       \/ /\ job.at \in {"list", "pack"} /\ mishaps + 1 < MaxMishaps
          /\ bin' = bin /\ mishaps' = mishaps + 2
    /\ HandleKeeps

HandleReset ==
    /\ HandleRuns /\ Mishap
    /\ job' = [job EXCEPT !.at = "cut", !.seen = {}, !.last = <<>>]
    /\ HandleKeeps /\ MaybeDeleted

(* Another program writes into the stage, or removes a file from it.       *)
Edit(p) ==
    /\ HandleRuns /\ edits < MaxEdits
    /\ edits' = edits + 1
    /\ \/ stage' = Without(stage, p)
       \/ \E t \in Drafts : stage' = With(stage, p, t)
    /\ UNCHANGED <<given, bin, installed, job, load, mishaps>>

-----------------------------------------------------------------------------
LoadKeeps == UNCHANGED <<given, stage, bin, job, edits>>

(* load_run up to the first file: nothing is written yet.                  *)
Begin(files, chosen) ==
    load' = IF \/ ~bin.there \/ ManifestFails(bin.man)
               \/ ~load_check_deps(bin.man, given.host) \/ chosen = {}
            THEN [load EXCEPT !.at = "failed"]
            ELSE [load EXCEPT !.at = "install", !.todo = chosen,
                              !.man = [bin.man EXCEPT !.files = files]]
StartLoad ==
    /\ HandleOver /\ load.at = "idle"
    /\ \E files \in {[i \in DOMAIN bin.man.files |-> load_parse_file_line(bin.man.files[i])]} :
         Begin(files, load_select_variants(files, given.host))
    /\ LoadKeeps /\ UNCHANGED <<installed, mishaps>>

Stops(at) == load' = [load EXCEPT !.at = at] /\ UNCHANGED installed

(* load_install_one: the member's tag must say what the Manifest says, and *)
(* without FORCE more than the tag of the file it is to replace.           *)
Place(line, dest, text) ==
    /\ load' = [load EXCEPT !.todo = @ \ {LeastOf(@)}, !.placed = With(@, dest, line.from)]
    /\ installed' = With(installed, dest, text)
Skip == load' = [load EXCEPT !.todo = @ \ {LeastOf(@)}] /\ UNCHANGED installed

InstallOver(line, dest, text, new, old) ==
    CASE old.kind = "hang" -> Stops("hang")
      [] old.kind = "bad" -> Stops("failed")
      [] old.kind = "ver" /\ ~given.again /\ load_ver_compare(new, old) < 1 -> Skip
      [] OTHER -> Place(line, dest, text)

InstallText(line, dest, text, new) ==
    CASE new.kind = "hang" -> Stops("hang")
      [] new.kind = "ver" /\ <<new.major, new.minor>> = load.man.version ->
           InstallOver(line, dest, text, new,
                       load_ver_scan_file(IF dest \in DOMAIN installed THEN installed[dest]
                                          ELSE <<>>))
      [] OTHER -> Stops("failed")

MemberText(p) == IF p \in DOMAIN bin.held THEN bin.held[p] ELSE <<>>
InstallLine(line, text) ==
    InstallText(line, load_resolve_dest(line.dest, given.to), text, load_ver_scan_file(text))

InstallOne ==
    /\ load.at = "install" /\ load.todo # {}
    /\ \E line \in {load.man.files[LeastOf(load.todo)]} : InstallLine(line, MemberText(line.from))
    /\ LoadKeeps /\ UNCHANGED mishaps

(* load_dest_exists: a failing Lock is taken for a sign that nothing is    *)
(* there.  No tag is compared and no backup made, and load_place_file      *)
(* replaces what it finds.                                                 *)
InstallUnseen ==
    /\ load.at = "install" /\ load.todo # {} /\ Mishap
    /\ \E line \in {load.man.files[LeastOf(load.todo)]} :
         LET dest == load_resolve_dest(line.dest, given.to)
             new == load_ver_scan_file(MemberText(line.from))
         IN /\ dest \in DOMAIN installed
            /\ new.kind = "ver" /\ <<new.major, new.minor>> = load.man.version
            /\ load' = [load EXCEPT !.todo = @ \ {LeastOf(@)}, !.placed = With(@, dest, line.from),
                                    !.unseen = @ \cup {dest}]
            /\ installed' = With(installed, dest, MemberText(line.from))
    /\ LoadKeeps

EndLoad ==
    /\ load.at = "install" /\ load.todo = {}
    /\ Stops("done") /\ LoadKeeps /\ UNCHANGED mishaps

(* Another call of load_run or load_install_one fails, or a reset.         *)
(* LoadInstall has the ways in which a file is put back.                   *)
LoadCallFails ==
    /\ load.at = "install" \/ (load.at = "idle" /\ HandleOver)
    /\ Mishap /\ Stops("failed") /\ LoadKeeps

Next ==
    \/ StartScan \/ (\E p \in DOMAIN stage : ScanOne(p)) \/ EndScan \/ CheckOne
    \/ BuildManifest \/ CreateBin \/ AddManifest
    \/ (\E p \in DOMAIN stage : PackOne(p)) \/ EndPack
    \/ HandleCallFails \/ HandleReset \/ (\E p \in DOMAIN stage : Edit(p))
    \/ StartLoad \/ InstallOne \/ InstallUnseen \/ EndLoad \/ LoadCallFails

Spec == Init /\ [][Next]_vars

-----------------------------------------------------------------------------
TypeOK ==
    /\ given \in Cases
    /\ job.at \in {"idle", "scan", "check", "build", "create", "list", "pack",
                   "done", "failed", "cut", "hang"}
    /\ load.at \in {"idle", "install", "done", "failed", "hang"}
    /\ Len(job.files) <= MaxFiles /\ job.checked \in 0 .. Len(job.files)
    /\ load.todo \subseteq DOMAIN load.man.files
    /\ bin.there \in BOOLEAN
    /\ edits \in 0 .. MaxEdits /\ mishaps \in 0 .. MaxMishaps

PlainNames ==
    \A p \in DOMAIN given.stage : \A i \in DOMAIN p :
        p[i] \notin Reserved /\ \A j \in DOMAIN p[i] : p[i][j] \notin DOMAIN Spaced

(* Handle leaves a package whose Manifest names only members that it       *)
(* holds, and names every file that is to be installed; or, when it fails, *)
(* what was there before or nothing, never a part; and without FORCE it    *)
(* leaves a package that was there alone.  Not so in this code when the    *)
(* stage changes between the walks, when names are reserved, when the      *)
(* Manifest is cut, or when two calls fail, the second a DeleteFile; nor,  *)
(* without FORCE, when a Lock of the package fails.                        *)
LeavesWholeOrNothing ==
    /\ job.at = "failed" /\ mishaps < 2 => bin \in {NoBin, given.old}
    /\ given.old.there /\ ~given.force /\ ~job.unseen => bin = given.old
    /\ job.at = "done" /\ edits = 0 /\ PlainNames /\ ~job.cut =>
         /\ \A i \in DOMAIN bin.man.files : bin.man.files[i].from \in DOMAIN bin.held
         /\ \A p \in DOMAIN stage : Mapped(given.sys, p) =>
              \E i \in DOMAIN bin.man.files : bin.man.files[i].from = MemberName(given.sys, p)

Undisturbed ==
    /\ edits = 0 /\ mishaps = 0 /\ PlainNames /\ ~job.cut /\ job.at = "done"
    /\ \A d \in DOMAIN given.installed :
         load_ver_scan_file(given.installed[d]).kind \in {"ver", "none"}

(* A system package that nothing disturbed is installed as a whole, each   *)
(* destination then holding its version or a newer one, or not at all:     *)
(* whatever Load may refuse, it refuses before the first file is written.  *)
(* Not so for programs: a file of theirs without a tag stops Load.         *)
LoadsAsAWhole ==
    given.sys /\ Undisturbed =>
        /\ load.at # "hang"
        /\ load.at = "failed" => load.placed = Nothing
        /\ load.at = "done" =>
             \A p \in DOMAIN stage : Mapped(TRUE, p) =>
                 LET d == handle_add_file(TRUE, p).dest
                     v == load_ver_scan_file(installed[d])
                 IN d \in DOMAIN installed /\ AtLeast(<<v.major, v.minor>>, job.man.version)

(* What a file's own tags ask for, and how much it makes of a host: the    *)
(* CPU, then the FPU, then the MMU.  A file for a PowerPC asks for its     *)
(* library alone.                                                          *)
Fits(tags, host) ==
    IF "wos" \in tags THEN host.wos
    ELSE IF "pup" \in tags THEN host.pup
    ELSE /\ \A i \in DOMAIN CpuTags : CpuTags[i] \in tags => Ranks[i + 1] <= host.cpu
         /\ "882" \in tags => host.fpu = "882"
         /\ "881" \in tags /\ "882" \notin tags => host.fpu # "none"
         /\ "mmu" \in tags => host.cpu >= 30
ForPPC(tags) == tags \cap {"wos", "pup"} # {}
CpuOf(tags) == {i \in DOMAIN CpuTags : CpuTags[i] \in tags}
Better(a, b) ==
    LET above(S, T) == \E i \in S : \A j \in T : i > j
        fpu(t) == (IF "882" \in t THEN {1, 2} ELSE IF "881" \in t THEN {1} ELSE {})
        level(S, T) == ~above(S, T) /\ ~above(T, S)
    IN \/ above(CpuOf(a), CpuOf(b))
       \/ /\ level(CpuOf(a), CpuOf(b))
          /\ \/ above(fpu(a), fpu(b))
             \/ level(fpu(a), fpu(b)) /\ "mmu" \in a /\ "mmu" \notin b

(* What is installed from a Manifest that Handle made runs on the host, by *)
(* the tags that its own name carries; of the staged files for that        *)
(* destination that run there, none makes more of it; and what the staged  *)
(* Manifest asks for is there.  Not so in this code when the Manifest was  *)
(* cut or names have blanks: a file may then go by another's tags, or by   *)
(* none; nor for what a last line asks for that no newline ends and that   *)
(* is one too many; nor for what a staged Manifest asks for that could not *)
(* be opened or read to its end.                                           *)
InstallsWhatFits ==
    \A d \in DOMAIN load.placed :
        bin.man = job.man /\ PlainNames /\ ~job.cut =>
            LET tags == TagsOf(Last(load.placed[d]))
            IN /\ Fits(tags, given.host)
               /\ ~ForPPC(tags) =>
                    \A p \in DOMAIN stage :
                        LET other == TagsOf(Last(p))
                        IN /\ Mapped(given.sys, p) /\ ~ForPPC(other) /\ Fits(other, given.host)
                           /\ load_resolve_dest(handle_add_file(given.sys, p).dest, given.to) = d
                           => ~Better(other, tags)
               /\ ~job.skimmed => \A i \in DOMAIN given.staged.lines :
                    LET line == given.staged.lines[i]
                    IN /\ /\ IsReq(line) /\ line.name # ""
                          /\ Cardinality(ReqLines(given.staged)) <= MaxReqs
                          => ReqMet(line, given.host)
                       /\ IsOS(line) => OsMet(MergedOS(given.staged), given.host)

(* Without FORCE an installed file whose tag can be read in full is only   *)
(* ever replaced by one that shows a newer version, and by one that        *)
(* declares a newer version where that tag can be read in full too.  Where *)
(* it cannot, what it shows may be older than what it declares (4.1 for    *)
(* 4.12) or newer (a date in 199 for one in 1998).  Not so in this code    *)
(* when Lock fails for the file that is there.                             *)
NoDowngrade ==
    [][\A d \in DOMAIN installed \ load'.unseen :
         LET new == installed'[d]
             old == installed[d]
         IN new # old /\ ~given.again /\ Clear(old) /\ Declared(old).kind = "ver"
            => /\ Newer(load_ver_scan_file(new), Declared(old))
               /\ Clear(new) => Newer(Declared(new), Declared(old))]_vars
=============================================================================
