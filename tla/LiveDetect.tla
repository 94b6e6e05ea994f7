----------------------------- MODULE LiveDetect -----------------------------
(***************************************************************************)
(* The detector toggle of the live overlay (live-browser.js), which has    *)
(* the detector's script scan the page and shows how much it found, and    *)
(* the project's waivers that go with a scan (live-browser-ignores.js).    *)
(*                                                                         *)
(* A path is the sequence of its parts.  A glob is what it matches: one    *)
(* file, or all files under a directory.  The site is fixed: its document  *)
(* root, the pages the overlay is served in, the directories their globs   *)
(* start with, and which page the browser shows.                           *)
(***************************************************************************)
EXTENDS Integers, Sequences, FiniteSets, SequencesExt

CONSTANTS
    Names,             \* of directories; none lies in one of the same name
    FileNames,         \* of pages, "index" among them
    MaxScans           \* bound: scans

ASSUME DetectAssumption == MaxScans \in Nat

Dirs == {d \in SeqOf(Names, 2) : IsInjective(d)}

Files == {Append(d, f) : d \in Dirs, f \in FileNames}

\* What a site serves are finitely many files.
ASSUME SiteAssumption == IsFiniteSet(Files)

Globs == {[under |-> FALSE, path |-> f] : f \in Files} \cup
         {[under |-> TRUE, path |-> d] : d \in Dirs \ {<<>>}}

MatchesGlob(glob, path) ==
    IF glob.under THEN IsStrictPrefix(glob.path, path) ELSE path = glob.path

VARIABLES
    site,              \* root, served, roots, listed (the helper knows what is served), file
                       \* (the page shown), directory (the URL names its directory)
    waivers,           \* ignoreFiles, ignoreRules and ignoreValues of the project
    detector,          \* active, loaded, ready, pending (a scan), scans, latest, count
    scans,             \* scans the script was asked for
    results            \* its answers on their way

detectVars == <<site, waivers, detector, scans, results>>

-----------------------------------------------------------------------------
(***************************************************************************)
(* The waivers of a page.                                                  *)
(***************************************************************************)
PathSuffixes(path) == {SubSeq(path, i, Len(path)) : i \in 1 .. Len(path)}

\* location.pathname: the file below the document root, or its directory.
pathname(s) ==
    LET path == SubSeq(s.file, Len(s.root) + 1, Len(s.file))
    IN IF s.directory THEN Front(path) ELSE path

CommonAncestor(roots) == LongestCommonPrefix(roots)

\* Mutation: every root is taken for a prefix of the page.
PrefixedByEachRoot(path, roots) == UNION {PathSuffixes(r \o path) : r \in roots \ {<<>>}}

Prefixed(path, roots) ==
    LET common == IF roots = {} THEN <<>> ELSE CommonAncestor(roots)
    IN IF common = <<>> THEN {} ELSE PathSuffixes(common \o path)

pageCandidates(path, directory, roots, pageFiles) ==
    LET pagePath == IF directory THEN Append(path, "index") ELSE path
        knownPages == {f \in pageFiles : IsSuffix(pagePath, f)}
    IN PathSuffixes(pagePath) \cup
       IF Cardinality(knownPages) = 1 THEN UNION {PathSuffixes(f) : f \in knownPages}
       ELSE Prefixed(pagePath, roots)

matchesScope(globs, candidates) ==
    \E glob \in globs, path \in candidates : MatchesGlob(glob, path)

\* value "*" is any: such an entry disables its rule, in the files it names and only there.
resolveDetectIgnores(w, s) ==
    LET candidates == pageCandidates(pathname(s), s.directory, s.roots,
                                     IF s.listed THEN s.served ELSE {})
        scoped == {v \in w.ignoreValues : v.files # {} /\ matchesScope(v.files, candidates)}
        unscoped == {v \in w.ignoreValues : v.files = {}}
    IN IF matchesScope(w.ignoreFiles, candidates)
       THEN [skipScan |-> TRUE, disabledRules |-> {}, disabledValues |-> {}]
       ELSE [skipScan |-> FALSE,
             disabledRules |-> w.ignoreRules \cup {v.rule : v \in {v \in scoped : v.any}},
             disabledValues |-> {v.rule : v \in {v \in scoped \cup unscoped : ~v.any}}]

-----------------------------------------------------------------------------
(***************************************************************************)
(* The toggle.                                                             *)
(***************************************************************************)
NoScan == 0

\* The globs of what is served start with a page's own directory or one above it, and the
\* document root is at or above each of these.
SiteInit ==
    \E served \in {s \in SUBSET Files : Cardinality(s) \in 1 .. 2} :
    \E roots \in {r \in SUBSET Dirs : Cardinality(r) \in 1 .. 2} :
        /\ \A f \in served : \E r \in roots : IsPrefix(r, Front(f))
        /\ \A r \in roots : \E f \in served : IsPrefix(r, Front(f))
        /\ \E root \in Dirs, file \in served, listed \in BOOLEAN, directory \in BOOLEAN :
             /\ \A r \in roots : IsPrefix(root, r)
             /\ directory => Last(file) = "index"
             /\ site = [root |-> root, served |-> served, roots |-> roots, listed |-> listed,
                        file |-> file, directory |-> directory]

NoWaivers == [ignoreFiles |-> {}, ignoreRules |-> {}, ignoreValues |-> {}]

\* A rule of its own for each glob, or a glob that keeps its files from being scanned.
WaiverSets ==
    {[NoWaivers EXCEPT !.ignoreValues = {[rule |-> glob, any |-> any, files |-> {glob}] :
                                             glob \in Globs, any \in BOOLEAN}]} \cup
    {[NoWaivers EXCEPT !.ignoreFiles = {glob}] : glob \in Globs}

DetectorOff ==
    /\ detector = [active |-> FALSE, loaded |-> FALSE, ready |-> FALSE, pending |-> FALSE,
                   scans |-> 0, latest |-> NoScan, count |-> 0]
    /\ scans = {}
    /\ results = {}

DetectInit == SiteInit /\ waivers \in WaiverSets /\ DetectorOff

\* requestDetectScan, of a detector as it is by now.
requestDetectScan(d) ==
    LET id == d.scans + 1
    IN /\ id <= MaxScans
       /\ detector' = [d EXCEPT !.scans = id, !.latest = id]
       /\ scans' = scans \cup {[id |-> id, config |-> resolveDetectIgnores(waivers, site)]}

toggleDetect ==
    /\ LET d == [detector EXCEPT !.active = ~@]
       IN \/ ~d.active /\ detector' = [d EXCEPT !.latest = NoScan, !.count = 0] /\ UNCHANGED scans
          \/ d.active /\ d.ready /\ requestDetectScan(d)
          \/ /\ d.active /\ ~d.ready
             /\ detector' = [d EXCEPT !.pending = TRUE, !.loaded = TRUE]
             /\ UNCHANGED scans
    /\ UNCHANGED <<site, waivers, results>>

\* The script says that it is loaded.
DetectorReady ==
    /\ detector.loaded /\ ~detector.ready
    /\ LET d == [detector EXCEPT !.ready = TRUE]
       IN IF d.pending /\ d.active THEN requestDetectScan([d EXCEPT !.pending = FALSE])
          ELSE detector' = d /\ UNCHANGED scans
    /\ UNCHANGED <<site, waivers, results>>

\* onDetectMessage, of a result.
ResultsArrive(r) ==
    /\ r \in results
    /\ results' = results \ {r}
    /\ detector' = IF detector.active /\ detector.latest \in {NoScan, r.id}
                   THEN [detector EXCEPT !.count = r.count] ELSE detector
    /\ UNCHANGED <<site, waivers, scans>>

\* The script scans the page; nothing is found where it does not scan.
DetectorScans(s) ==
    /\ s \in scans
    /\ scans' = scans \ {s}
    /\ \E count \in {0, s.id} : /\ s.config.skipScan => count = 0
                                /\ results' = results \cup {[id |-> s.id, count |-> count]}
    /\ UNCHANGED <<site, waivers, detector>>

DetectNext ==
    \/ toggleDetect
    \/ DetectorReady
    \/ \E r \in results : ResultsArrive(r)
    \/ \E s \in scans : DetectorScans(s)

DetectSpec == DetectInit /\ [][DetectNext]_detectVars

-----------------------------------------------------------------------------
\* A page does not borrow the waivers of another: a waiver whose glob matches another page
\* that is served, and not this one or a suffix of its path, hides nothing on this one,
\* whatever directories are served under one URL path (pageCandidates).
WaiversNotBorrowed ==
    LET Naming(glob, file) == matchesScope({glob}, PathSuffixes(file))
        foreign == {glob \in Globs : /\ ~Naming(glob, site.file)
                                     /\ \E f \in site.served : Naming(glob, f)}
    IN \A s \in scans :
         /\ s.config.skipScan => ~(waivers.ignoreFiles \subseteq foreign)
         /\ (s.config.disabledRules \cup s.config.disabledValues) \cap foreign = {}
=============================================================================
