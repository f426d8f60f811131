--------------------------- MODULE ConnectInstall ---------------------------
(***************************************************************************)
(* `conduit connect install` and `sync` (src/cli/connect.ts,               *)
(* src/connect/local.ts) over the bundles the gateway offers               *)
(* (src/connect/install.ts): processes of one user that edit the           *)
(* configuration files of MCP clients, which the user and the clients edit *)
(* too.                                                                    *)
(*                                                                         *)
(* A process is sequential, but others run between any two of its system   *)
(* calls.  writeFileSync truncates the file before it fills it: a file in  *)
(* between is Torn, for others to read and, after a crash, to stay.        *)
(***************************************************************************)
EXTENDS Naturals, Sequences, FiniteSets

CONSTANTS
    Process, Id,
    File, Toml,      \* files, and those that are edited as text, not as JSON
    Alias,           \* names in a file
    Server,          \* ids of the gateway's servers
    Bundle,          \* a bundle: [files, servers], sequences both
    AliasIn,         \* AliasIn[f][s]: the name of server s in file f, if it has one
    Own,             \* a name the user has given to a server of their own
    User,            \* what it stands for
    None, Torn,
    MaxFaults        \* bound: edits by the user, and crashes

\* What the names in a file stand for: the relay of an installation to a server,
\* or the user's own.
Relay == Id \X Server
Conf == [Alias -> {None, User} \union Relay]

ASSUME ConnectInstallAssumption ==
    /\ Toml \subseteq File /\ Own \in Alias
    /\ \A f \in File : \A s \in DOMAIN AliasIn[f] : AliasIn[f][s] \in Alias \ {Own}
    /\ \A b \in Bundle :
          b.files \in Seq(File) /\ b.files # <<>> /\ b.servers \in Seq(Server)
    /\ {None, User} \intersect Relay = {}
    /\ {None, Torn} \intersect (Bundle \union Conf) = {} /\ MaxFaults \in Nat

VARIABLES
    secret,    \* ids given out (random UUIDs), their token stored
    manifest,  \* manifest[i]: None, Torn or the bundle it records
    conf,      \* conf[f]: Torn, or what every name in it stands for
    proc,
    faults,    \* bound: edits by the user, and crashes
    mine,      \* history: whether the user's own entry should be in f
    raced,     \* history: files edited, or read torn, between read and write
    cut,       \* history: files a process truncated and crashed before it filled
    spoiled    \* history: ids whose process crashed or threw

vars == <<secret, manifest, conf, proc, faults, mine, raced, cut, spoiled>>

Idle == [at |-> "idle", id |-> None, bundle |-> None, left |-> <<>>,
         read |-> None, todo |-> {}, alone |-> FALSE]

Empty == [n \in Alias |-> None]

----------------------------------------------------------------------------
Init ==
    /\ secret = {}
    /\ manifest = [i \in Id |-> None]
    /\ faults = 0 /\ mine = [f \in File |-> User]
    /\ conf = [f \in File |-> [Empty EXCEPT ![Own] = User]]
    /\ proc = [p \in Process |-> Idle]
    /\ raced = {} /\ cut = {} /\ spoiled = {}

\* A write is seen by all who run meanwhile.
Disturbed(p, new) ==
    [q \in Process |-> IF q = p THEN new ELSE [proc[q] EXCEPT !.alone = FALSE]]

Started(id, bundle, todo) ==
    [at |-> "read", id |-> id, bundle |-> bundle, left |-> bundle.files,
     read |-> None, todo |-> todo, alone |-> TRUE]

\* runInstall: the bundle is fetched, createLocalInstallation stores the secret
\* under a new id.
Install(p, b, id) ==
    /\ proc[p].at = "idle" /\ id \notin secret
    /\ secret' = secret \union {id}
    /\ proc' = [proc EXCEPT ![p] = Started(id, b, {})]
    /\ UNCHANGED <<manifest, conf, faults, mine, raced, cut, spoiled>>

Readable(id) == manifest[id] \in Bundle /\ id \in secret

\* syncLocalInstallation up to its first file, of one id or the next of all.
Sync(p, id, todo) ==
    /\ Readable(id)
    /\ proc' = [proc EXCEPT ![p] = Started(id, manifest[id], todo)]
    /\ UNCHANGED <<secret, manifest, conf, faults, mine, raced, cut, spoiled>>

SyncOne(p) == proc[p].at = "idle" /\ \E id \in Id : Sync(p, id, {})

\* listLocalInstallations reads every manifest before the first is repaired,
\* and throws if it cannot read one.
SyncAll(p) ==
    /\ proc[p].at = "idle"
    /\ \A i \in Id : manifest[i] # Torn
    /\ LET ids == {i \in Id : manifest[i] # None}
       IN  \E id \in ids : Sync(p, id, ids \ {id})

\* The error of one installation ends the run.
Stops(p) ==
    /\ proc' = [proc EXCEPT ![p] = Idle]
    /\ spoiled' = spoiled \union {proc[p].id}
    /\ cut' = IF proc[p].at = "fill" THEN cut \union {Head(proc[p].left)} ELSE cut
    /\ UNCHANGED <<secret, manifest, conf, mine, raced>>

SyncNext(p) ==
    /\ proc[p].at = "next"
    /\ \/ \E id \in proc[p].todo : Sync(p, id, proc[p].todo \ {id})
       \/ /\ \E id \in proc[p].todo : ~Readable(id)
          /\ proc' = [proc EXCEPT ![p] = Idle]
          /\ UNCHANGED <<secret, manifest, conf, faults, mine, raced, cut, spoiled>>

----------------------------------------------------------------------------
(* One file: mergeMcpServersJson, mergeVsCodeJson, mergeCodexToml.         *)

\* JSON that is torn does not parse; text that is torn is short text.
ReadConf(p) ==
    LET f == Head(proc[p].left)
    IN  /\ proc[p].at = "read"
        /\ conf[f] = Torn => f \in Toml
        /\ proc' = [proc EXCEPT ![p] = [proc[p] EXCEPT
              !.at = "truncate", !.read = IF conf[f] = Torn THEN Empty ELSE conf[f]]]
        /\ raced' = IF conf[f] = Torn THEN raced \union {f} ELSE raced
        /\ UNCHANGED <<secret, manifest, conf, faults, mine, cut, spoiled>>

Throws(p) ==
    /\ proc[p].at = "read"
    /\ conf[Head(proc[p].left)] = Torn /\ Head(proc[p].left) \notin Toml
    /\ Stops(p) /\ UNCHANGED faults

Truncate(p) ==
    /\ proc[p].at = "truncate"
    /\ conf' = [conf EXCEPT ![Head(proc[p].left)] = Torn]
    /\ proc' = Disturbed(p, [proc[p] EXCEPT !.at = "fill"])
    /\ UNCHANGED <<secret, manifest, faults, mine, raced, cut, spoiled>>

\* Where, in a bundle's servers, those are that have name n in file f: VS Code's
\* camel case may make one name of two ids.
Named(servers, f, n) ==
    {i \in 1 .. Len(servers) :
        servers[i] \in DOMAIN AliasIn[f] /\ AliasIn[f][servers[i]] = n}

\* Entries are set in the order of the servers: the last one stays.
Last(at) == CHOOSE i \in at : \A j \in at : j <= i

Set(p, f, n) ==
    LET servers == proc[p].bundle.servers
    IN  <<proc[p].id, servers[Last(Named(servers, f, n))]>>

\* Seeded fault: the file is written anew.
MergedAnew(p, f) ==
    [n \in Alias |-> IF Named(proc[p].bundle.servers, f, n) # {} THEN Set(p, f, n)
                     ELSE None]

\* Its own names are set, the others are kept.
Merged(p, f) ==
    [n \in Alias |-> IF Named(proc[p].bundle.servers, f, n) # {} THEN Set(p, f, n)
                     ELSE proc[p].read[n]]

\* Seeded fault: the suite's other files are forgotten.
LeftFirstOnly(p) == <<>>

\* installVsCodeSuite, installWindsurfConfig: one file after the other.  For a
\* project of Codex (ensureCodexProjectTrusted) the user's own file comes after
\* the project's: read and written too, with no names of servers.
Left(p) == Tail(proc[p].left)

\* Seeded fault: the run ends with its files.
AfterFilesNothing(p) == "idle"

AfterFiles(p) == "manifest"

Fill(p) ==
    LET f == Head(proc[p].left)
    IN  /\ proc[p].at = "fill"
        /\ conf' = [conf EXCEPT ![f] = Merged(p, f)]
        /\ proc' = Disturbed(p, [proc[p] EXCEPT
              !.at = IF Left(p) = <<>> THEN AfterFiles(p) ELSE "read",
              !.left = Left(p), !.read = None])
        /\ cut' = cut \ {f}
        /\ UNCHANGED <<secret, manifest, faults, mine, raced, spoiled>>

\* writeInstallationManifest.
TruncateManifest(p) ==
    /\ proc[p].at = "manifest"
    /\ manifest' = [manifest EXCEPT ![proc[p].id] = Torn]
    /\ proc' = Disturbed(p, [proc[p] EXCEPT !.at = "record"])
    /\ UNCHANGED <<secret, conf, faults, mine, raced, cut, spoiled>>

Finish(p) ==
    /\ proc[p].at = "record"
    /\ manifest' = [manifest EXCEPT ![proc[p].id] = proc[p].bundle]
    /\ proc' = Disturbed(p, IF proc[p].todo = {} THEN Idle
                            ELSE [proc[p] EXCEPT !.at = "next"])
    /\ UNCHANGED <<secret, conf, faults, mine, raced, cut, spoiled>>

----------------------------------------------------------------------------
\* The process is killed, or the machine goes down.
Crash(p) ==
    /\ proc[p].at # "idle" /\ Stops(p)
    /\ faults < MaxFaults /\ faults' = faults + 1

\* The user, or a client of theirs, edits a file; one that is torn for good
\* (nobody is about to fill it) is written anew.
Filling(f) == \E p \in Process : proc[p].at = "fill" /\ Head(proc[p].left) = f

UserEdits(f, own) ==
    /\ faults < MaxFaults /\ faults' = faults + 1
    /\ ~Filling(f)
    /\ conf' = [conf EXCEPT ![f] =
          [(IF conf[f] = Torn THEN Empty ELSE conf[f]) EXCEPT ![Own] = own]]
    /\ conf' # conf
    /\ mine' = [mine EXCEPT ![f] = own]
    /\ raced' = IF \E p \in Process : /\ proc[p].at = "truncate"
                                      /\ Head(proc[p].left) = f
                THEN raced \union {f} ELSE raced \ {f}
    /\ cut' = cut \ {f}
    /\ proc' = [p \in Process |-> [proc[p] EXCEPT !.alone = FALSE]]
    /\ UNCHANGED <<secret, manifest, spoiled>>

Run(p) ==
    \/ ReadConf(p) \/ Throws(p) \/ Truncate(p) \/ Fill(p)
    \/ TruncateManifest(p) \/ Finish(p) \/ SyncNext(p)

Next ==
    \/ \E p \in Process : \/ \E b \in Bundle, id \in Id : Install(p, b, id)
                          \/ SyncOne(p) \/ SyncAll(p) \/ Run(p) \/ Crash(p)
    \/ \E f \in File, own \in {User, None} : UserEdits(f, own)

Spec == Init /\ [][Next]_vars

----------------------------------------------------------------------------
(***************************************************************************)
(* The user's own servers survive installs and syncs (local.ts:293), of    *)
(* any number of processes at once.  They are lost when an edit falls      *)
(* between a process's read and its write, when a text file is read half   *)
(* written, and, as nothing is written beside the file first, when a       *)
(* process crashes after it truncated the file and before it filled it     *)
(* (local.ts:575): a file stays torn for no other reason.                  *)
(***************************************************************************)
UserKept ==
    \A f \in File \ raced :
        \/ conf[f] # Torn /\ conf[f][Own] = mine[f]
        \/ conf[f] = Torn /\ (Filling(f) \/ f \in cut)

(***************************************************************************)
(* An entry leads somewhere: the relay of every installation named in some *)
(* client's file finds its manifest and its token (relay.ts:10), but while *)
(* its process still runs, or one that wrote it was killed or stopped by   *)
(* an error between the file and the manifest.                             *)
(***************************************************************************)
EntriesLead ==
    \A f \in File, n \in Alias : conf[f] # Torn /\ conf[f][n] \in Relay =>
        LET i == conf[f][n][1]
        IN  \/ Readable(i) \/ i \in spoiled
            \/ \E p \in Process : proc[p].id = i /\ proc[p].at # "idle"

\* In file f, the name of every server of p's bundle leads through p's
\* installation to a server of the bundle that has this name.
Served(p, f) ==
    LET servers == proc[p].bundle.servers
    IN  /\ conf[f] # Torn
        /\ \A n \in Alias : Named(servers, f, n) # {} =>
              \E i \in Named(servers, f, n) : conf[f][n] = <<proc[p].id, servers[i]>>

(***************************************************************************)
(* What the command reports is so (local.ts:62, 84): when an install or a  *)
(* sync that nobody disturbed ends, in every file of the target the name   *)
(* of each server of its bundle leads to that server, or to another of the *)
(* bundle with the same name (local.ts:469: the one that came before has   *)
(* no entry, though it is reported), and the relay behind it starts.       *)
(***************************************************************************)
Delivered ==
    [][\A p \in Process : Finish(p) /\ proc[p].alone =>
          /\ \A i \in 1 .. Len(proc[p].bundle.files) :
                Served(p, proc[p].bundle.files[i])
          /\ manifest'[proc[p].id] = proc[p].bundle /\ proc[p].id \in secret]_vars
=============================================================================
