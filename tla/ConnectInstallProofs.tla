------------------------ MODULE ConnectInstallProofs ------------------------
(***************************************************************************)
(* Proofs about ConnectInstall: for any processes, installations, files,   *)
(* bundles and names, and any number of edits and crashes.                 *)
(*                                                                         *)
(* What a process has read and not written back is part of the state the   *)
(* properties are about: the invariant says of it what it says of files    *)
(* (ReadKept, ReadLeads).  Written follows a process nobody disturbs from  *)
(* one file of its target to the next.                                     *)
(***************************************************************************)
EXTENDS ConnectInstall, FiniteSetTheorems, TLAPS

Phases == {"idle", "read", "truncate", "fill", "manifest", "record", "next"}

Procs == [at : Phases, id : {None} \union Id, bundle : {None} \union Bundle,
          left : Seq(File), read : {None} \union Conf, todo : SUBSET Id,
          alone : BOOLEAN]

Typed ==
    /\ secret \subseteq Id
    /\ manifest \in [Id -> {None, Torn} \union Bundle]
    /\ conf \in [File -> {Torn} \union Conf]
    /\ proc \in [Process -> Procs]
    /\ mine \in [File -> {User, None}]
    /\ raced \subseteq File

\* Whoever runs has a bundle and a token; the files it has left are the last
\* of the bundle's.
Running(p) ==
    proc[p].at # "idle" =>
        /\ proc[p].id \in secret /\ proc[p].bundle \in Bundle
        /\ Len(proc[p].left) <= Len(proc[p].bundle.files)
        /\ \A j \in 1 .. Len(proc[p].left) :
              proc[p].left[j] = proc[p].bundle.files[
                                    Len(proc[p].bundle.files) - Len(proc[p].left) + j]
        /\ proc[p].at \in {"read", "truncate", "fill"} => proc[p].left # <<>>
        /\ proc[p].at \in {"manifest", "record"} => proc[p].left = <<>>
        /\ proc[p].at \in {"truncate", "fill"} => proc[p].read \in Conf

\* The relay of i finds what it needs, or somebody is to blame or at work on
\* it.  A run that is between two installations has finished with the first.
Led(i) ==
    \/ Readable(i) \/ i \in spoiled
    \/ \E p \in Process : proc[p].id = i /\ proc[p].at \notin {"idle", "next"}

FilesKept == UserKept

ReadKept(p) ==
    proc[p].at \in {"truncate", "fill"} /\ Head(proc[p].left) \notin raced =>
        proc[p].read[Own] = mine[Head(proc[p].left)]

FilesLead ==
    \A f \in File : conf[f] # Torn =>
        \A n \in Alias : conf[f][n] \in Relay => Led(conf[f][n][1])

ReadLeads(p) ==
    proc[p].at \in {"truncate", "fill"} =>
        \A n \in Alias : proc[p].read[n] \in Relay => Led(proc[p].read[n][1])

Written(p) ==
    proc[p].alone /\ proc[p].at \notin {"idle", "next"} =>
        \A i \in 1 .. Len(proc[p].bundle.files) - Len(proc[p].left) :
            \/ proc[p].at = "fill" /\ proc[p].bundle.files[i] = Head(proc[p].left)
            \/ Served(p, proc[p].bundle.files[i])

Local(p) == Running(p) /\ ReadKept(p) /\ ReadLeads(p) /\ Written(p)

IInv == Typed /\ FilesKept /\ FilesLead /\ \A p \in Process : Local(p)

----------------------------------------------------------------------------
(* Lists of files.                                                         *)

LEMMA ListFacts ==
  ASSUME NEW s \in Seq(File)
  PROVE  /\ Len(s) \in Nat /\ (s = <<>> <=> Len(s) = 0)
         /\ s # <<>> => /\ Head(s) \in File /\ Head(s) = s[1]
                        /\ Tail(s) \in Seq(File) /\ Len(Tail(s)) = Len(s) - 1
                        /\ \A j \in 1 .. Len(Tail(s)) : Tail(s)[j] = s[j + 1]
  OBVIOUS

\* The file a process is at is one of its bundle's.
LEMMA AtAFile ==
  ASSUME Typed, NEW p \in Process, Running(p), proc[p].at \in {"read", "truncate", "fill"}
  PROVE  /\ Head(proc[p].left) \in File
         /\ Head(proc[p].left) =
               proc[p].bundle.files[Len(proc[p].bundle.files) - Len(proc[p].left) + 1]
  <1>1. proc[p].left \in Seq(File) /\ proc[p].left # <<>>
    BY DEF Typed, Procs, Running
  <1>2. PICK b \in Bundle : b = proc[p].bundle
    BY DEF Running
  <1>3. b.files \in Seq(File)
    BY ConnectInstallAssumption
  <1>4. Len(b.files) \in Nat /\ Len(proc[p].left) \in Nat /\ Len(proc[p].left) # 0
    BY <1>1, <1>3, ListFacts
  <1>5. /\ Len(proc[p].left) <= Len(b.files)
        /\ \A j \in 1 .. Len(proc[p].left) :
              proc[p].left[j] = b.files[Len(b.files) - Len(proc[p].left) + j]
    BY <1>2 DEF Running
  <1>6. PICK i \in 1 .. Len(b.files) : /\ i = Len(b.files) - Len(proc[p].left) + 1
                                       /\ Head(proc[p].left) = b.files[i]
    <2>1. Len(b.files) - Len(proc[p].left) + 1 \in 1 .. Len(b.files)
      <3>1. PICK n \in Nat, m \in Nat \ {0} : n = Len(b.files) /\ m = Len(proc[p].left)
        BY <1>4
      <3>2. m <= n
        BY <1>5, <3>1
      <3>3. n - m + 1 \in 1 .. n
        BY <3>2
      <3> QED
        BY <3>1, <3>3, Zenon
    <2>2. Head(proc[p].left) = proc[p].left[1] /\ 1 \in 1 .. Len(proc[p].left)
      BY <1>1, <1>4, ListFacts
    <2> QED
      BY <1>5, <2>1, <2>2
  <1>7. Head(proc[p].left) \in File
    BY <1>1, ListFacts
  <1> QED
    BY <1>2, <1>6, <1>7

----------------------------------------------------------------------------
(* Names.                                                                  *)

\* There is a last of finitely many.
LEMMA LastIsIn ==
  ASSUME NEW n \in Nat, NEW at \in SUBSET (1 .. n), at # {}
  PROVE  Last(at) \in at
  <1> DEFINE T == {i .. n : i \in at}
             all == 1 .. n
  <1>1. T # {}
    OBVIOUS
  <1>2. T \subseteq FiniteSubsetsOf(all)
    <2>1. \A i \in at : i .. n \subseteq all /\ IsFiniteSet(i .. n)
      BY FS_Interval
    <2> QED
      BY <2>1 DEF FiniteSubsetsOf
  <1>3. IsWellFoundedOn(StrictSubsetOrdering(all), FiniteSubsetsOf(all))
    BY FS_StrictSubsetOrderingWellFounded
  <1> HIDE DEF T
  <1>4. PICK m \in T : \A y \in T : <<y, m>> \notin StrictSubsetOrdering(all)
    BY <1>1, <1>2, <1>3, WFMin
  <1>5. PICK i \in at : m = i .. n
    BY <1>4 DEF T
  <1>6. ASSUME NEW j \in at, i < j PROVE FALSE
    <2>1. j .. n \in T
      BY DEF T
    <2>2. j .. n \subseteq m /\ m \subseteq all /\ i \in m /\ i \notin j .. n
      BY <1>5, <1>6
    <2>3. <<j .. n, m>> \in StrictSubsetOrdering(all)
      BY <2>2 DEF StrictSubsetOrdering
    <2> QED
      BY <1>4, <2>1, <2>3
  <1>7. \A j \in at : j <= i
    BY <1>6
  <1> QED
    BY <1>7 DEF Last

LEMMA RelayFacts ==
  /\ \A id \in Id, s \in Server : <<id, s>> \in Relay /\ <<id, s>>[1] = id
  /\ \A r \in Relay : r[1] \in Id
  /\ None \notin Relay /\ User \notin Relay
  BY ConnectInstallAssumption DEF Relay

\* The user's name is no server's.
LEMMA NamedFacts ==
  ASSUME NEW b \in Bundle, NEW f \in File
  PROVE  /\ Len(b.servers) \in Nat
         /\ \A n : Named(b.servers, f, n) \in SUBSET (1 .. Len(b.servers))
         /\ \A i \in 1 .. Len(b.servers) : b.servers[i] \in Server
         /\ Named(b.servers, f, Own) = {}
  <1>1. b.servers \in Seq(Server)
    BY ConnectInstallAssumption
  <1>2. PICK servers \in Seq(Server) : servers = b.servers
    BY <1>1
  <1>3. /\ Len(servers) \in Nat
        /\ \A i \in 1 .. Len(servers) : servers[i] \in Server
    OBVIOUS
  <1>4. \A n : Named(servers, f, n) \in SUBSET (1 .. Len(servers))
    BY DEF Named
  <1>5. \A s \in DOMAIN AliasIn[f] : AliasIn[f][s] # Own
    BY ConnectInstallAssumption
  <1>6. Named(servers, f, Own) = {}
    BY <1>5 DEF Named
  <1> QED
    BY <1>2, <1>3, <1>4, <1>6

\* What a process sets a name to leads to one of the servers with this name.
LEMMA SetLeads ==
  ASSUME NEW p \in Process, proc[p].id \in Id, proc[p].bundle \in Bundle,
         NEW f \in File, NEW n, Named(proc[p].bundle.servers, f, n) # {}
  PROVE  /\ Set(p, f, n) \in Relay /\ Set(p, f, n)[1] = proc[p].id
         /\ \E i \in Named(proc[p].bundle.servers, f, n) :
               Set(p, f, n) = <<proc[p].id, proc[p].bundle.servers[i]>>
  <1>1. PICK b \in Bundle : b = proc[p].bundle
    OBVIOUS
  <1>2. PICK at : at = Named(b.servers, f, n)
    OBVIOUS
  <1>3. at \in SUBSET (1 .. Len(b.servers)) /\ Len(b.servers) \in Nat /\ at # {}
    BY <1>1, <1>2, NamedFacts
  <1>4. Last(at) \in at
    BY <1>3, LastIsIn
  <1>5. b.servers[Last(at)] \in Server
    BY <1>3, <1>4, NamedFacts
  <1>6. Set(p, f, n) = <<proc[p].id, b.servers[Last(at)]>>
    BY <1>1, <1>2 DEF Set
  <1> QED
    BY <1>1, <1>2, <1>4, <1>5, <1>6, RelayFacts

----------------------------------------------------------------------------
(* What a step of one process leaves to the others.                        *)

\* q takes no part in the step: it may only learn that it was disturbed.
Bystander(q) ==
    /\ proc'[q].at = proc[q].at /\ proc'[q].id = proc[q].id
    /\ proc'[q].bundle = proc[q].bundle /\ proc'[q].left = proc[q].left
    /\ proc'[q].read = proc[q].read
    /\ proc'[q].alone => proc[q].alone

\* The others, while p becomes new without writing a file, or while it writes.
LEMMA QuietStep ==
  ASSUME Typed, NEW p \in Process, NEW new \in Procs, proc' = [proc EXCEPT ![p] = new]
  PROVE  /\ proc' \in [Process -> Procs] /\ proc'[p] = new
         /\ \A q \in Process \ {p} : Bystander(q)
  BY DEF Typed, Bystander

LEMMA WritingStep ==
  ASSUME Typed, NEW p \in Process, NEW new \in Procs, proc' = Disturbed(p, new)
  PROVE  /\ proc' \in [Process -> Procs] /\ proc'[p] = new
         /\ \A q \in Process \ {p} : Bystander(q) /\ ~proc'[q].alone
  <1>1. ASSUME NEW q \in Process \ {p}
        PROVE  proc'[q] \in Procs /\ Bystander(q) /\ ~proc'[q].alone
    <2>1. proc[q] \in Procs /\ proc'[q] = [proc[q] EXCEPT !.alone = FALSE]
      BY DEF Typed, Disturbed
    <2> QED
      BY <2>1 DEF Procs, Bystander
  <1>2. proc'[p] = new
    BY DEF Disturbed
  <1>3. proc' \in [Process -> Procs]
    BY <1>1, <1>2 DEF Disturbed
  <1> QED
    BY <1>1, <1>2, <1>3

\* No step of p takes a relay's manifest or token away, unless p is at work on
\* it or takes the blame.
LEMMA LedStays ==
  ASSUME NEW p \in Process, proc'[p] \in Procs,
         \A q \in Process \ {p} : Bystander(q),
         spoiled \subseteq spoiled',
         \A i \in Id : Readable(i) =>
            \/ Readable(i)'
            \/ proc'[p].id = i /\ proc'[p].at \notin {"idle", "next"},
         proc[p].at \notin {"idle", "next"} =>
            \/ proc'[p].id = proc[p].id /\ proc'[p].at \notin {"idle", "next"}
            \/ \A i \in Id : i = proc[p].id => Readable(i)'
            \/ proc[p].id \in spoiled'
  PROVE  \A i \in Id : Led(i) => Led(i)'
  <1>1. ASSUME NEW i \in Id, Led(i) PROVE Led(i)'
    <2>1. CASE Readable(i)
      BY <2>1 DEF Led
    <2>2. CASE i \in spoiled
      BY <2>2 DEF Led
    <2>3. ASSUME NEW q \in Process, proc[q].id = i, proc[q].at \notin {"idle", "next"}
          PROVE  Led(i)'
      <3>1. CASE q = p
        BY <2>3, <3>1 DEF Led
      <3>2. CASE q # p
        <4>1. proc'[q].id = i /\ proc'[q].at \notin {"idle", "next"}
          BY <2>3, <3>2 DEF Bystander
        <4> QED
          BY <4>1 DEF Led
      <3> QED
        BY <3>1, <3>2
    <2> QED
      BY <1>1, <2>1, <2>2, <2>3 DEF Led
  <1> QED
    BY <1>1

\* Nor does a process that goes on within the same file lose what it works on.
LEMMA RunningStays ==
  ASSUME NEW p \in Process, Running(p), secret \subseteq secret',
         proc[p].at = "idle" => proc'[p].at = "idle",
         proc'[p].id = proc[p].id, proc'[p].bundle = proc[p].bundle,
         proc'[p].left = proc[p].left,
         proc'[p].at \in {"read", "truncate", "fill"} => proc[p].left # <<>>,
         proc'[p].at \in {"manifest", "record"} => proc[p].left = <<>>,
         proc'[p].at \in {"truncate", "fill"} => proc'[p].read \in Conf
  PROVE  Running(p)'
  BY DEF Running

LEMMA BystandersStay ==
  ASSUME NEW q \in Process, Local(q), Bystander(q),
         secret \subseteq secret', raced \subseteq raced', mine' = mine,
         proc'[q].alone => conf' = conf,
         \A i \in Id : Led(i) => Led(i)'
  PROVE  Local(q)'
  <1>1. Running(q)'
    BY DEF Local, Running, Bystander
  <1>2. ReadKept(q)'
    BY DEF Local, ReadKept, Bystander
  <1>3. ReadLeads(q)'
    BY RelayFacts DEF Local, ReadLeads, Bystander
  <1>4. Written(q)'
    <2> SUFFICES ASSUME proc'[q].alone PROVE Written(q)'
      BY DEF Written
    <2>1. Written(q) /\ proc[q].alone /\ conf' = conf
      BY DEF Local, Bystander
    <2>2. \A f : Served(q, f) => Served(q, f)'
      BY <2>1 DEF Served, Bystander
    <2> QED
      BY <2>1, <2>2 DEF Written, Bystander
  <1> QED
    BY <1>1, <1>2, <1>3, <1>4 DEF Local

\* A file stays torn while it is being filled, or for good when nobody will.
LEMMA TornStays ==
  ASSUME NEW p \in Process, NEW f \in File,
         \A q \in Process \ {p} : Bystander(q),
         f \in cut => f \in cut',
         proc[p].at = "fill" /\ Head(proc[p].left) = f => f \in cut'
  PROVE  Filling(f) \/ f \in cut => Filling(f)' \/ f \in cut'
  BY DEF Filling, Bystander

LEMMA FilesStay ==
  ASSUME FilesKept, FilesLead, NEW p \in Process,
         \A q \in Process \ {p} : Bystander(q),
         conf' = conf, raced \subseteq raced', mine' = mine,
         cut \subseteq cut', proc[p].at = "fill" => Head(proc[p].left) \in cut',
         \A i \in Id : Led(i) => Led(i)'
  PROVE  FilesKept' /\ FilesLead'
  <1>1. \A f \in File : Filling(f) \/ f \in cut => Filling(f)' \/ f \in cut'
    BY TornStays
  <1>2. FilesKept'
    BY <1>1 DEF FilesKept, UserKept
  <1>3. FilesLead'
    BY RelayFacts DEF FilesLead
  <1> QED
    BY <1>2, <1>3

----------------------------------------------------------------------------
(* The steps.                                                              *)

LEMMA IdleTyped == Idle \in Procs /\ Idle.at = "idle"
  BY DEF Idle, Procs, Phases

LEMMA InitHolds == Init => IInv
  <1> SUFFICES ASSUME Init PROVE IInv
    OBVIOUS
  <1> DEFINE first == [Empty EXCEPT ![Own] = User]
  <1>1. /\ first \in Conf /\ first[Own] = User
        /\ \A n \in Alias : first[n] \notin Relay
        /\ first # Torn
    BY ConnectInstallAssumption, RelayFacts DEF Empty, Conf
  <1>2. \A f \in File : conf[f] = first /\ mine[f] = User
    BY DEF Init
  <1> HIDE DEF first
  <1>3. \A p \in Process : proc[p] = Idle
    BY DEF Init
  <1>4. Typed
    <2>1. conf \in [File -> {Torn} \union Conf]
      BY <1>1, <1>2 DEF Init
    <2> QED
      BY <2>1, IdleTyped DEF Typed, Init
  <1>5. FilesKept /\ FilesLead
    BY <1>1, <1>2 DEF FilesKept, UserKept, FilesLead
  <1>6. \A p \in Process : Local(p)
    BY <1>3, IdleTyped DEF Local, Running, ReadKept, ReadLeads, Written
  <1> QED
    BY <1>4, <1>5, <1>6 DEF IInv

\* A process takes up an installation, new or recorded.
LEMMA StartStep ==
  ASSUME IInv, NEW p \in Process, proc[p].at \in {"idle", "next"},
         NEW id \in Id, NEW b \in Bundle, NEW todo \in SUBSET Id,
         proc' = [proc EXCEPT ![p] = Started(id, b, todo)],
         secret \subseteq secret', secret' \subseteq Id, id \in secret',
         UNCHANGED <<manifest, conf, mine, raced, cut, spoiled>>
  PROVE  IInv'
  <1> DEFINE new == Started(id, b, todo)
  <1>1. b.files \in Seq(File) /\ b.files # <<>>
    BY ConnectInstallAssumption
  <1>2. /\ new \in Procs /\ new.at = "read" /\ new.id = id /\ new.bundle = b
        /\ new.left = b.files
    BY <1>1 DEF Started, Procs, Phases
  <1> HIDE DEF new
  <1>3. Typed /\ FilesKept /\ FilesLead /\ \A q \in Process : Local(q)
    BY DEF IInv
  <1>4. proc' = [proc EXCEPT ![p] = new]
    BY DEF new
  <1>5. /\ proc' \in [Process -> Procs] /\ proc'[p] = new
        /\ \A q \in Process \ {p} : Bystander(q)
    BY <1>2, <1>3, <1>4, QuietStep
  <1>6. \A i \in Id : Readable(i) => Readable(i)'
    BY DEF Readable
  <1>7. \A i \in Id : Led(i) => Led(i)'
    BY <1>2, <1>5, <1>6, LedStays
  <1>8. Typed'
    BY <1>3, <1>5 DEF Typed
  <1>9. FilesKept' /\ FilesLead'
    BY <1>3, <1>5, <1>7, FilesStay
  <1>10. ASSUME NEW q \in Process \ {p} PROVE Local(q)'
    BY <1>3, <1>5, <1>7, BystandersStay
  <1>11. Local(p)'
    <2>1. Running(p)'
      <3>1. Len(b.files) \in Nat
        BY <1>1, ListFacts
      <3>2. Len(b.files) <= Len(b.files)
            /\ \A j \in 1 .. Len(b.files) : b.files[j] = b.files[Len(b.files) - Len(b.files) + j]
        BY <3>1
      <3>3. new.at \notin {"manifest", "record", "truncate", "fill"} /\ new.left # <<>>
        BY <1>1, <1>2
      <3>4. /\ Len(new.left) <= Len(new.bundle.files)
            /\ \A j \in 1 .. Len(new.left) :
                  new.left[j] = new.bundle.files[Len(new.bundle.files) - Len(new.left) + j]
        BY <1>2, <3>2, Zenon
      <3>5. new.id \in secret' /\ new.bundle \in Bundle
        BY <1>2
      <3> QED
        BY <1>5, <3>3, <3>4, <3>5, Zenon DEF Running
    <2>2. Len(b.files) - Len(b.files) = 0
      BY <1>1, ListFacts
    <2>3. \A i : i \notin 1 .. 0
      OBVIOUS
    <2>4. Written(p)'
      BY <1>2, <1>5, <2>2, <2>3 DEF Written
    <2> QED
      BY <1>2, <1>5, <2>1, <2>4 DEF Local, ReadKept, ReadLeads
  <1> QED
    BY <1>8, <1>9, <1>10, <1>11 DEF IInv

\* A process ends, and takes the blame for what it leaves half done.
LEMMA IdleStep ==
  ASSUME IInv, NEW p \in Process, proc' = [proc EXCEPT ![p] = Idle],
         spoiled \subseteq spoiled',
         proc[p].at \notin {"idle", "next"} => proc[p].id \in spoiled',
         cut \subseteq cut', proc[p].at = "fill" => Head(proc[p].left) \in cut',
         UNCHANGED <<secret, manifest, conf, mine, raced>>
  PROVE  IInv'
  <1>1. Typed /\ FilesKept /\ FilesLead /\ \A q \in Process : Local(q)
    BY DEF IInv
  <1>2. /\ proc' \in [Process -> Procs] /\ proc'[p] = Idle
        /\ \A q \in Process \ {p} : Bystander(q)
    BY <1>1, IdleTyped, QuietStep
  <1>3. \A i \in Id : Readable(i) => Readable(i)'
    BY DEF Readable
  <1>4. \A i \in Id : Led(i) => Led(i)'
    BY <1>2, <1>3, IdleTyped, LedStays
  <1>5. Typed'
    BY <1>1, <1>2 DEF Typed
  <1>6. FilesKept' /\ FilesLead'
    BY <1>1, <1>2, <1>4, FilesStay
  <1>7. ASSUME NEW q \in Process \ {p} PROVE Local(q)'
    BY <1>1, <1>2, <1>4, BystandersStay
  <1>8. Local(p)'
    BY <1>2, IdleTyped DEF Local, Running, ReadKept, ReadLeads, Written
  <1> QED
    BY <1>5, <1>6, <1>7, <1>8 DEF IInv

LEMMA ReadConfStep ==
  ASSUME IInv, NEW p \in Process, ReadConf(p)
  PROVE  IInv'
  <1>1. Typed /\ FilesKept /\ FilesLead /\ \A q \in Process : Local(q)
    BY DEF IInv
  <1>2. PICK old \in Procs : old = proc[p]
    BY <1>1 DEF Typed
  <1>3. old.at = "read" /\ Running(p)
    BY <1>1, <1>2 DEF ReadConf, Local
  <1>4. PICK f \in File : f = Head(old.left)
    BY <1>1, <1>2, <1>3, AtAFile
  <1>5. PICK read \in Conf : read = IF conf[f] = Torn THEN Empty ELSE conf[f]
    <2>1. Empty \in Conf
      BY DEF Empty, Conf
    <2>2. conf[f] \in {Torn} \union Conf
      BY <1>1 DEF Typed
    <2> QED
      BY <2>1, <2>2, Zenon
  <1> DEFINE new == [old EXCEPT !.at = "truncate", !.read = read]
  <1>6. proc' = [proc EXCEPT ![p] = new]
    BY <1>2, <1>4, <1>5 DEF ReadConf
  <1>7. /\ raced' = IF conf[f] = Torn THEN raced \union {f} ELSE raced
        /\ UNCHANGED <<secret, manifest, conf, mine, cut, spoiled>>
    BY <1>2, <1>4 DEF ReadConf
  <1>8. /\ new \in Procs /\ new.at = "truncate" /\ new.read = read
        /\ new.id = old.id /\ new.bundle = old.bundle /\ new.left = old.left
        /\ new.alone = old.alone
    BY <1>2 DEF Procs, Phases
  <1> HIDE DEF new
  <1>9. /\ proc' \in [Process -> Procs] /\ proc'[p] = new
        /\ \A q \in Process \ {p} : Bystander(q)
    BY <1>1, <1>6, <1>8, QuietStep
  <1>10. \A i \in Id : Readable(i) => Readable(i)'
    BY <1>7 DEF Readable
  <1>11. \A i \in Id : Led(i) => Led(i)'
    BY <1>2, <1>7, <1>8, <1>9, <1>10, LedStays
  <1>12. raced \subseteq raced' /\ Typed'
    BY <1>1, <1>7, <1>9 DEF Typed
  <1>13. FilesKept' /\ FilesLead'
    BY <1>1, <1>2, <1>3, <1>7, <1>9, <1>11, <1>12, FilesStay
  <1>14. ASSUME NEW q \in Process \ {p} PROVE Local(q)'
    BY <1>1, <1>7, <1>9, <1>11, <1>12, BystandersStay
  <1>15. Local(p)'
    <2>1. Running(p)'
      BY <1>2, <1>3, <1>7, <1>8, <1>9 DEF Running
    <2>2. ReadKept(p)'
      <3>1. ASSUME f \notin raced' PROVE read[Own] = mine'[f]
        BY <1>1, <1>2, <1>5, <1>7, <3>1 DEF FilesKept, UserKept
      <3> QED
        BY <1>4, <1>8, <1>9, <3>1 DEF ReadKept
    <2>3. ReadLeads(p)'
      <3>1. ASSUME NEW n \in Alias, read[n] \in Relay PROVE Led(read[n][1])'
        <4>1. conf[f] # Torn /\ read = conf[f]
          BY <1>5, <3>1, RelayFacts DEF Empty
        <4>2. Led(conf[f][n][1])
          BY <1>1, <3>1, <4>1 DEF FilesLead
        <4> QED
          BY <1>11, <3>1, <4>1, <4>2, RelayFacts
      <3> QED
        BY <1>8, <1>9, <3>1 DEF ReadLeads
    <2>4. Written(p)'
      <3>1. \A g : Served(p, g) => Served(p, g)'
        BY <1>2, <1>7, <1>8, <1>9 DEF Served
      <3> QED
        BY <1>1, <1>2, <1>3, <1>8, <1>9, <3>1 DEF Written, Local
    <2> QED
      BY <2>1, <2>2, <2>3, <2>4 DEF Local
  <1> QED
    BY <1>12, <1>13, <1>14, <1>15 DEF IInv

LEMMA TruncateStep ==
  ASSUME IInv, NEW p \in Process, Truncate(p)
  PROVE  IInv'
  <1>1. Typed /\ FilesKept /\ FilesLead /\ \A q \in Process : Local(q)
    BY DEF IInv
  <1>2. PICK old \in Procs : old = proc[p]
    BY <1>1 DEF Typed
  <1>3. old.at = "truncate" /\ Running(p)
    BY <1>1, <1>2 DEF Truncate, Local
  <1>4. PICK f \in File : f = Head(old.left)
    BY <1>1, <1>2, <1>3, AtAFile
  <1> DEFINE new == [old EXCEPT !.at = "fill"]
  <1>5. /\ conf' = [conf EXCEPT ![f] = Torn]
        /\ proc' = Disturbed(p, new)
        /\ UNCHANGED <<secret, manifest, faults, mine, raced, cut, spoiled>>
    BY <1>2, <1>4 DEF Truncate
  <1>6. /\ new \in Procs /\ new.at = "fill" /\ new.read = old.read
        /\ new.id = old.id /\ new.bundle = old.bundle /\ new.left = old.left
        /\ new.alone = old.alone
    BY <1>2 DEF Procs, Phases
  <1> HIDE DEF new
  <1>7. /\ proc' \in [Process -> Procs] /\ proc'[p] = new
        /\ \A q \in Process \ {p} : Bystander(q) /\ ~proc'[q].alone
    BY <1>1, <1>5, <1>6, WritingStep
  <1>8. \A i \in Id : Readable(i) => Readable(i)'
    BY <1>5 DEF Readable
  <1>9. \A i \in Id : Led(i) => Led(i)'
    BY <1>2, <1>5, <1>6, <1>7, <1>8, LedStays
  <1>10. /\ conf' \in [File -> {Torn} \union Conf] /\ conf'[f] = Torn
         /\ \A g \in File \ {f} : conf'[g] = conf[g]
    BY <1>1, <1>5 DEF Typed
  <1>11. Typed'
    BY <1>1, <1>5, <1>7, <1>10 DEF Typed
  <1>12. FilesKept'
    <2>1. Filling(f)'
      BY <1>4, <1>6, <1>7 DEF Filling
    <2>2. ASSUME NEW g \in File \ {f} PROVE Filling(g) \/ g \in cut => Filling(g)' \/ g \in cut'
      BY <1>2, <1>3, <1>5, <1>7, TornStays
    <2> QED
      BY <1>1, <1>5, <1>10, <2>1, <2>2 DEF FilesKept, UserKept
  <1>13. FilesLead'
    BY <1>1, <1>9, <1>10, RelayFacts DEF FilesLead
  <1>14. ASSUME NEW q \in Process \ {p} PROVE Local(q)'
    BY <1>1, <1>5, <1>7, <1>9, BystandersStay
  <1>15. Local(p)'
    <2>1. Running(p)'
      <3>1. /\ old.id \in secret /\ old.bundle \in Bundle
            /\ Len(old.left) <= Len(old.bundle.files)
            /\ \A j \in 1 .. Len(old.left) :
                  old.left[j] = old.bundle.files[
                                    Len(old.bundle.files) - Len(old.left) + j]
            /\ old.left # <<>> /\ old.read \in Conf
        BY <1>2, <1>3 DEF Running
      <3>2. secret' = secret
        BY <1>5
      <3> QED
        BY <1>6, <1>7, <3>1, <3>2 DEF Running
    <2>2. ReadKept(p)'
      BY <1>1, <1>2, <1>3, <1>4, <1>5, <1>6, <1>7 DEF ReadKept, Local
    <2>3. ReadLeads(p)'
      <3>1. \A n \in Alias : old.read[n] \in Relay => Led(old.read[n][1])
        BY <1>1, <1>2, <1>3 DEF ReadLeads, Local
      <3>2. \A n \in Alias : old.read[n] \in Relay => Led(old.read[n][1])'
        BY <1>9, <3>1, RelayFacts
      <3> QED
        BY <1>6, <1>7, <3>2 DEF ReadLeads
    <2>4. Written(p)'
      <3> SUFFICES ASSUME new.alone,
                          NEW i \in 1 .. Len(old.bundle.files) - Len(old.left),
                          old.bundle.files[i] # f
                   PROVE  Served(p, old.bundle.files[i])'
        BY <1>4, <1>6, <1>7 DEF Written
      <3>1. Served(p, old.bundle.files[i])
        BY <1>1, <1>2, <1>3, <1>6 DEF Written, Local
      <3>2. old.bundle.files[i] \in File
        <4>1. old.bundle.files \in Seq(File)
          BY <1>2, <1>3, ConnectInstallAssumption DEF Running
        <4>2. PICK n \in Nat, m \in Nat : n = Len(old.bundle.files) /\ m = Len(old.left)
          <5>1. old.left \in Seq(File)
            BY <1>2 DEF Procs
          <5> QED
            BY <4>1, <5>1, ListFacts
        <4>3. i \in 1 .. n
          BY <4>2
        <4> QED
          BY <4>1, <4>2, <4>3
      <3>3. PICK g \in File : g = old.bundle.files[i]
        BY <3>2
      <3>4. g # f /\ conf'[g] = conf[g]
        BY <1>10, <3>3
      <3>5. Served(p, g)
        BY <3>1, <3>3
      <3>6. proc'[p].bundle = proc[p].bundle /\ proc'[p].id = proc[p].id
        BY <1>2, <1>6, <1>7
      <3>7. Served(p, g)'
        BY <3>4, <3>5, <3>6 DEF Served
      <3> QED
        BY <3>3, <3>7
    <2> QED
      BY <2>1, <2>2, <2>3, <2>4 DEF Local
  <1> QED
    BY <1>11, <1>12, <1>13, <1>14, <1>15 DEF IInv

LEMMA FillStep ==
  ASSUME IInv, NEW p \in Process, Fill(p)
  PROVE  IInv'
  <1>1. Typed /\ FilesKept /\ FilesLead /\ \A q \in Process : Local(q)
    BY DEF IInv
  <1>2. PICK old \in Procs : old = proc[p]
    BY <1>1 DEF Typed
  <1>3. old.at = "fill" /\ Running(p)
    BY <1>1, <1>2 DEF Fill, Local
  <1>4. PICK f \in File : f = Head(old.left)
    BY <1>1, <1>2, <1>3, AtAFile
  <1>5. /\ old.id \in Id /\ old.bundle \in Bundle /\ old.read \in Conf
        /\ old.left \in Seq(File) /\ old.left # <<>>
    BY <1>1, <1>2, <1>3, <1>4, AtAFile DEF Running, Typed, Procs
  <1> DEFINE servers == old.bundle.servers
             relay(i) == <<old.id, servers[i]>>
  <1>6. PICK text : text = Merged(p, f)
    OBVIOUS
  <1>7. /\ text \in Conf /\ text # Torn /\ text[Own] = old.read[Own]
        /\ \A n \in Alias :
              text[n] = old.read[n] \/ (text[n] \in Relay /\ text[n][1] = old.id)
        /\ \A n \in Alias : Named(servers, f, n) # {} =>
              \E i \in Named(servers, f, n) : text[n] = relay(i)
    <2>1. ASSUME NEW n \in Alias, Named(servers, f, n) # {}
          PROVE  /\ text[n] \in Relay /\ text[n][1] = old.id
                 /\ \E i \in Named(servers, f, n) : text[n] = relay(i)
      <3>1. text[n] = Set(p, f, n)
        BY <1>2, <1>6, <2>1 DEF Merged
      <3>2. proc[p].id = old.id /\ proc[p].bundle = old.bundle
        BY <1>2
      <3>3. /\ Set(p, f, n) \in Relay /\ Set(p, f, n)[1] = proc[p].id
            /\ \E i \in Named(proc[p].bundle.servers, f, n) :
                  Set(p, f, n) = <<proc[p].id, proc[p].bundle.servers[i]>>
        <4>1. proc[p].id \in Id /\ proc[p].bundle \in Bundle
          BY <1>5, <3>2
        <4>2. Named(proc[p].bundle.servers, f, n) # {}
          BY <2>1, <3>2
        <4> QED
          BY <4>1, <4>2, SetLeads
      <3> QED
        BY <3>1, <3>2, <3>3
    <2>2. ASSUME NEW n \in Alias, Named(servers, f, n) = {}
          PROVE  text[n] = old.read[n]
      BY <1>2, <1>6, <2>2 DEF Merged
    <2>3. \A n \in Alias :
             text[n] = old.read[n] \/ (text[n] \in Relay /\ text[n][1] = old.id)
      BY <2>1, <2>2
    <2>4. text \in Conf
      <3>1. \A n \in Alias : text[n] \in {None, User} \union Relay
        BY <1>5, <2>3 DEF Conf
      <3>2. text = [n \in Alias |-> text[n]]
        BY <1>6 DEF Merged
      <3> QED
        BY <3>1, <3>2 DEF Conf
    <2>5. text # Torn
      BY <2>4, ConnectInstallAssumption
    <2>6. text[Own] = old.read[Own]
      BY <1>5, <2>2, NamedFacts, ConnectInstallAssumption
    <2> QED
      BY <2>1, <2>3, <2>4, <2>5, <2>6
  <1> HIDE DEF servers, relay
  <1>8. PICK at \in {"manifest", "read"} :
          at = IF Tail(old.left) = <<>> THEN "manifest" ELSE "read"
    OBVIOUS
  <1> DEFINE new == [old EXCEPT !.at = at, !.left = Tail(old.left), !.read = None]
  <1>9. /\ conf' = [conf EXCEPT ![f] = text]
        /\ proc' = Disturbed(p, new)
        /\ cut' = cut \ {f}
        /\ UNCHANGED <<secret, manifest, faults, mine, raced, spoiled>>
    BY <1>2, <1>4, <1>6, <1>8 DEF Fill, Left, AfterFiles
  <1>10. /\ new \in Procs /\ new.at = at
         /\ new.id = old.id /\ new.bundle = old.bundle /\ new.left = Tail(old.left)
         /\ new.alone = old.alone
    BY <1>2, <1>5, ListFacts DEF Procs, Phases
  <1> HIDE DEF new
  <1>11. /\ proc' \in [Process -> Procs] /\ proc'[p] = new
         /\ \A q \in Process \ {p} : Bystander(q) /\ ~proc'[q].alone
    BY <1>1, <1>9, <1>10, WritingStep
  <1>12. \A i \in Id : Readable(i) => Readable(i)'
    BY <1>9 DEF Readable
  <1>13. /\ \A i \in Id : Led(i) => Led(i)'
         /\ Led(old.id)'
    <2>1. \A i \in Id : Led(i) => Led(i)'
      BY <1>2, <1>9, <1>10, <1>11, <1>12, LedStays
    <2>2. Led(old.id)
      BY <1>2, <1>3 DEF Led
    <2> QED
      BY <1>5, <2>1, <2>2
  <1>14. /\ conf' \in [File -> {Torn} \union Conf] /\ conf'[f] = text
         /\ \A g \in File \ {f} : conf'[g] = conf[g]
    BY <1>1, <1>7, <1>9 DEF Typed
  <1>15. Typed'
    BY <1>1, <1>9, <1>11, <1>14 DEF Typed
  <1>16. FilesKept'
    <2>1. f \notin raced => text[Own] = mine[f]
      BY <1>1, <1>2, <1>3, <1>4, <1>7 DEF Local, ReadKept
    <2>2. ASSUME NEW g \in File \ {f} PROVE Filling(g) \/ g \in cut => Filling(g)' \/ g \in cut'
      BY <1>2, <1>4, <1>9, <1>11, TornStays
    <2> QED
      BY <1>1, <1>7, <1>9, <1>14, <2>1, <2>2 DEF FilesKept, UserKept
  <1>17. FilesLead'
    <2>1. \A n \in Alias : old.read[n] \in Relay => Led(old.read[n][1])
      BY <1>1, <1>2, <1>3 DEF ReadLeads, Local
    <2>2. ASSUME NEW n \in Alias, text[n] \in Relay PROVE Led(text[n][1])'
      BY <1>7, <1>13, <2>1, <2>2, RelayFacts
    <2>3. ASSUME NEW g \in File \ {f}, conf'[g] # Torn,
                 NEW n \in Alias, conf'[g][n] \in Relay,
                 NEW i \in Id, i = conf'[g][n][1]
          PROVE  Led(i)'
      <3>1. conf'[g] = conf[g]
        BY <1>14
      <3>2. Led(i)
        BY <1>1, <2>3, <3>1 DEF FilesLead
      <3> QED
        BY <1>13, <3>2
    <2>4. \A n \in Alias : conf'[f][n] \in Relay => Led(conf[f][n][1])'
      BY <1>14, <2>2
    <2>5. ASSUME NEW g \in File \ {f}, conf'[g] # Torn, NEW n \in Alias,
                 conf'[g][n] \in Relay
          PROVE  Led(conf[g][n][1])'
      <3>1. PICK i \in Id : i = conf'[g][n][1]
        BY <2>5, RelayFacts
      <3> QED
        BY <2>3, <2>5, <3>1
    <2> QED
      BY <2>4, <2>5 DEF FilesLead
  <1>18. ASSUME NEW q \in Process \ {p} PROVE Local(q)'
    BY <1>1, <1>9, <1>11, <1>13, BystandersStay
  <1>19. Local(p)'
    <2>1. PICK files \in Seq(File) : files = old.bundle.files
      BY <1>5, ConnectInstallAssumption
    <2>2. PICK n \in Nat, m \in Nat : n = Len(files) /\ m = Len(old.left)
      BY <1>5, <2>1, ListFacts
    <2>3. /\ 1 <= m /\ m <= n
          /\ \A j \in 1 .. m : old.left[j] = files[n - m + j]
      <3>1. m # 0
        BY <1>5, <2>2, ListFacts
      <3>2. /\ Len(old.left) <= Len(old.bundle.files)
            /\ \A j \in 1 .. Len(old.left) :
                  old.left[j] = old.bundle.files[Len(old.bundle.files) - Len(old.left) + j]
        BY <1>2, <1>3 DEF Running
      <3>3. m <= n /\ \A j \in 1 .. m : old.left[j] = files[n - m + j]
        BY <2>1, <2>2, <3>2, Zenon
      <3> QED
        BY <3>1, <3>3
    <2>4. /\ Len(Tail(old.left)) = m - 1
          /\ \A j \in 1 .. m - 1 : Tail(old.left)[j] = old.left[j + 1]
      BY <1>5, <2>2, ListFacts
    <2>5. \A j \in 1 .. m - 1 : Tail(old.left)[j] = files[n - (m - 1) + j]
      <3> TAKE j \in 1 .. m - 1
      <3>1. j + 1 \in 1 .. m /\ n - m + (j + 1) = n - (m - 1) + j
        BY <2>2, <2>3
      <3> QED
        BY <2>3, <2>4, <3>1
    <2>6. Running(p)'
      <3>1. m - 1 <= n
        BY <2>2, <2>3
      <3>2. Len(new.left) = m - 1 /\ new.bundle.files = files
        BY <1>10, <2>1, <2>4
      <3>3. new.at = "read" => new.left # <<>>
        BY <1>8, <1>10
      <3>4. new.at = "manifest" => new.left = <<>>
        BY <1>8, <1>10
      <3>5. new.id \in secret' /\ new.bundle \in Bundle
        BY <1>2, <1>3, <1>5, <1>9, <1>10 DEF Running
      <3>6. new.at \in {"manifest", "read"}
        BY <1>8, <1>10
      <3>7. /\ Len(new.left) <= Len(new.bundle.files)
            /\ \A j \in 1 .. Len(new.left) :
                  new.left[j] = new.bundle.files[Len(new.bundle.files) - Len(new.left) + j]
        BY <1>10, <2>2, <2>5, <3>1, <3>2
      <3> QED
        BY <1>11, <3>3, <3>4, <3>5, <3>6, <3>7 DEF Running
    <2>7. Written(p)'
      <3> SUFFICES ASSUME new.alone, NEW i \in 1 .. n - (m - 1)
                   PROVE  Served(p, files[i])'
        BY <1>10, <1>11, <2>1, <2>2, <2>4 DEF Written
      <3>1. files[n - m + 1] = f
        <4>1. old.left[1] = f
          BY <1>4, <1>5, ListFacts
        <4>2. 1 \in 1 .. m
          BY <2>3
        <4> QED
          BY <2>3, <4>1, <4>2
      <3>2. files[i] \in File
        BY <2>1, <2>2, <2>3
      <3>3. CASE files[i] = f
        BY <1>7, <1>10, <1>11, <1>14, <3>3 DEF Served, servers, relay
      <3>4. CASE files[i] # f
        <4>1. i # n - m + 1
          BY <3>1, <3>4
        <4>2. i \in 1 .. n - m
          BY <2>2, <2>3, <4>1
        <4>3. Served(p, files[i])
          BY <1>1, <1>2, <1>3, <1>4, <1>10, <2>1, <2>2, <3>4, <4>2 DEF Written, Local
        <4>4. PICK g \in File : g = files[i]
          BY <3>2
        <4>5. conf'[g] = conf[g] /\ Served(p, g)
          BY <1>14, <3>4, <4>3, <4>4
        <4>6. proc'[p].bundle = proc[p].bundle /\ proc'[p].id = proc[p].id
          BY <1>2, <1>10, <1>11
        <4>7. Served(p, g)'
          BY <4>5, <4>6 DEF Served
        <4> QED
          BY <4>4, <4>7
      <3> QED
        BY <3>3, <3>4
    <2> QED
      BY <1>8, <1>10, <1>11, <2>6, <2>7 DEF Local, ReadKept, ReadLeads
  <1> QED
    BY <1>15, <1>16, <1>17, <1>18, <1>19 DEF IInv

LEMMA TruncateManifestStep ==
  ASSUME IInv, NEW p \in Process, TruncateManifest(p)
  PROVE  IInv'
  <1>1. Typed /\ FilesKept /\ FilesLead /\ \A q \in Process : Local(q)
    BY DEF IInv
  <1>2. PICK old \in Procs : old = proc[p]
    BY <1>1 DEF Typed
  <1>3. old.at = "manifest" /\ Running(p)
    BY <1>1, <1>2 DEF TruncateManifest, Local
  <1> DEFINE new == [old EXCEPT !.at = "record"]
  <1>4. /\ manifest' = [manifest EXCEPT ![old.id] = Torn]
        /\ proc' = Disturbed(p, new)
        /\ UNCHANGED <<secret, conf, faults, mine, raced, cut, spoiled>>
    BY <1>2 DEF TruncateManifest
  <1>5. /\ new \in Procs /\ new.at = "record" /\ new.read = old.read
        /\ new.id = old.id /\ new.bundle = old.bundle /\ new.left = old.left
        /\ new.alone = old.alone
    BY <1>2 DEF Procs, Phases
  <1> HIDE DEF new
  <1>6. /\ proc' \in [Process -> Procs] /\ proc'[p] = new
        /\ \A q \in Process \ {p} : Bystander(q) /\ ~proc'[q].alone
    BY <1>1, <1>4, <1>5, WritingStep
  <1>7. /\ manifest' \in [Id -> {None, Torn} \union Bundle]
        /\ \A i \in Id \ {old.id} : manifest'[i] = manifest[i]
    BY <1>1, <1>4 DEF Typed
  <1>8. \A i \in Id : Readable(i) => Readable(i)' \/ new.id = i
    BY <1>4, <1>5, <1>7 DEF Readable
  <1>9. \A i \in Id : Led(i) => Led(i)'
    BY <1>2, <1>4, <1>5, <1>6, <1>8, LedStays
  <1>10. Typed'
    BY <1>1, <1>4, <1>6, <1>7 DEF Typed
  <1>11. FilesKept' /\ FilesLead'
    BY <1>1, <1>2, <1>3, <1>4, <1>6, <1>9, FilesStay
  <1>12. ASSUME NEW q \in Process \ {p} PROVE Local(q)'
    BY <1>1, <1>4, <1>6, <1>9, BystandersStay
  <1>13. Local(p)'
    <2>1. Running(p)'
      <3>1. Running(p) /\ proc[p].left = <<>>
        BY <1>1, <1>2, <1>3 DEF Running
      <3> QED
        BY <1>2, <1>3, <1>4, <1>5, <1>6, <3>1, RunningStays
    <2>2. \A f : Served(p, f) => Served(p, f)'
      BY <1>2, <1>4, <1>5, <1>6 DEF Served
    <2>3. Written(p)'
      BY <1>1, <1>2, <1>3, <1>5, <1>6, <2>2 DEF Written, Local
    <2> QED
      BY <1>5, <1>6, <2>1, <2>3 DEF Local, ReadKept, ReadLeads
  <1> QED
    BY <1>10, <1>11, <1>12, <1>13 DEF IInv

LEMMA FinishStep ==
  ASSUME IInv, NEW p \in Process, Finish(p)
  PROVE  IInv'
  <1>1. Typed /\ FilesKept /\ FilesLead /\ \A q \in Process : Local(q)
    BY DEF IInv
  <1>2. PICK old \in Procs : old = proc[p]
    BY <1>1 DEF Typed
  <1>3. old.at = "record" /\ Running(p)
    BY <1>1, <1>2 DEF Finish, Local
  <1>4. old.id \in secret /\ old.id \in Id /\ old.bundle \in Bundle
    BY <1>1, <1>2, <1>3 DEF Running, Typed
  <1>5. PICK new : new = IF old.todo = {} THEN Idle ELSE [old EXCEPT !.at = "next"]
    OBVIOUS
  <1>6. /\ manifest' = [manifest EXCEPT ![old.id] = old.bundle]
        /\ proc' = Disturbed(p, new)
        /\ UNCHANGED <<secret, conf, faults, mine, raced, cut, spoiled>>
    BY <1>2, <1>5 DEF Finish
  <1>7. /\ new \in Procs /\ new.at \in {"idle", "next"}
        /\ new.at = "next" =>
              new.id = old.id /\ new.bundle = old.bundle /\ new.left = old.left
    <2>1. CASE old.todo = {}
      BY <1>5, <2>1, IdleTyped
    <2>2. CASE old.todo # {}
      BY <1>2, <1>5, <2>2 DEF Procs, Phases
    <2> QED
      BY <2>1, <2>2
  <1>8. /\ proc' \in [Process -> Procs] /\ proc'[p] = new
        /\ \A q \in Process \ {p} : Bystander(q) /\ ~proc'[q].alone
    BY <1>1, <1>6, <1>7, WritingStep
  <1>9. /\ manifest' \in [Id -> {None, Torn} \union Bundle]
        /\ manifest'[old.id] = old.bundle
        /\ \A i \in Id \ {old.id} : manifest'[i] = manifest[i]
    BY <1>1, <1>4, <1>6 DEF Typed
  <1>10. /\ \A i \in Id : Readable(i) => Readable(i)'
         /\ \A i \in Id : i = old.id => Readable(i)'
    BY <1>4, <1>6, <1>9 DEF Readable
  <1>11. \A i \in Id : Led(i) => Led(i)'
    BY <1>2, <1>6, <1>7, <1>8, <1>10, LedStays
  <1>12. Typed'
    BY <1>1, <1>6, <1>8, <1>9 DEF Typed
  <1>13. FilesKept' /\ FilesLead'
    BY <1>1, <1>2, <1>3, <1>6, <1>8, <1>11, FilesStay
  <1>14. ASSUME NEW q \in Process \ {p} PROVE Local(q)'
    BY <1>1, <1>6, <1>8, <1>11, BystandersStay
  <1>15. Local(p)'
    <2>1. Running(p)'
      <3>1. CASE new.at = "idle"
        BY <1>8, <3>1 DEF Running
      <3>2. CASE new.at = "next"
        BY <1>2, <1>3, <1>6, <1>7, <1>8, <3>2, RunningStays
      <3> QED
        BY <1>7, <3>1, <3>2
    <2> QED
      BY <1>7, <1>8, <2>1 DEF Local, ReadKept, ReadLeads, Written
  <1> QED
    BY <1>12, <1>13, <1>14, <1>15 DEF IInv

LEMMA UserEditsStep ==
  ASSUME IInv, NEW f \in File, NEW own \in {User, None}, UserEdits(f, own)
  PROVE  IInv'
  <1>1. Typed /\ FilesKept /\ FilesLead /\ \A q \in Process : Local(q)
    BY DEF IInv
  <1>2. PICK old \in Conf : old = IF conf[f] = Torn THEN Empty ELSE conf[f]
    <2>1. Empty \in Conf
      BY DEF Empty, Conf
    <2>2. conf[f] \in {Torn} \union Conf
      BY <1>1 DEF Typed
    <2> QED
      BY <2>1, <2>2, Zenon
  <1> DEFINE text == [old EXCEPT ![Own] = own]
  <1>3. /\ text \in Conf /\ text[Own] = own
        /\ \A n \in Alias \ {Own} : text[n] = old[n]
    BY ConnectInstallAssumption DEF Conf
  <1>4. conf' = [conf EXCEPT ![f] = text] /\ mine' = [mine EXCEPT ![f] = own]
    BY <1>2 DEF UserEdits
  <1> HIDE DEF text
  <1>5. /\ UNCHANGED <<secret, manifest, spoiled>> /\ cut' = cut \ {f}
        /\ proc' = [p \in Process |-> [proc[p] EXCEPT !.alone = FALSE]]
        /\ ~Filling(f)
        /\ raced' = IF \E p \in Process : /\ proc[p].at = "truncate"
                                          /\ Head(proc[p].left) = f
                    THEN raced \union {f} ELSE raced \ {f}
    BY DEF UserEdits
  <1>6. /\ proc' \in [Process -> Procs]
        /\ \A q \in Process : Bystander(q) /\ ~proc'[q].alone
    <2>1. ASSUME NEW q \in Process
          PROVE  proc'[q] \in Procs /\ Bystander(q) /\ ~proc'[q].alone
      <3>1. proc[q] \in Procs /\ proc'[q] = [proc[q] EXCEPT !.alone = FALSE]
        BY <1>1, <1>5 DEF Typed
      <3> QED
        BY <3>1 DEF Procs, Bystander
    <2> QED
      BY <1>5, <2>1
  <1>7. /\ conf' \in [File -> {Torn} \union Conf] /\ conf'[f] = text
        /\ \A g \in File \ {f} : conf'[g] = conf[g] /\ mine'[g] = mine[g]
        /\ mine' \in [File -> {User, None}] /\ mine'[f] = own
    BY <1>1, <1>3, <1>4 DEF Typed
  <1>8. \A g \in File \ {f} : g \in raced' <=> g \in raced
    BY <1>5
  <1>9. \A i \in Id : Led(i) => Led(i)'
    BY <1>5, <1>6 DEF Led, Readable, Bystander
  <1>10. Typed'
    BY <1>1, <1>5, <1>6, <1>7 DEF Typed
  <1>11. FilesKept'
    <2>1. text # Torn
      BY <1>3, ConnectInstallAssumption
    <2>2. \A g \in File \ {f} : Filling(g) \/ g \in cut => Filling(g)' \/ g \in cut'
      BY <1>5, <1>6 DEF Filling, Bystander
    <2> QED
      BY <1>1, <1>3, <1>7, <1>8, <2>1, <2>2 DEF FilesKept, UserKept
  <1>12. FilesLead'
    <2>1. \A n \in Alias : text[n] \in Relay =>
              conf[f] # Torn /\ text[n] = conf[f][n]
      BY <1>2, <1>3, RelayFacts DEF Empty
    <2>2. \A n \in Alias : text[n] \in Relay => Led(text[n][1])'
      BY <1>1, <1>9, <2>1, RelayFacts DEF FilesLead
    <2> QED
      BY <1>1, <1>7, <1>9, <2>2, RelayFacts DEF FilesLead
  <1>13. ASSUME NEW q \in Process PROVE Local(q)'
    <2>1. Running(q)'
      <3>1. Running(q) /\ Bystander(q)
        BY <1>1, <1>6 DEF Local
      <3>2. /\ proc[q].at \in {"read", "truncate", "fill"} => proc[q].left # <<>>
            /\ proc[q].at \in {"manifest", "record"} => proc[q].left = <<>>
            /\ proc[q].at \in {"truncate", "fill"} => proc[q].read \in Conf
        BY <3>1 DEF Running
      <3> QED
        BY <1>5, <3>1, <3>2, RunningStays DEF Bystander
    <2>2. ReadKept(q)'
      <3> SUFFICES ASSUME proc[q].at \in {"truncate", "fill"},
                          Head(proc[q].left) \notin raced'
                   PROVE  proc[q].read[Own] = mine'[Head(proc[q].left)]
        BY <1>6 DEF ReadKept, Bystander
      <3>1. Head(proc[q].left) \in File
        BY <1>1, AtAFile DEF Local
      <3>2. Head(proc[q].left) # f
        BY <1>5 DEF Filling
      <3> QED
        BY <1>1, <1>7, <1>8, <3>1, <3>2 DEF Local, ReadKept
    <2>3. ReadLeads(q)'
      BY <1>1, <1>6, <1>9, RelayFacts DEF Local, ReadLeads, Bystander
    <2>4. Written(q)'
      BY <1>6 DEF Written
    <2> QED
      BY <2>1, <2>2, <2>3, <2>4 DEF Local
  <1> QED
    BY <1>10, <1>11, <1>12, <1>13 DEF IInv

----------------------------------------------------------------------------
LEMMA InstallStep ==
  ASSUME IInv, NEW p \in Process, NEW b \in Bundle, NEW id \in Id, Install(p, b, id)
  PROVE  IInv'
  <1>1. /\ proc[p].at = "idle" /\ secret' = secret \union {id}
        /\ proc' = [proc EXCEPT ![p] = Started(id, b, {})]
        /\ UNCHANGED <<manifest, conf, mine, raced, cut, spoiled>>
    BY DEF Install
  <1>2. secret' \subseteq Id
    BY <1>1 DEF IInv, Typed
  <1>3. {} \in SUBSET Id
    OBVIOUS
  <1> QED
    BY <1>1, <1>2, <1>3, StartStep

LEMMA SyncStep ==
  ASSUME IInv, NEW p \in Process, proc[p].at \in {"idle", "next"},
         NEW id \in Id, NEW todo \in SUBSET Id, Sync(p, id, todo)
  PROVE  IInv'
  <1>1. PICK b \in Bundle : b = manifest[id]
    BY DEF Sync, Readable
  <1>2. /\ proc' = [proc EXCEPT ![p] = Started(id, b, todo)]
        /\ id \in secret
        /\ UNCHANGED <<secret, manifest, conf, mine, raced, cut, spoiled>>
    BY <1>1 DEF Sync, Readable
  <1>3. secret \subseteq Id
    BY DEF IInv, Typed
  <1> QED
    BY <1>2, <1>3, StartStep

LEMMA NextPreserves == IInv /\ [Next]_vars => IInv'
  <1> SUFFICES ASSUME IInv, [Next]_vars PROVE IInv'
    OBVIOUS
  <1>1. ASSUME NEW p \in Process, NEW b \in Bundle, NEW id \in Id, Install(p, b, id)
        PROVE  IInv'
    BY <1>1, InstallStep
  <1>2. ASSUME NEW p \in Process, SyncOne(p) PROVE IInv'
    BY <1>2, SyncStep DEF SyncOne
  <1>3. ASSUME NEW p \in Process, SyncAll(p) PROVE IInv'
    BY <1>3, SyncStep DEF SyncAll
  <1>4. ASSUME NEW p \in Process, SyncNext(p) PROVE IInv'
    <2>1. proc[p].at = "next" /\ proc[p].todo \subseteq Id
      BY <1>4 DEF SyncNext, IInv, Typed, Procs
    <2>2. ASSUME NEW id \in proc[p].todo, Sync(p, id, proc[p].todo \ {id})
          PROVE  IInv'
      BY <2>1, <2>2, SyncStep
    <2>3. ASSUME proc' = [proc EXCEPT ![p] = Idle],
                 UNCHANGED <<secret, manifest, conf, faults, mine, raced, cut, spoiled>>
          PROVE  IInv'
      BY <2>1, <2>3, IdleStep
    <2> QED
      BY <1>4, <2>2, <2>3 DEF SyncNext
  <1>5. ASSUME NEW p \in Process, Stops(p) PROVE IInv'
    BY <1>5, IdleStep DEF Stops
  <1>6. ASSUME NEW p \in Process, Run(p) PROVE IInv'
    BY <1>4, <1>5, <1>6, ReadConfStep, TruncateStep, FillStep, TruncateManifestStep,
       FinishStep DEF Run, Throws
  <1>7. ASSUME NEW p \in Process, Crash(p) PROVE IInv'
    BY <1>5, <1>7 DEF Crash
  <1>8. ASSUME NEW f \in File, NEW own \in {User, None}, UserEdits(f, own)
        PROVE  IInv'
    BY <1>8, UserEditsStep
  <1>9. CASE UNCHANGED vars
    <2>1. Typed' /\ FilesKept' /\ FilesLead'
      BY <1>9 DEF vars, IInv, Typed, FilesKept, UserKept, Filling, FilesLead, Led, Readable
    <2>2. ASSUME NEW p \in Process PROVE Local(p)'
      <3>1. Bystander(p) /\ Local(p)
        BY <1>9 DEF vars, IInv, Bystander
      <3>2. \A i \in Id : Led(i) => Led(i)'
        BY <1>9 DEF vars, Led, Readable
      <3> QED
        BY <1>9, <3>1, <3>2, BystandersStay DEF vars
    <2> QED
      BY <2>1, <2>2 DEF IInv
  <1> QED
    BY <1>1, <1>2, <1>3, <1>6, <1>7, <1>8, <1>9 DEF Next

(***************************************************************************)
(* The inductive invariant: files, and what processes have read of them,   *)
(* keep the user's own entries and lead to installations that are there    *)
(* or being worked on (local.ts:62-314).                                   *)
(***************************************************************************)
THEOREM Invariance == Spec => []IInv
  <1> QED
    BY InitHolds, NextPreserves, PTL DEF Spec

(***************************************************************************)
(* A user's own server is lost from a file only by an edit between a       *)
(* process's read and its write, by a text file read half written, or by a *)
(* crash between the truncation and the filling of this file (local.ts:293, *)
(* 575): any other interleaving of installs, syncs, edits and crashes      *)
(* keeps it, and no other file is ever left torn.                          *)
(***************************************************************************)
THEOREM UserAlwaysKept == Spec => []UserKept
  <1>1. IInv => UserKept
    BY DEF IInv, FilesKept
  <1> QED
    BY <1>1, Invariance, PTL

(***************************************************************************)
(* No entry names an installation that nobody has finished, works on or    *)
(* has left half done (relay.ts:10).                                       *)
(***************************************************************************)
THEOREM EntriesAlwaysLead == Spec => []EntriesLead
  <1>1. IInv => EntriesLead
    BY DEF IInv, FilesLead, Led, EntriesLead
  <1> QED
    BY <1>1, Invariance, PTL

(***************************************************************************)
(* An install or a sync that nobody disturbed has done what it reports,    *)
(* in every file of its target: each server's name leads through the new   *)
(* relay to a server of the bundle with this name, the server itself       *)
(* wherever no two share one (local.ts:62, 84, 469).                       *)
(***************************************************************************)
THEOREM AlwaysDelivered == Spec => Delivered
  <1> DEFINE Done ==
        \A p \in Process : Finish(p) /\ proc[p].alone =>
          /\ \A i \in 1 .. Len(proc[p].bundle.files) :
                Served(p, proc[p].bundle.files[i])
          /\ manifest'[proc[p].id] = proc[p].bundle /\ proc[p].id \in secret
  <1>1. IInv => Done
    <2> SUFFICES ASSUME IInv, NEW p \in Process, Finish(p), proc[p].alone
                 PROVE
          /\ \A i \in 1 .. Len(proc[p].bundle.files) :
                Served(p, proc[p].bundle.files[i])
          /\ manifest'[proc[p].id] = proc[p].bundle /\ proc[p].id \in secret
      OBVIOUS
    <2>1. proc[p].at = "record" /\ Running(p) /\ Written(p)
      BY DEF Finish, IInv, Local
    <2>2. /\ proc[p].id \in secret /\ proc[p].bundle \in Bundle
          /\ proc[p].left = <<>>
      BY <2>1 DEF Running
    <2>3. manifest'[proc[p].id] = proc[p].bundle
      BY <2>2 DEF Finish, IInv, Typed
    <2>4. Len(proc[p].bundle.files) - Len(proc[p].left) = Len(proc[p].bundle.files)
      <3>1. proc[p].bundle.files \in Seq(File)
        BY <2>2, ConnectInstallAssumption
      <3> QED
        BY <2>2, <3>1, ListFacts
    <2>5. \A i \in 1 .. Len(proc[p].bundle.files) : Served(p, proc[p].bundle.files[i])
      BY <2>1, <2>4 DEF Written
    <2> QED
      BY <2>2, <2>3, <2>5
  <1>2. Done => [Done]_vars
    OBVIOUS
  <1> QED
    BY <1>1, <1>2, Invariance, PTL DEF Delivered
=============================================================================
