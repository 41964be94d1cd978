--------------------------- MODULE PublishedProofs ---------------------------
(***************************************************************************)
(* Proofs about the two things that are published for others.              *)
(*                                                                         *)
(* The API snapshots, for any crates, projects, files and contracts, any   *)
(* publications and syncs at once, and any edits and kills.                *)
(*                                                                         *)
(* package-check, for any kernels, bridges and manifests, and whatever is  *)
(* edited, rebuilt, entered and generated while it reads the package.      *)
(*                                                                         *)
(* Operation ids, for any two bridges: a fingerprint can be read in only   *)
(* one way, as the layout it was made of.                                  *)
(***************************************************************************)
EXTENDS ApiSnapshots, LanguagePackage, SequenceTheorems, FiniteSetTheorems,
        WellFoundedInduction, TLAPS


Steps == {"load", "gather"} \cup Comparing \cup Exchanging \cup Ended


-----------------------------------------------------------------------------
(* The constants, and the operators of the model. *)

LEMMA HomeTyped ==
    /\ \A p \in Publisher : Home(p) = Publishes[p] /\ Home(p) \in Crate
    /\ \A s \in Syncer : Home(s) = SyncsFor[s] /\ Home(s) \in Project /\ s \notin Publisher
    /\ \A p \in Process : Home(p) \in Place /\ (p \in Publisher <=> p \notin Syncer)
    /\ Process \cap Place = {} /\ None \notin Directory /\ Process \cup Place = Directory
    /\ Crate \cap Project = {} /\ Crate \cup Project = Place
  BY SnapshotsAssumption DEF Home, Place, Directory, Process

LEMMA FirstIsFile ==
    ASSUME NEW S \in SUBSET File, S # {}
    PROVE  FirstOf(S) \in S
<1> DEFINE places == {i \in DOMAIN Files : Files[i] \in S}
<1>1. places \subseteq Nat
  BY SnapshotsAssumption
<1>2. places # {}
  BY DEF File
<1>3. PICK i \in places : \A j \in places : i <= j
  <2> HIDE DEF places
  <2>1. places \in SUBSET Nat
    BY <1>1
  <2>2. PICK i \in places : \A j \in places : <<j, i>> \notin OpToRel(<, Nat)
    BY <1>2, <2>1, NatLessThanWellFounded, WFMin
  <2>3. \A j \in places : ~(j < i)
    BY <2>1, <2>2 DEF OpToRel
  <2>4. \A j \in places : i <= j
    BY <2>1, <2>3
  <2>5. QED
    BY <2>4
<1>4. (CHOOSE k \in places : \A j \in places : k <= j) \in places
  BY <1>3
<1>5. QED
  BY <1>4 DEF FirstOf

LEMMA ListItem ==
    ASSUME NEW T, NEW list \in Seq(T), NEW i \in DOMAIN list
    PROVE  list[i] \in T /\ i \in Nat
  OBVIOUS

\* What Put and Without do to the directory and to the others.
LEMMA PutDisk ==
    ASSUME SnapTyped, NEW e \in Directory, NEW n, NEW value
    PROVE  /\ DOMAIN Put(e, n, value)[e] = DOMAIN disk[e] \cup {n}
           /\ Put(e, n, value)[e][n] = value
           /\ \A m \in DOMAIN disk[e] : m # n => Put(e, n, value)[e][m] = disk[e][m]
           /\ \A d \in Directory \ {e} : Put(e, n, value)[d] = disk[d]
  BY DEF Put, SnapTyped

LEMMA WithoutDisk ==
    ASSUME SnapTyped, NEW e \in Directory, NEW n
    PROVE  /\ DOMAIN Without(e, n)[e] = DOMAIN disk[e] \ {n}
           /\ \A m \in DOMAIN disk[e] \ {n} : Without(e, n)[e][m] = disk[e][m]
           /\ \A d \in Directory \ {e} : Without(e, n)[d] = disk[d]
  BY DEF Without, SnapTyped

LEMMA DisturbMore ==
    ASSUME SnapTyped, NEW p \in Process, Disturb(p)
    PROVE  /\ disturbed' \in [Syncer -> SUBSET Crate]
           /\ \A s \in Syncer : disturbed[s] \subseteq disturbed'[s]
           /\ \A s \in Syncer : pc[s] \in {"list", "digest", "copy"} /\ Current(s).crate = Home(p) /\ Home(p) \in Crate
                                => Current(s).crate \in disturbed'[s]
  BY DEF Disturb, SnapTyped

-----------------------------------------------------------------------------
(* Types. *)

\* A process goes to a step of its kind.
LEMMA GoTyped ==
    ASSUME SnapTyped, NEW p \in Process, NEW to \in Steps, Goto(p, to),
           p \in Publisher => to \notin Comparing,
           p \in Syncer => to # "gather"
    PROVE  /\ pc' \in [Process -> Steps] /\ pc'[p] = to /\ \A q \in Process \ {p} : pc'[q] = pc[q]
           /\ \A q \in Publisher : pc'[q] \notin Comparing
           /\ \A s \in Syncer : pc'[s] # "gather"
<1>1. pc \in [Process -> Steps]
  BY DEF SnapTyped, Steps
<1>2. pc' = [pc EXCEPT ![p] = to]
  BY DEF Goto
<1>3. pc' \in [Process -> Steps] /\ pc'[p] = to /\ \A q \in Process \ {p} : pc'[q] = pc[q]
  BY <1>1, <1>2
<1>4. Publisher \subseteq Process /\ Syncer \subseteq Process
  BY DEF Process
<1>5. QED
  BY <1>3, <1>4 DEF SnapTyped

LEMMA PublishTyped == ASSUME SnapTyped, NEW p \in Publisher, Publish(p) PROVE SnapTyped'
<1>0. p \in Process /\ p \in Directory /\ Home(p) \in Crate
  BY HomeTyped DEF Process, Directory
<1>1. UNCHANGED <<at, victim, record, seen, wants, index, disturbed>>
  BY DEF Publish, Load, CopySource, Seal, RefuseManifest, syncing
<1>2. disk' = [d \in Directory |-> disk'[d]]
  <2>0. disk = [d \in Directory |-> disk[d]]
    BY DEF SnapTyped
  <2>1. CASE CopySource(p)
    <3>1. PICK n, value : disk' = Put(p, n, value)
      BY <2>1 DEF CopySource
    <3>2. QED
      BY <2>0, <3>1 DEF Put
  <2>2. CASE Seal(p)
    BY <2>0, <2>2 DEF Seal
  <2>3. CASE ~CopySource(p) /\ ~Seal(p)
    BY <2>0, <2>3 DEF Publish, Load, RefuseManifest
  <2>4. QED
    BY <2>1, <2>2, <2>3
<1>3. published' = [c \in Crate |-> published'[c]]
  BY <1>0 DEF Publish, Load, CopySource, Seal, RefuseManifest, SnapTyped
<1>4. todo' \in [Process -> SUBSET File]
  BY <1>0 DEF Publish, Load, CopySource, Seal, RefuseManifest, SnapTyped
<1>5. /\ pc' \in [Process -> Steps] /\ \A q \in Publisher : pc'[q] \notin Comparing
      /\ \A s \in Syncer : pc'[s] # "gather" /\ pc'[s] = pc[s]
  <2>1. pc' = pc \/ \E to \in {"gather", "look", "refused"} : Goto(p, to)
    BY DEF Publish, Load, CopySource, Seal, RefuseManifest
  <2>2. CASE pc' = pc
    BY <2>2 DEF SnapTyped, Steps
  <2>3. CASE \E to \in {"gather", "look", "refused"} : Goto(p, to)
    <3>1. PICK to \in {"gather", "look", "refused"} : Goto(p, to)
      BY <2>3
    <3>2. to \in Steps /\ to \notin Comparing /\ p \notin Syncer
      BY <1>0, HomeTyped DEF Steps, Exchanging, Ended, Comparing
    <3>3. QED
      BY <1>0, <3>1, <3>2, GoTyped DEF Process
  <2>4. QED
    BY <2>1, <2>2, <2>3
<1>6. QED
  BY <1>1, <1>2, <1>3, <1>4, <1>5 DEF SnapTyped, Steps

LEMMA ExchangeTyped == ASSUME SnapTyped, PlaceInv, NEW p \in Process, Exchange(p) \/ Kill(p) PROVE SnapTyped'
<1>0. p \in Directory /\ Home(p) \in Place
  BY HomeTyped DEF Directory
<1>1. UNCHANGED <<todo, record, seen, wants, index, published>>
  BY DEF Exchange, Look, Open, Unlink, RemoveDirectory, Rename, Kill, syncing
<1>2. disk' = [d \in Directory |-> disk'[d]]
  <2>1. CASE Unlink(p)
    <3>1. PICK d \in Directory : d = victim[p]
      BY <2>1 DEF Unlink, PlaceInv, SnapTyped
    <3>2. PICK n : disk' = Without(d, n)
      BY <2>1, <3>1 DEF Unlink
    <3>3. QED
      BY <3>2 DEF Without, SnapTyped
  <2>2. CASE ~Unlink(p)
    BY <2>2 DEF Exchange, Look, Open, RemoveDirectory, Rename, Kill, SnapTyped
  <2>3. QED
    BY <2>1, <2>2
<1>3. at' \in [Place -> Directory \cup {None}]
  BY <1>0 DEF Exchange, Look, Open, Unlink, RemoveDirectory, Rename, Kill, SnapTyped
<1>4. victim' \in [Process -> Directory \cup {None}]
  BY <1>0 DEF Exchange, Look, Open, Unlink, RemoveDirectory, Rename, Kill, SnapTyped
<1>5. disturbed' \in [Syncer -> SUBSET Crate]
  <2>1. Disturb(p) \/ disturbed' = disturbed
    BY DEF Exchange, Look, Open, Unlink, RemoveDirectory, Rename, Kill
  <2>2. QED
    BY <2>1, DisturbMore DEF SnapTyped
<1>6. /\ pc' \in [Process -> Steps] /\ \A q \in Publisher : pc'[q] \notin Comparing
      /\ \A s \in Syncer : pc'[s] # "gather" /\ (pc'[s] \in Comparing => pc'[s] = pc[s])
  <2>1. pc' = pc \/ \E to \in {"done", "rename", "open", "failed", "unlink", "killed"} : Goto(p, to)
    BY DEF Exchange, Look, Open, Unlink, RemoveDirectory, Rename, Kill, AfterRemoving
  <2>2. CASE pc' = pc
    BY <2>2 DEF SnapTyped, Steps
  <2>3. CASE \E to \in {"done", "rename", "open", "failed", "unlink", "killed"} : Goto(p, to)
    <3>1. PICK to \in {"done", "rename", "open", "failed", "unlink", "killed"} : Goto(p, to)
      BY <2>3
    <3>2. to \in Steps /\ to \notin Comparing /\ to # "gather"
      BY DEF Steps, Exchanging, Ended, Comparing
    <3>3. QED
      BY <3>1, <3>2, GoTyped DEF Process
  <2>4. QED
    BY <2>1, <2>2, <2>3
<1>7. QED
  BY <1>1, <1>2, <1>3, <1>4, <1>5, <1>6 DEF SnapTyped, Steps

LEMMA SyncTyped == ASSUME SnapTyped, NEW s \in Syncer, Sync(s) PROVE SnapTyped'
<1>0. s \in Process /\ s \in Directory /\ s \notin Publisher
  BY HomeTyped DEF Process, Directory
<1>1. UNCHANGED <<at, victim, disturbed, published>>
  BY DEF Sync, StartSync, ReadRecord, List, ReadFile, Accept, CopyFile, NextDependency
<1>2. disk' = [d \in Directory |-> disk'[d]]
  <2>0. disk = [d \in Directory |-> disk[d]]
    BY DEF SnapTyped
  <2>1. \/ disk' \in {disk, [disk EXCEPT ![s] = <<>>]}
        \/ \E n, value : disk' = Put(s, n, value)
    BY DEF Sync, StartSync, ReadRecord, List, ReadFile, Accept, CopyFile, NextDependency, Refuse
  <2>2. CASE \E n, value : disk' = Put(s, n, value)
    <3>1. PICK n, value : disk' = Put(s, n, value)
      BY <2>2
    <3>2. QED
      BY <2>0, <3>1 DEF Put
  <2>3. QED
    BY <2>0, <2>1, <2>2
<1>3. record' = [r \in Syncer |-> record'[r]] /\ seen' = [r \in Syncer |-> seen'[r]]
  BY DEF Sync, StartSync, ReadRecord, List, ReadFile, Accept, CopyFile, NextDependency, Refuse, SnapTyped
<1>4. todo' \in [Process -> SUBSET File]
  BY <1>0 DEF Sync, StartSync, ReadRecord, List, ReadFile, Accept, CopyFile, NextDependency, Refuse, Listing, SnapTyped
<1>5. /\ wants' \in [Syncer -> Seq([crate : Crate, contract : Contract])] /\ index' \in [Syncer -> Nat \ {0}]
      /\ \A r \in Syncer \ {s} : wants'[r] = wants[r] /\ index'[r] = index[r]
  <2>1. CASE StartSync(s)
    <3>1. PICK list \in Wants : wants' = [wants EXCEPT ![s] = list]
      BY <2>1 DEF StartSync
    <3>2. list \in Seq([crate : Crate, contract : Contract])
      BY SnapshotsAssumption
    <3>3. index' = [index EXCEPT ![s] = 1] /\ index \in [Syncer -> Nat \ {0}]
          /\ wants \in [Syncer -> Seq([crate : Crate, contract : Contract])]
      BY <2>1 DEF StartSync, SnapTyped
    <3>4. index' \in [Syncer -> Nat \ {0}] /\ \A r \in Syncer \ {s} : index'[r] = index[r]
      BY <3>3
    <3>5. QED
      BY <3>1, <3>2, <3>3, <3>4
  <2>2. CASE ~StartSync(s)
    <3>1. wants' = wants /\ index' \in {index, [index EXCEPT ![s] = @ + 1]}
      BY <2>2 DEF Sync, ReadRecord, List, ReadFile, Accept, CopyFile, NextDependency
    <3>2. index \in [Syncer -> Nat \ {0}] /\ wants \in [Syncer -> Seq([crate : Crate, contract : Contract])]
      BY DEF SnapTyped
    <3>3. index' \in [Syncer -> Nat \ {0}] /\ \A r \in Syncer \ {s} : index'[r] = index[r]
      BY <3>1, <3>2
    <3>4. QED
      BY <3>1, <3>2, <3>3
  <2>3. QED
    BY <2>1, <2>2
<1>6. /\ pc' \in [Process -> Steps] /\ \A q \in Publisher : pc'[q] \notin Comparing
      /\ \A r \in Syncer : pc'[r] # "gather" /\ (r # s => pc'[r] = pc[r])
  <2>1. pc' = pc \/ \E to \in Comparing \cup {"look", "refused"} : Goto(s, to)
    BY DEF Sync, StartSync, ReadRecord, List, ReadFile, Accept, CopyFile, NextDependency, Refuse, Comparing
  <2>2. CASE pc' = pc
    BY <2>2 DEF SnapTyped, Steps
  <2>3. CASE \E to \in Comparing \cup {"look", "refused"} : Goto(s, to)
    <3>1. PICK to \in Comparing \cup {"look", "refused"} : Goto(s, to)
      BY <2>3
    <3>2. to \in Steps /\ to # "gather"
      BY <3>1 DEF Steps, Exchanging, Ended, Comparing
    <3>3. QED
      BY <1>0, <3>1, <3>2, GoTyped DEF Process
  <2>4. QED
    BY <2>1, <2>2, <2>3
<1>7. pc'[s] \in Comparing => index'[s] \in DOMAIN wants'[s]
  <2>1. CASE StartSync(s)
    <3>1. PICK list \in Wants : wants' = [wants EXCEPT ![s] = list] /\ Goto(s, IF list = <<>> THEN "look" ELSE "record")
      BY <2>1 DEF StartSync
    <3>2. list \in Seq([crate : Crate, contract : Contract]) /\ wants'[s] = list
      BY <3>1, SnapshotsAssumption DEF SnapTyped
    <3>3. index'[s] = 1
      BY <2>1 DEF StartSync, SnapTyped
    <3>4. list # <<>> => 1 \in DOMAIN list
      BY <3>2
    <3>5. list = <<>> => pc'[s] = "look"
      BY <1>0, <3>1 DEF Goto, SnapTyped
    <3>6. QED
      BY <3>2, <3>3, <3>4, <3>5 DEF Comparing
  <2>2. CASE NextDependency(s)
    <3>1. wants' = wants /\ wants[s] \in Seq([crate : Crate, contract : Contract]) /\ index[s] \in Nat \ {0}
      BY <2>2 DEF NextDependency, SnapTyped
    <3>2. CASE index[s] < Len(wants[s])
      BY <2>2, <3>1, <3>2 DEF NextDependency, SnapTyped
    <3>3. CASE ~(index[s] < Len(wants[s]))
      BY <1>0, <2>2, <3>3 DEF NextDependency, Goto, SnapTyped, Comparing
    <3>4. QED
      BY <3>2, <3>3
  <2>3. CASE ~StartSync(s) /\ ~NextDependency(s)
    <3>1. wants' = wants /\ index' = index /\ pc[s] \in Comparing
      BY <2>3 DEF Sync, ReadRecord, List, ReadFile, Accept, CopyFile, Comparing
    <3>2. QED
      BY <3>1 DEF SnapTyped
  <2>4. QED
    BY <2>1, <2>2, <2>3
<1>8. QED
  BY <1>1, <1>2, <1>3, <1>4, <1>5, <1>6, <1>7 DEF SnapTyped, Steps

LEMMA EditTyped == ASSUME SnapTyped, NEW c \in Crate, EditFile(c) \/ EditContract(c) PROVE SnapTyped'
  BY DEF EditFile, EditContract, SnapTyped, work, syncing

LEMMA TypedStep == ASSUME SnapTyped, PlaceInv, Next PROVE SnapTyped'
  BY PublishTyped, ExchangeTyped, SyncTyped, EditTyped DEF Next


-----------------------------------------------------------------------------
(* What is in the places. *)

\* Steps before the exchange, the first look, and kills.
LEMMA PlaceNeutral ==
    ASSUME SnapTyped, PlaceInv, at' = at, victim' = victim, NEW p \in Process,
           \A q \in Process \ {p} : pc'[q] = pc[q],
           \/ pc[p] \in {"load", "gather", "look"} \cup Comparing /\ pc'[p] \in {"gather", "look", "refused", "open"} \cup Comparing
           \/ pc[p] \notin Ended /\ pc'[p] = "killed"
           \/ pc'[p] = pc[p]
    PROVE  PlaceInv'
<1>1. \A h, d : OfPlace(h, d) => OfPlace(h, d)'
  <2> SUFFICES ASSUME NEW h, NEW d, OfPlace(h, d) PROVE OfPlace(h, d)'
    OBVIOUS
  <2>1. pc[p] = "done" => pc'[p] = "done"
    BY DEF Ended, Comparing
  <2>2. QED
    BY <2>1 DEF OfPlace, Home
<1>2. \A h \in Place : at'[h] # None => OfPlace(h, at[h])'
  BY <1>1 DEF PlaceInv, OfPlace, Home
<1>3. ASSUME NEW q \in Process
      PROVE  /\ victim'[q] # None => OfPlace(Home(q), victim[q])'
             /\ pc'[q] \in {"load", "gather", "look", "open"} \cup Comparing => victim'[q] = None
             /\ pc'[q] = "unlink" => victim'[q] # None
             /\ victim'[q] # None /\ pc'[q] \notin {"unlink", "killed"} => at'[Home(q)] # victim'[q]
             /\ pc'[q] \in {"rename", "done", "failed"} => at'[Home(q)] # Home(q)
  <2>1. victim'[q] # None => OfPlace(Home(q), victim[q])'
    BY <1>1 DEF PlaceInv, OfPlace, Home
  <2>2. CASE q # p
    BY <2>1, <2>2 DEF PlaceInv
  <2>3. CASE q = p /\ pc'[p] = pc[p]
    BY <2>1, <2>3 DEF PlaceInv
  <2>4. CASE q = p /\ pc'[p] = "killed"
    BY <2>1, <2>4 DEF Comparing
  <2>5. CASE /\ q = p
             /\ pc[p] \in {"load", "gather", "look"} \cup Comparing /\ pc'[p] \in {"gather", "look", "refused", "open"} \cup Comparing
    <3>1. victim[p] = None
      BY <2>5 DEF PlaceInv
    <3>2. QED
      BY <2>5, <3>1 DEF Comparing
  <2>6. QED
    BY <2>2, <2>3, <2>4, <2>5
<1>4. QED
  BY <1>2, <1>3 DEF PlaceInv, OfPlace, Home

LEMMA PublishPlace == ASSUME SnapTyped, PlaceInv, NEW p \in Publisher, Publish(p) PROVE PlaceInv'
<1>1. p \in Process /\ p \notin Syncer /\ at' = at /\ victim' = victim
  BY HomeTyped DEF Process, Publish, Load, CopySource, Seal, RefuseManifest
<1>2. pc \in [Process -> Steps]
  BY DEF SnapTyped, Steps
<1>3. /\ \A q \in Process \ {p} : pc'[q] = pc[q]
      /\ pc'[p] = pc[p] \/ (pc[p] \in {"load", "gather"} /\ pc'[p] \in {"gather", "look", "refused"})
  BY <1>1, <1>2 DEF Publish, Load, CopySource, Seal, RefuseManifest, Goto
<1>4. QED
  BY <1>1, <1>3, PlaceNeutral

LEMMA SyncPlace == ASSUME SnapTyped, PlaceInv, NEW s \in Syncer, Sync(s) PROVE PlaceInv'
<1>1. s \in Process /\ at' = at /\ victim' = victim
  BY DEF Process, Sync, StartSync, ReadRecord, List, ReadFile, Accept, CopyFile, NextDependency
<1>2. pc \in [Process -> Steps]
  BY DEF SnapTyped, Steps
<1>3. /\ \A q \in Process \ {s} : pc'[q] = pc[q]
      /\ pc'[s] = pc[s] \/ (pc[s] \in {"load"} \cup Comparing /\ pc'[s] \in {"look", "refused"} \cup Comparing)
  BY <1>1, <1>2 DEF Sync, StartSync, ReadRecord, List, ReadFile, Accept, CopyFile, NextDependency, Refuse, Goto, Comparing
<1>4. QED
  BY <1>1, <1>3, PlaceNeutral

LEMMA ExchangePlace == ASSUME SnapTyped, PlaceInv, NEW p \in Process, Exchange(p) PROVE PlaceInv'
<1>1. pc \in [Process -> Steps] /\ at \in [Place -> Directory \cup {None}] /\ victim \in [Process -> Directory \cup {None}]
  BY DEF SnapTyped, Steps
<1>2. Home(p) \in Place /\ Home(p) # None /\ Home(p) \notin Process /\ p \in Directory /\ p # None
  BY HomeTyped DEF Directory
<1>3. \A q \in Process : Home(q)' = Home(q) /\ Home(q) \in Place
  BY HomeTyped DEF Home
<1>4. AfterRemoving(p) \in {"rename", "done"} /\ "done" \in Steps
  BY DEF AfterRemoving, Steps, Ended
<1>5. CASE Look(p)
  <2>1. /\ at' = at /\ victim' = victim /\ pc[p] = "look" /\ \A q \in Process \ {p} : pc'[q] = pc[q]
        /\ at[Home(p)] # None => pc'[p] = "open"
        /\ at[Home(p)] = None => pc'[p] \in {"rename", "done"}
    BY <1>1, <1>4, <1>5 DEF Look, Goto
  <2>2. CASE at[Home(p)] # None
    BY <2>1, <2>2, PlaceNeutral
  <2>3. CASE at[Home(p)] = None
    <3>1. victim[p] = None
      BY <2>1 DEF PlaceInv
    <3>2. \A h, d : OfPlace(h, d) => OfPlace(h, d)'
      BY <2>1 DEF OfPlace, Home
    <3>3. QED
      BY <1>2, <1>3, <2>1, <2>3, <3>1, <3>2 DEF PlaceInv, OfPlace, Comparing
  <2>4. QED
    BY <2>2, <2>3
<1>6. CASE Open(p)
  <2>1. /\ at' = at /\ pc[p] = "open" /\ \A q \in Process \ {p} : pc'[q] = pc[q] /\ victim'[q] = victim[q]
        /\ at[Home(p)] = None => pc'[p] = "failed" /\ victim'[p] = victim[p]
        /\ at[Home(p)] # None => pc'[p] = "unlink" /\ victim'[p] = at[Home(p)]
    BY <1>1, <1>6 DEF Open, Goto
  <2>2. victim[p] = None
    BY <2>1 DEF PlaceInv
  <2>3. \A h, d : OfPlace(h, d) => OfPlace(h, d)'
    BY <2>1 DEF OfPlace, Home
  <2>4. QED
    BY <1>2, <1>3, <2>1, <2>2, <2>3 DEF PlaceInv, OfPlace, Comparing
<1>7. CASE Unlink(p)
  BY <1>7 DEF Unlink, PlaceInv, OfPlace, Home
<1>8. CASE RemoveDirectory(p)
  <2>1. /\ victim' = victim /\ pc[p] = "unlink" /\ \A q \in Process \ {p} : pc'[q] = pc[q]
        /\ \A h \in Place : at'[h] \in {at[h], None}
        /\ \/ at'[Home(p)] = None /\ pc'[p] \in {"rename", "done"}
           \/ at'[Home(p)] = at[Home(p)] /\ at[Home(p)] # victim[p] /\ pc'[p] = "failed"
    BY <1>1, <1>2, <1>4, <1>8 DEF RemoveDirectory, Goto
  <2>2. \A h, d : OfPlace(h, d) => OfPlace(h, d)'
    BY <2>1 DEF OfPlace, Home
  <2>3. victim[p] # None /\ OfPlace(Home(p), victim[p])
    BY <2>1 DEF PlaceInv
  <2>4. at[Home(p)] # victim[p] => at[Home(p)] # Home(p)
    <3>1. CASE victim[p] = Home(p)
      BY <3>1
    <3>2. CASE victim[p] # Home(p)
      <4>1. victim[p] \in Process /\ Home(victim[p]) = Home(p) /\ pc[victim[p]] = "done"
        BY <2>3, <3>2 DEF OfPlace
      <4>2. QED
        BY <4>1 DEF PlaceInv
    <3>3. QED
      BY <3>1, <3>2
  <2>5. \A h \in Place : at'[h] # None => OfPlace(h, at[h])' /\ at'[h] = at[h]
    BY <2>1, <2>2 DEF PlaceInv, OfPlace
  <2>6. ASSUME NEW q \in Process
        PROVE  /\ victim'[q] # None => OfPlace(Home(q), victim[q])'
               /\ pc'[q] \in {"load", "gather", "look", "open"} \cup Comparing => victim'[q] = None
               /\ pc'[q] = "unlink" => victim'[q] # None
               /\ victim'[q] # None /\ pc'[q] \notin {"unlink", "killed"} => at'[Home(q)] # victim'[q]
               /\ pc'[q] \in {"rename", "done", "failed"} => at'[Home(q)] # Home(q)
    <3>1. victim'[q] # None => OfPlace(Home(q), victim[q])'
      BY <1>3, <2>1, <2>2 DEF PlaceInv, OfPlace
    <3>2. at'[Home(q)] \in {at[Home(q)], None} /\ Home(q) # None /\ Home(p) # None
      BY <1>3, <2>1, HomeTyped DEF Directory
    <3>3. CASE q = p
      BY <2>1, <2>3, <2>4, <3>1, <3>2, <3>3 DEF Comparing
    <3>4. CASE q # p
      BY <2>1, <3>1, <3>2, <3>4 DEF PlaceInv
    <3>5. QED
      BY <3>3, <3>4
  <2>7. QED
    BY <1>3, <2>5, <2>6 DEF PlaceInv, OfPlace
<1>9. CASE Rename(p)
  <2>1. /\ victim' = victim /\ pc[p] = "rename" /\ \A q \in Process \ {p} : pc'[q] = pc[q]
        /\ \A h \in Place \ {Home(p)} : at'[h] = at[h]
        /\ \/ at'[Home(p)] = p /\ pc'[p] = "done"
           \/ at'[Home(p)] = at[Home(p)] /\ pc'[p] = "failed"
    BY <1>1, <1>2, <1>9 DEF Rename, Goto
  <2>2. \A h, d : OfPlace(h, d) => OfPlace(h, d)'
    BY <2>1 DEF OfPlace, Home
  <2>3. \A h \in Place : at'[h] # None => OfPlace(h, at[h])'
    BY <2>1, <2>2 DEF PlaceInv, OfPlace, Home
  <2>4. ASSUME NEW q \in Process
        PROVE  /\ victim'[q] # None => OfPlace(Home(q), victim[q])'
               /\ pc'[q] \in {"load", "gather", "look", "open"} \cup Comparing => victim'[q] = None
               /\ pc'[q] = "unlink" => victim'[q] # None
               /\ victim'[q] # None /\ pc'[q] \notin {"unlink", "killed"} => at'[Home(q)] # victim'[q]
               /\ pc'[q] \in {"rename", "done", "failed"} => at'[Home(q)] # Home(q)
    <3>1. victim'[q] # None => OfPlace(Home(q), victim[q])' /\ victim[q] # p
      BY <1>2, <2>1, HomeTyped DEF PlaceInv, OfPlace, Home
    <3>2. Home(q) # p
      BY HomeTyped
    <3>3. CASE q = p
      BY <1>2, <2>1, <3>1, <3>2, <3>3 DEF PlaceInv, Comparing
    <3>4. CASE q # p
      <4>1. at'[Home(q)] = at[Home(q)] \/ at'[Home(q)] = p
        BY <1>3, <2>1
      <4>2. QED
        BY <2>1, <3>1, <3>2, <3>4, <4>1 DEF PlaceInv
    <3>5. QED
      BY <3>3, <3>4
  <2>5. QED
    BY <1>3, <2>3, <2>4 DEF PlaceInv, OfPlace
<1>10. QED
  BY <1>5, <1>6, <1>7, <1>8, <1>9 DEF Exchange

LEMMA PlaceStep == ASSUME SnapTyped, PlaceInv, Next PROVE PlaceInv'
<1>1. CASE \E p \in Process : Kill(p)
  <2>1. PICK p \in Process : Kill(p)
    BY <1>1
  <2>2. pc \in [Process -> Steps]
    BY DEF SnapTyped, Steps
  <2>3. at' = at /\ victim' = victim /\ pc[p] \notin Ended /\ pc'[p] = "killed" /\ \A q \in Process \ {p} : pc'[q] = pc[q]
    BY <2>1, <2>2 DEF Kill, Goto
  <2>4. QED
    BY <2>3, PlaceNeutral
<1>2. CASE \E c \in Crate : EditFile(c) \/ EditContract(c)
  BY <1>2 DEF EditFile, EditContract, work, PlaceInv, OfPlace, Home
<1>3. QED
  BY <1>1, <1>2, PublishPlace, SyncPlace, ExchangePlace DEF Next


-----------------------------------------------------------------------------
(* Somebody fills the place. *)

Fill(h) ==
    /\ at[h] = None
    /\ \A p \in Process : Home(p) = h => pc[p] # "killed"
    /\ \E p \in Process : Home(p) = h /\ pc[p] \in {"open", "unlink", "failed", "done"}
    => \E p \in Process : Home(p) = h /\ (pc[p] = "rename" \/ Empties(p))

\* A step that leaves the exchanges at a place, and it, alone.
LEMMA FillKept ==
    ASSUME NEW h \in Place, Fill(h), at'[h] = at[h],
           \A q \in Process : Home(q) = h =>
               /\ pc[q] \in {"rename", "done", "killed"} => pc'[q] = pc[q] /\ (q \in Syncer => wants'[q] = wants[q])
               /\ pc'[q] \in {"open", "unlink", "failed", "done"} => pc[q] \in {"open", "unlink", "failed", "done"}
    PROVE  Fill(h)'
<1>0. \A q : Home(q)' = Home(q)
  BY DEF Home
<1> SUFFICES ASSUME at'[h] = None,
                    \A p \in Process : Home(p) = h => pc'[p] # "killed",
                    NEW r \in Process, Home(r) = h, pc'[r] \in {"open", "unlink", "failed", "done"}
             PROVE  \E p \in Process : Home(p) = h /\ (pc'[p] = "rename" \/ Empties(p)')
  BY <1>0 DEF Fill
<1>1. PICK q \in Process : Home(q) = h /\ (pc[q] = "rename" \/ Empties(q))
  BY DEF Fill
<1>2. pc'[q] = "rename" \/ Empties(q)'
  BY <1>1 DEF Empties
<1>3. QED
  BY <1>1, <1>2

LEMMA FillOthers ==
    ASSUME NEW h \in Place, Fill(h), at'[h] = at[h], wants' = wants, NEW p \in Process, Home(p) # h,
           \A q \in Process \ {p} : pc'[q] = pc[q]
    PROVE  Fill(h)'
  BY FillKept

LEMMA ExchangeFill == ASSUME SnapTyped, NEW p \in Process, NEW h \in Place, Fill(h), Exchange(p) PROVE Fill(h)'
<1>1. pc \in [Process -> Steps] /\ at \in [Place -> Directory \cup {None}]
  BY DEF SnapTyped, Steps
<1>2. Home(p) \in Place /\ p # None
  BY HomeTyped DEF Directory
<1>3. AfterRemoving(p) = IF p \in Syncer /\ wants[p] = <<>> THEN "done" ELSE "rename"
  BY DEF AfterRemoving
<1>4. /\ wants' = wants /\ \A q \in Process \ {p} : pc'[q] = pc[q]
      /\ \A g \in Place \ {Home(p)} : at'[g] = at[g]
  BY <1>1, <1>2 DEF Exchange, Look, Open, Unlink, RemoveDirectory, Rename, Goto, syncing
<1>5. CASE Home(p) # h
  BY <1>4, <1>5, FillOthers
<1>6. CASE Home(p) = h
  <2>0. \A q : Home(q)' = Home(q)
    BY DEF Home
  <2>1. ASSUME at'[h] = None, pc'[p] = AfterRemoving(p) PROVE Fill(h)'
    <3>1. pc'[p] = "rename" \/ Empties(p)'
      BY <1>3, <1>4, <2>1 DEF Empties
    <3>2. QED
      BY <1>6, <2>0, <3>1 DEF Fill
  <2>2. ASSUME at'[h] # None PROVE Fill(h)'
    BY <2>2 DEF Fill
  <2>3. CASE Look(p)
    BY <1>1, <1>6, <2>1, <2>2, <2>3 DEF Look, Goto
  <2>4. CASE Open(p)
    <3>1. CASE at[h] = None
      <4>1. pc'[p] = "failed" /\ pc[p] = "open" /\ at' = at
        BY <1>1, <1>6, <2>4, <3>1 DEF Open, Goto
      <4>2. QED
        BY <1>4, <4>1, FillKept
    <3>2. CASE at[h] # None
      BY <2>2, <2>4, <3>2 DEF Open
    <3>3. QED
      BY <3>1, <3>2
  <2>5. CASE Unlink(p)
    <3>1. pc' = pc /\ at' = at
      BY <2>5 DEF Unlink
    <3>2. QED
      BY <1>4, <3>1, FillKept
  <2>6. CASE RemoveDirectory(p)
    BY <1>1, <1>2, <1>6, <2>1, <2>2, <2>6 DEF RemoveDirectory, Goto
  <2>7. CASE Rename(p)
    BY <1>1, <1>2, <1>6, <2>2, <2>7 DEF Rename
  <2>8. QED
    BY <2>3, <2>4, <2>5, <2>6, <2>7 DEF Exchange
<1>7. QED
  BY <1>5, <1>6

LEMMA FillStep == ASSUME SnapTyped, FillInv, Next PROVE FillInv'
<1> SUFFICES ASSUME NEW h \in Place PROVE Fill(h)'
  BY DEF FillInv, Fill
<1>0. Fill(h)
  BY DEF FillInv, Fill
<1>1. pc \in [Process -> Steps] /\ Publisher \subseteq Process /\ Syncer \subseteq Process
  BY DEF SnapTyped, Steps, Process
<1>2. CASE \E p \in Publisher : Publish(p)
  <2>1. PICK p \in Publisher : Publish(p)
    BY <1>2
  <2>2. /\ at' = at /\ wants' = wants /\ \A q \in Process \ {p} : pc'[q] = pc[q]
        /\ pc[p] \in {"load", "gather"} /\ pc'[p] \in {"gather", "look", "refused"}
    BY <1>1, <2>1 DEF Publish, Load, CopySource, Seal, RefuseManifest, Goto, syncing
  <2>3. QED
    BY <1>0, <1>1, <2>2, FillKept
<1>3. CASE \E s \in Syncer : Sync(s)
  <2>1. PICK s \in Syncer : Sync(s)
    BY <1>3
  <2>2. /\ at' = at /\ \A q \in Process \ {s} : pc'[q] = pc[q]
        /\ pc[s] \in {"load"} \cup Comparing /\ pc'[s] \in {"look", "refused"} \cup Comparing
    BY <1>1, <2>1 DEF Sync, StartSync, ReadRecord, List, ReadFile, Accept, CopyFile, NextDependency, Refuse, Goto, Comparing
  <2>3. \A r \in Syncer \ {s} : wants'[r] = wants[r]
    <3>1. wants' = wants \/ \E list : wants' = [wants EXCEPT ![s] = list]
      BY <2>1 DEF Sync, StartSync, ReadRecord, List, ReadFile, Accept, CopyFile, NextDependency
    <3>2. QED
      BY <3>1 DEF SnapTyped
  <2>4. QED
    BY <1>0, <1>1, <2>2, <2>3, FillKept DEF Comparing
<1>4. CASE \E p \in Process : Exchange(p)
  BY <1>0, <1>4, ExchangeFill
<1>5. CASE \E p \in Process : Kill(p)
  <2>1. PICK p \in Process : Kill(p)
    BY <1>5
  <2>2. /\ at' = at /\ wants' = wants /\ \A q \in Process \ {p} : pc'[q] = pc[q]
        /\ pc'[p] = "killed"
    BY <1>1, <2>1 DEF Kill, Goto, syncing
  <2>3. CASE Home(p) = h
    BY <2>2, <2>3 DEF Fill, Home
  <2>4. CASE Home(p) # h
    BY <1>0, <2>2, <2>4, FillOthers
  <2>5. QED
    BY <2>3, <2>4
<1>6. CASE \E c \in Crate : EditFile(c) \/ EditContract(c)
  BY <1>0, <1>6 DEF EditFile, EditContract, work, syncing, Fill, Empties, Home
<1>7. QED
  BY <1>2, <1>3, <1>4, <1>5, <1>6 DEF Next

\* Where all have ended and none was killed.
LEMMA InstalledBySomeone ==
    ASSUME SnapTyped, PlaceInv, WholeOrRemoved, FillInv
    PROVE  SomeoneInstalls
<1> SUFFICES ASSUME NEW h \in Place,
                    \A p \in Process : Home(p) = h => pc[p] \in {"load", "done", "refused", "failed"},
                    Exchangers(h) # {}
             PROVE  \/ at[h] \in Exchangers(h) /\ Whole(h, at[h])
                    \/ at[h] = None /\ \E s \in Exchangers(h) \cap Syncer : wants[s] = <<>>
  BY DEF SomeoneInstalls
<1>1. PICK p \in Process : Home(p) = h /\ pc[p] \in {"done", "failed"}
  BY DEF Exchangers
<1>2. at[h] # h
  BY <1>1 DEF PlaceInv
<1>3. CASE at[h] = None
  <2>1. \E q \in Process : Home(q) = h /\ (pc[q] = "rename" \/ Empties(q))
    BY <1>1, <1>3 DEF FillInv
  <2>2. PICK q \in Process : Home(q) = h /\ Empties(q)
    BY <2>1
  <2>3. QED
    BY <1>3, <2>2 DEF Empties, Exchangers
<1>4. CASE at[h] # None
  <2>1. at[h] \in Process /\ Home(at[h]) = h /\ pc[at[h]] = "done"
    BY <1>2, <1>4 DEF PlaceInv, OfPlace
  <2>2. ~Removed(at[h])
    <3>1. SUFFICES ASSUME NEW q \in Process, victim[q] = at[h] PROVE FALSE
      BY DEF Removed
    <3>2. Home(q) = h
      <4>1. OfPlace(Home(q), victim[q])
        BY <1>4, <3>1 DEF PlaceInv
      <4>2. Home(q) \notin Process
        BY HomeTyped
      <4>3. QED
        BY <2>1, <3>1, <4>1, <4>2 DEF OfPlace
    <3>3. pc[q] \notin {"unlink", "killed"}
      BY <3>2
    <3>4. QED
      BY <1>4, <3>1, <3>2, <3>3 DEF PlaceInv
  <2>3. Whole(h, at[h])
    BY <1>4, <2>2 DEF WholeOrRemoved
  <2>4. QED
    BY <2>1, <2>3 DEF Exchangers
<1>5. QED
  BY <1>3, <1>4



-----------------------------------------------------------------------------
(* What is in the places is whole. *)

\* What a step of one process leaves alone.
Moves(p) == (p \in Publisher /\ Publish(p)) \/ (p \in Syncer /\ Sync(p)) \/ Exchange(p) \/ Kill(p)

LEMMA Writes ==
    ASSUME SnapTyped, PlaceInv, NEW p \in Process, Moves(p), NEW d \in Directory, disk'[d] # disk[d]
    PROVE  \/ d = p /\ pc[p] \in {"gather"} \cup Comparing
           \/ d = victim[p] /\ Unlink(p)
<1>0. p \in Directory
  BY DEF Directory
<1>1. disk = [e \in Directory |-> disk[e]]
  BY DEF SnapTyped
<1>2. CASE p \in Publisher /\ Publish(p)
  <2>1. pc[p] = "gather" \/ disk' = disk
    BY <1>2 DEF Publish, Load, CopySource, Seal, RefuseManifest
  <2>2. CASE CopySource(p)
    <3>1. PICK n, value : disk' = Put(p, n, value)
      BY <2>2 DEF CopySource
    <3>2. \A e \in Directory \ {p} : Put(p, n, value)[e] = disk[e]
      BY <1>0, <1>1, PutDisk
    <3>3. QED
      BY <2>1, <3>1, <3>2
  <2>3. CASE Seal(p)
    <3>1. d = p
      BY <1>1, <2>3 DEF Seal
    <3>2. QED
      BY <2>1, <3>1
  <2>4. QED
    BY <1>2, <2>2, <2>3 DEF Publish, Load, RefuseManifest
<1>3. CASE p \in Syncer /\ Sync(p)
  <2>1. pc[p] \in Comparing \/ disk' = disk
    BY <1>3 DEF Sync, StartSync, ReadRecord, List, ReadFile, Accept, CopyFile, NextDependency, Comparing
  <2>2. \/ disk' \in {disk, [disk EXCEPT ![p] = <<>>]}
        \/ \E n, value : disk' = Put(p, n, value)
    BY <1>3 DEF Sync, StartSync, ReadRecord, List, ReadFile, Accept, CopyFile, NextDependency, Refuse
  <2>3. CASE \E n, value : disk' = Put(p, n, value)
    <3>1. PICK n, value : disk' = Put(p, n, value)
      BY <2>3
    <3>2. \A e \in Directory \ {p} : Put(p, n, value)[e] = disk[e]
      BY <1>0, <1>1, PutDisk
    <3>3. QED
      BY <2>1, <3>1, <3>2
  <2>4. QED
    BY <1>1, <2>1, <2>2, <2>3
<1>4. CASE Unlink(p)
  <2>1. PICK v \in Directory : v = victim[p]
    BY <1>4 DEF Unlink, PlaceInv, SnapTyped
  <2>2. PICK n : disk' = Without(v, n)
    BY <1>4, <2>1 DEF Unlink
  <2>3. \A e \in Directory \ {v} : Without(v, n)[e] = disk[e]
    BY <1>1, WithoutDisk
  <2>4. QED
    BY <1>4, <2>1, <2>2, <2>3
<1>5. CASE (Exchange(p) /\ ~Unlink(p)) \/ Kill(p)
  BY <1>5 DEF Exchange, Look, Open, RemoveDirectory, Rename, Kill
<1>6. QED
  BY <1>2, <1>3, <1>4, <1>5 DEF Moves

LEMMA OthersStay ==
    ASSUME SnapTyped, PlaceInv, NEW p \in Process, Moves(p), NEW q \in Process \ {p}
    PROVE  /\ pc'[q] = pc[q] /\ todo'[q] = todo[q] /\ victim'[q] = victim[q]
           /\ q \in Syncer => wants'[q] = wants[q] /\ index'[q] = index[q] /\ record'[q] = record[q] /\ seen'[q] = seen[q]
           /\ pc[q] # "done" => disk'[q] = disk[q]
<1>1. /\ pc \in [Process -> Steps] /\ todo \in [Process -> SUBSET File] /\ victim \in [Process -> Directory \cup {None}]
      /\ wants = [s \in Syncer |-> wants[s]] /\ index = [s \in Syncer |-> index[s]]
      /\ record = [s \in Syncer |-> record[s]] /\ seen = [s \in Syncer |-> seen[s]]
  BY DEF SnapTyped, Steps
<1>2. pc'[q] = pc[q]
  BY <1>1 DEF Moves, Publish, Load, CopySource, Seal, RefuseManifest, Sync, StartSync, ReadRecord, List, ReadFile, Accept,
              CopyFile, NextDependency, Refuse, Exchange, Look, Open, Unlink, RemoveDirectory, Rename, Kill, Goto
<1>3. todo'[q] = todo[q] /\ victim'[q] = victim[q]
  BY <1>1 DEF Moves, Publish, Load, CopySource, Seal, RefuseManifest, Sync, StartSync, ReadRecord, List, ReadFile, Accept,
              CopyFile, NextDependency, Refuse, Exchange, Look, Open, Unlink, RemoveDirectory, Rename, Kill
<1>4. q \in Syncer => wants'[q] = wants[q] /\ index'[q] = index[q] /\ record'[q] = record[q] /\ seen'[q] = seen[q]
  BY <1>1 DEF Moves, Publish, Load, CopySource, Seal, RefuseManifest, Sync, StartSync, ReadRecord, List, ReadFile, Accept,
              CopyFile, NextDependency, Refuse, Exchange, Look, Open, Unlink, RemoveDirectory, Rename, Kill, syncing
<1>5. ASSUME pc[q] # "done" PROVE disk'[q] = disk[q]
  <2>1. SUFFICES ASSUME disk'[q] # disk[q] PROVE FALSE
    OBVIOUS
  <2>2. q \in Directory /\ q = victim[p] /\ victim[p] # None
    BY <2>1, Writes, HomeTyped DEF Directory
  <2>3. OfPlace(Home(p), q) /\ Home(p) \notin Process
    BY <2>2, HomeTyped DEF PlaceInv
  <2>4. QED
    BY <1>5, <2>3 DEF OfPlace
<1>6. QED
  BY <1>2, <1>3, <1>4, <1>5

\* What is in a place is written by nobody, but unlinked.
LEMMA PlacesStay ==
    ASSUME SnapTyped, PlaceInv, NEW p \in Process, Moves(p), NEW h \in Place, at[h] # None
    PROVE  \/ disk'[at[h]] = disk[at[h]]
           \/ Unlink(p) /\ victim[p] = at[h] /\ Home(p) = h
<1>1. OfPlace(h, at[h]) /\ at[h] \in Directory
  BY DEF PlaceInv, SnapTyped
<1>2. h \notin Process /\ Process \cap Place = {} /\ Home(p) \in Place
  BY HomeTyped
<1>3. SUFFICES ASSUME disk'[at[h]] # disk[at[h]] PROVE Unlink(p) /\ victim[p] = at[h] /\ Home(p) = h
  OBVIOUS
<1>4. at[h] = p => FALSE
  <2>1. SUFFICES ASSUME at[h] = p PROVE FALSE
    OBVIOUS
  <2>2. pc[p] = "done"
    BY <1>1, <1>2, <2>1 DEF OfPlace
  <2>3. disk' = disk
    BY <2>2 DEF Moves, Publish, Load, CopySource, Seal, RefuseManifest, Sync, StartSync, ReadRecord, List, ReadFile, Accept,
                CopyFile, NextDependency, Exchange, Look, Open, Unlink, RemoveDirectory, Rename, Kill
  <2>4. QED
    BY <1>3, <2>3
<1>5. at[h] = victim[p] /\ Unlink(p)
  BY <1>1, <1>3, <1>4, Writes
<1>6. OfPlace(Home(p), at[h])
  BY <1>5 DEF PlaceInv
<1>7. QED
  BY <1>1, <1>2, <1>5, <1>6 DEF OfPlace


\* What is sealed is whole.
LEMMA SealWhole ==
    ASSUME SnapTyped, NEW p \in Publisher, Seal(p)
    PROVE  Whole(Home(p), p)'
<1> DEFINE c == Home(p)
           tree == [Tree(p, c) EXCEPT !["Cargo.toml"].form = "facade"]
<1>0. p \in Directory /\ c \in Crate /\ Record \notin File /\ disk = [d \in Directory |-> disk[d]]
  BY HomeTyped, SnapshotsAssumption DEF Directory, Process, Record, SnapTyped
<1>1. disk'[p] = [n \in DOMAIN disk[p] \cup {<<c, Record>>} |->
                    IF n[2] = Record THEN [contract |-> stated[p], digest |-> tree] ELSE tree[n[2]]]
  BY <1>0 DEF Seal
<1>2. DOMAIN tree = {f \in File : <<c, f>> \in DOMAIN disk[p]} /\ tree = [f \in DOMAIN tree |-> tree[f]]
  BY DEF Tree
<1> HIDE DEF tree
<1>3. \A f \in File : f # Record /\ <<c, f>> # <<c, Record>>
  BY <1>0
<1>4. Tree(p, c)' = [f \in {f \in File : <<c, f>> \in DOMAIN disk'[p]} |-> disk'[p][<<c, f>>]]
  BY DEF Tree, Home
<1>5. {f \in File : <<c, f>> \in DOMAIN disk'[p]} = DOMAIN tree
  BY <1>1, <1>2, <1>3
<1>6. \A f \in DOMAIN tree : disk'[p][<<c, f>>] = tree[f]
  BY <1>1, <1>2, <1>3
<1>7. Tree(p, c)' = tree
  BY <1>2, <1>4, <1>5, <1>6
<1>8. <<c, Record>> \in DOMAIN disk'[p] /\ disk'[p][<<c, Record>>].digest = tree
  BY <1>1
<1>9. QED
  BY <1>0, <1>7, <1>8 DEF Whole, Home

\* The steps of a sync keep the subdirectories of the dependencies it is through with.
Kept(s) == \A i \in DOMAIN wants[s] : Begun(s, i) => <<wants[s][i].crate, Subdirectory>> \in DOMAIN disk[s]

LEMMA SyncKeeps ==
    ASSUME SnapTyped, NEW s \in Syncer, Sync(s), pc[s] \in Comparing => Kept(s)
    PROVE  /\ pc'[s] \in Comparing => Kept(s)'
           /\ pc'[s] \in Exchanging => Whole(Home(s), s)'
<1>0. /\ s \in Directory /\ s \in Process /\ disk = [d \in Directory |-> disk[d]] /\ Home(s) \notin Crate
      /\ pc \in [Process -> Steps] /\ index \in [Syncer -> Nat \ {0}]
      /\ wants \in [Syncer -> Seq([crate : Crate, contract : Contract])]
  BY HomeTyped DEF Directory, Process, SnapTyped, Steps
<1>1. CASE StartSync(s)
  <2>1. PICK list \in Wants : wants' = [wants EXCEPT ![s] = list] /\ Goto(s, IF list = <<>> THEN "look" ELSE "record")
    BY <1>1 DEF StartSync
  <2>2. list \in Seq([crate : Crate, contract : Contract]) /\ wants'[s] = list /\ index'[s] = 1
    BY <1>0, <1>1, <2>1, SnapshotsAssumption DEF StartSync
  <2>3. pc'[s] = IF list = <<>> THEN "look" ELSE "record"
    BY <1>0, <2>1 DEF Goto
  <2>4. \A i \in DOMAIN list : ~(i < 1)
    BY <2>2
  <2>5. pc'[s] \in Comparing => Kept(s)'
    BY <2>2, <2>3, <2>4 DEF Kept, Begun
  <2>6. pc'[s] \in Exchanging => list = <<>>
    BY <2>3 DEF Exchanging
  <2>7. list = <<>> => Whole(Home(s), s)'
    BY <1>0, <2>2 DEF Whole, Crates, Home
  <2>8. QED
    BY <2>5, <2>6, <2>7
<1>2. CASE ReadRecord(s) \/ List(s) \/ ReadFile(s)
  <2>1. pc[s] \in Comparing /\ pc[s] # "copy" /\ wants' = wants /\ index' = index
    BY <1>2 DEF ReadRecord, List, ReadFile, Comparing
  <2>2. pc'[s] = "refused" \/ (pc'[s] \in Comparing \ {"copy"} /\ disk' = disk)
    BY <1>0, <1>2, <2>1 DEF ReadRecord, List, ReadFile, Refuse, Goto, Comparing
  <2>3. QED
    BY <2>1, <2>2 DEF Kept, Begun, Comparing, Exchanging
<1>3. CASE Accept(s)
  <2>1. pc[s] = "digest" /\ wants' = wants /\ index' = index
    BY <1>3 DEF Accept
  <2>2. pc'[s] = "refused" \/ (pc'[s] = "copy" /\ disk' = Put(s, <<Current(s).crate, Subdirectory>>, None))
    BY <1>0, <1>3 DEF Accept, Refuse, Goto
  <2>3. CASE pc'[s] = "refused"
    BY <2>3 DEF Comparing, Exchanging
  <2>4. CASE pc'[s] = "copy" /\ disk' = Put(s, <<Current(s).crate, Subdirectory>>, None)
    <3>1. DOMAIN disk'[s] = DOMAIN disk[s] \cup {<<Current(s).crate, Subdirectory>>}
      <4>1. PICK n : n = <<Current(s).crate, Subdirectory>>
        OBVIOUS
      <4>2. disk' = Put(s, n, None)
        BY <2>4, <4>1
      <4>3. DOMAIN Put(s, n, None)[s] = DOMAIN disk[s] \cup {n}
        BY <1>0, PutDisk
      <4>4. DOMAIN disk'[s] = DOMAIN disk[s] \cup {n}
        BY <4>2, <4>3
      <4>5. QED
        BY <4>1, <4>4
    <3>2. Kept(s)
      BY <2>1 DEF Comparing
    <3>3. QED
      BY <2>1, <2>4, <3>1, <3>2 DEF Kept, Begun, Current, Exchanging
  <2>5. QED
    BY <2>2, <2>3, <2>4
<1>4. CASE CopyFile(s)
  <2>1. pc[s] = "copy" /\ wants' = wants /\ index' = index
    BY <1>4 DEF CopyFile
  <2>2. \/ pc'[s] = "refused"
        \/ pc' = pc /\ (disk' = disk \/ \E n, value : disk' = Put(s, n, value))
    BY <1>0, <1>4 DEF CopyFile, Refuse, Goto
  <2>3. CASE pc'[s] = "refused"
    BY <2>3 DEF Comparing, Exchanging
  <2>4. CASE pc' = pc /\ (disk' = disk \/ \E n, value : disk' = Put(s, n, value))
    <3>1. DOMAIN disk[s] \subseteq DOMAIN disk'[s]
      <4>1. CASE disk' = disk
        BY <4>1
      <4>2. CASE \E n, value : disk' = Put(s, n, value)
        <5>1. PICK n, value : disk' = Put(s, n, value)
          BY <4>2
        <5>2. DOMAIN Put(s, n, value)[s] = DOMAIN disk[s] \cup {n}
          BY <1>0, PutDisk
        <5>3. QED
          BY <5>1, <5>2
      <4>3. QED
        BY <2>4, <4>1, <4>2
    <3>2. Kept(s)
      BY <2>1 DEF Comparing
    <3>3. QED
      BY <2>1, <2>4, <3>1, <3>2 DEF Kept, Begun, Exchanging
  <2>5. QED
    BY <2>2, <2>3, <2>4
<1>5. CASE NextDependency(s)
  <2>1. pc[s] = "copy" /\ wants' = wants /\ disk' = disk /\ Kept(s)
    BY <1>5 DEF NextDependency, Comparing
  <2>2. DOMAIN wants[s] = 1 .. Len(wants[s]) /\ Len(wants[s]) \in Nat /\ index[s] \in Nat
    <3>1. wants[s] \in Seq([crate : Crate, contract : Contract]) /\ index[s] \in Nat
      BY <1>0
    <3>2. QED
      BY <3>1
  <2>3. CASE index[s] < Len(wants[s])
    <3>1. index'[s] = index[s] + 1 /\ pc'[s] = "record"
      BY <1>0, <1>5, <2>3 DEF NextDependency, Goto
    <3>2. \A i \in DOMAIN wants[s] : i < index[s] + 1 => i < index[s] \/ i = index[s]
      BY <2>2
    <3>3. QED
      BY <2>1, <3>1, <3>2 DEF Kept, Begun, Exchanging
  <2>4. CASE ~(index[s] < Len(wants[s]))
    <3>1. pc'[s] = "look"
      BY <1>0, <1>5, <2>4 DEF NextDependency, Goto
    <3>2. \A i \in DOMAIN wants[s] : i < index[s] \/ i = index[s]
      BY <2>2, <2>4
    <3>3. \A i \in DOMAIN wants[s] : <<wants[s][i].crate, Subdirectory>> \in DOMAIN disk[s]
      BY <2>1, <3>2 DEF Kept, Begun
    <3>4. QED
      BY <1>0, <2>1, <3>1, <3>3 DEF Comparing, Whole, Crates, Home
  <2>5. QED
    BY <2>3, <2>4
<1>6. QED
  BY <1>1, <1>2, <1>3, <1>4, <1>5 DEF Sync

LEMMA WholeStays ==
    ASSUME NEW h, NEW d, Whole(h, d), disk'[d] = disk[d], d \in Syncer => wants'[d] = wants[d]
    PROVE  Whole(h, d)'
  BY DEF Whole, Tree, Crates

\* Nobody forgets what it has removed.
LEMMA RemovedStays ==
    ASSUME SnapTyped, PlaceInv, NEW p \in Process, Moves(p), NEW d, d # None, Removed(d)
    PROVE  Removed(d)'
<1>1. PICK q \in Process : victim[q] = d
  BY DEF Removed
<1>2. CASE Open(p) /\ p = q
  <2>1. victim[p] = None
    BY <1>2 DEF Open, PlaceInv
  <2>2. QED
    BY <1>1, <1>2, <2>1
<1>3. CASE Open(p) /\ p # q
  BY <1>1, <1>3, OthersStay DEF Removed
<1>4. CASE ~Open(p)
  <2>1. victim' = victim
    BY <1>4 DEF Moves, Publish, Load, CopySource, Seal, RefuseManifest, Sync, StartSync, ReadRecord, List, ReadFile, Accept,
                CopyFile, NextDependency, Exchange, Look, Unlink, RemoveDirectory, Rename, Kill
  <2>2. QED
    BY <1>1, <2>1 DEF Removed
<1>5. QED
  BY <1>2, <1>3, <1>4

\* What a place holds after a step.
LEMMA PlaceAfter ==
    ASSUME SnapTyped, NEW p \in Process, Moves(p), NEW h \in Place, at'[h] # None
    PROVE  at'[h] = at[h] \/ (at'[h] = p /\ h = Home(p) /\ Rename(p) /\ pc[p] = "rename" /\ disk' = disk /\ wants' = wants)
<1>1. at \in [Place -> Directory \cup {None}] /\ Home(p) \in Place
  BY HomeTyped DEF SnapTyped
<1>2. CASE Rename(p)
  BY <1>1, <1>2 DEF Rename, syncing
<1>3. CASE RemoveDirectory(p)
  BY <1>1, <1>3 DEF RemoveDirectory
<1>4. CASE ~Rename(p) /\ ~RemoveDirectory(p)
  BY <1>4 DEF Moves, Publish, Load, CopySource, Seal, RefuseManifest, Sync, StartSync, ReadRecord, List, ReadFile, Accept,
              CopyFile, NextDependency, Exchange, Look, Open, Unlink, Kill
<1>5. QED
  BY <1>2, <1>3, <1>4

\* What a process that is not comparing has found in Elm.toml stays.
LEMMA WantsStay ==
    ASSUME SnapTyped, PlaceInv, NEW p \in Process, Moves(p), NEW s \in Syncer, pc[s] # "load"
    PROVE  wants'[s] = wants[s]
<1>1. CASE p # s
  BY <1>1, OthersStay DEF Process
<1>2. CASE p = s
  BY <1>2, HomeTyped DEF Moves, Sync, StartSync, ReadRecord, List, ReadFile, Accept, CopyFile, NextDependency,
          Exchange, Look, Open, Unlink, RemoveDirectory, Rename, Kill, syncing
<1>3. QED
  BY <1>1, <1>2

LEMMA WholeMoves ==
    ASSUME SnapTyped, PlaceInv, WholeInv, NEW p \in Process, Moves(p)
    PROVE  WholeInv'
<1>0. /\ Syncer \subseteq Process /\ p \in Directory /\ p # None /\ pc \in [Process -> Steps]
      /\ at \in [Place -> Directory \cup {None}] /\ \A h : Home(h)' = Home(h)
  BY HomeTyped DEF Process, Directory, SnapTyped, Steps, Home
<1>1. ASSUME NEW h \in Place, at'[h] # None, NEW d, d = at'[h] PROVE Whole(h, d)' \/ Removed(d)'
  <2>1. CASE at'[h] = at[h]
    <3>1. d = at[h]
      BY <1>1, <2>1
    <3>2. Whole(h, d) \/ Removed(d)
      BY <1>1, <2>1, <3>1 DEF WholeInv, WholeOrRemoved
    <3>3. CASE Removed(d)
      BY <1>1, <2>1, <3>1, <3>3, RemovedStays
    <3>4. CASE Unlink(p) /\ victim[p] = d
      BY <2>1, <3>1, <3>4 DEF Unlink, Removed
    <3>5. CASE Whole(h, d) /\ ~(Unlink(p) /\ victim[p] = d)
      <4>1. disk'[d] = disk[d]
        BY <1>1, <2>1, <3>1, <3>5, PlacesStay
      <4>2. d \in Syncer => wants'[d] = wants[d]
        <5>1. SUFFICES ASSUME d \in Syncer PROVE wants'[d] = wants[d]
          OBVIOUS
        <5>2. OfPlace(h, d)
          BY <1>1, <2>1, <3>1 DEF PlaceInv
        <5>3. d # h
          BY <1>0, <5>1, HomeTyped
        <5>4. pc[d] # "load"
          BY <5>2, <5>3 DEF OfPlace
        <5>5. QED
          BY <5>1, <5>4, WantsStay
      <4>3. Whole(h, d)'
        BY <3>5, <4>1, <4>2, WholeStays
      <4>4. QED
        BY <2>1, <3>1, <4>3
    <3>6. QED
      BY <3>2, <3>3, <3>4, <3>5
  <2>2. CASE at'[h] # at[h]
    <3>1. at'[h] = p /\ h = Home(p) /\ pc[p] = "rename" /\ disk' = disk /\ wants' = wants
      BY <1>1, <2>2, PlaceAfter
    <3>2. Whole(h, p)
      BY <3>1 DEF WholeInv, Exchanging
    <3>3. Whole(h, p)'
      BY <3>1, <3>2, WholeStays
    <3>4. QED
      BY <1>1, <3>1, <3>3
  <2>3. QED
    BY <2>1, <2>2
<1>2. ASSUME NEW q \in Process, pc'[q] \in Exchanging PROVE Whole(Home(q), q)'
  <2>1. CASE q # p
    <3>1. pc[q] = pc'[q] /\ disk'[q] = disk[q] /\ (q \in Syncer => wants'[q] = wants[q])
      BY <1>2, <2>1, OthersStay DEF Exchanging
    <3>2. Whole(Home(q), q)
      BY <1>2, <3>1 DEF WholeInv
    <3>3. QED
      BY <3>1, <3>2, WholeStays DEF Home
  <2>2. CASE q = p /\ p \in Publisher /\ Publish(p)
    <3>1. Seal(p)
      BY <1>0, <1>2, <2>2 DEF Publish, Load, CopySource, RefuseManifest, Goto, Exchanging
    <3>2. QED
      BY <2>2, <3>1, SealWhole
  <2>3. CASE q = p /\ p \in Syncer /\ Sync(p)
    <3>1. pc[p] \in Comparing => Kept(p)
      BY <2>3 DEF WholeInv, Kept
    <3>2. QED
      BY <1>2, <2>3, <3>1, SyncKeeps
  <2>4. CASE q = p /\ (Exchange(p) \/ Kill(p))
    <3>1. pc[p] \in Exchanging /\ wants' = wants
      BY <1>0, <1>2, <2>4 DEF Exchange, Look, Open, Unlink, RemoveDirectory, Rename, Kill, Goto, Exchanging, syncing
    <3>2. disk'[p] = disk[p]
      <4>1. SUFFICES ASSUME disk'[p] # disk[p] PROVE FALSE
        OBVIOUS
      <4>2. p = victim[p]
        BY <1>0, <3>1, <4>1, Writes, <2>4 DEF Moves, Exchanging, Comparing
      <4>3. OfPlace(Home(p), p)
        BY <1>0, <4>2 DEF PlaceInv
      <4>4. QED
        BY <3>1, <4>3, HomeTyped DEF OfPlace, Exchanging
    <3>3. Whole(Home(p), p)
      BY <3>1 DEF WholeInv
    <3>4. Whole(Home(p), p)'
      BY <3>1, <3>2, <3>3, WholeStays DEF Home
    <3>5. QED
      BY <2>4, <3>4
  <2>5. QED
    BY <2>1, <2>2, <2>3, <2>4 DEF Moves
<1>3. ASSUME NEW s \in Syncer, pc'[s] \in Comparing PROVE Kept(s)'
  <2>1. CASE s # p
    <3>1. pc'[s] = pc[s] /\ wants'[s] = wants[s] /\ index'[s] = index[s] /\ disk'[s] = disk[s]
      BY <1>0, <1>3, <2>1, OthersStay DEF Comparing
    <3>2. Kept(s)
      BY <1>3, <3>1 DEF WholeInv, Kept
    <3>3. QED
      BY <3>1, <3>2 DEF Kept, Begun
  <2>2. CASE s = p
    <3>1. Sync(s)
      BY <1>0, <1>3, <2>2, HomeTyped DEF Moves, Exchange, Look, Open, Unlink, RemoveDirectory, Rename, AfterRemoving, Kill, Goto, Comparing
    <3>2. pc[s] \in Comparing => Kept(s)
      BY DEF WholeInv, Kept
    <3>3. QED
      BY <1>3, <3>1, <3>2, SyncKeeps
  <2>3. QED
    BY <2>1, <2>2
<1>4. QED
  BY <1>0, <1>1, <1>2, <1>3 DEF WholeInv, WholeOrRemoved, Kept, Begun, Removed

LEMMA WholeStep == ASSUME SnapTyped, PlaceInv, WholeInv, Next PROVE WholeInv'
<1>1. CASE \E c \in Crate : EditFile(c) \/ EditContract(c)
  <2>1. UNCHANGED <<disk, at, pc, victim, wants, index>>
    BY <1>1 DEF EditFile, EditContract, work, syncing
  <2>2. \A h, d : Whole(h, d) <=> Whole(h, d)'
    BY <2>1 DEF Whole, Tree, Crates
  <2>3. \A d : Removed(d) <=> Removed(d)'
    BY <2>1 DEF Removed
  <2>4. WholeOrRemoved'
    BY <2>1, <2>2, <2>3 DEF WholeInv, WholeOrRemoved
  <2>5. \A p : Home(p)' = Home(p)
    BY DEF Home
  <2>6. QED
    BY <2>1, <2>2, <2>4, <2>5 DEF WholeInv, Begun
<1>2. CASE \E p \in Process : Moves(p)
  BY <1>2, WholeMoves
<1>3. QED
  BY <1>1, <1>2 DEF Next, Moves, Process


-----------------------------------------------------------------------------
(* The records are published ones. *)

\* The directories of a crate.
Shelf(c) == {c} \cup {p \in Publisher : Publishes[p] = c}

\* A directory of a crate holds its files, and a record that was published.
Genuine(c, d) ==
    /\ DOMAIN disk[d] \subseteq {c} \X (File \cup {Record})
    /\ <<c, Record>> \in DOMAIN disk[d] => disk[d][<<c, Record>>] \in published[c]

LEMMA PublishedGrow ==
    ASSUME SnapTyped, NEW p \in Process, Moves(p)
    PROVE  \A c \in Crate : published[c] \subseteq published'[c]
<1>1. CASE Seal(p)
  BY <1>1 DEF Seal, SnapTyped
<1>2. CASE ~Seal(p)
  BY <1>2 DEF Moves, Publish, Load, CopySource, RefuseManifest, Sync, StartSync, ReadRecord, List, ReadFile, Accept,
              CopyFile, NextDependency, Exchange, Look, Open, Unlink, RemoveDirectory, Rename, Kill
<1>3. QED
  BY <1>1, <1>2

\* What unlinking leaves.
LEMMA UnlinkLeaves ==
    ASSUME SnapTyped, PlaceInv, NEW p \in Process, Unlink(p), NEW d, d = victim[p]
    PROVE  d \in Directory /\ DOMAIN disk'[d] \subseteq DOMAIN disk[d] /\ \A m \in DOMAIN disk'[d] : disk'[d][m] = disk[d][m]
<1>1. d \in Directory
  BY DEF Unlink, PlaceInv, SnapTyped
<1>2. PICK n : disk' = Without(d, n)
  BY DEF Unlink
<1>3. /\ DOMAIN Without(d, n)[d] = DOMAIN disk[d] \ {n}
      /\ \A m \in DOMAIN disk[d] \ {n} : Without(d, n)[d][m] = disk[d][m]
  BY <1>1, WithoutDisk
<1>4. QED
  BY <1>1, <1>2, <1>3

LEMMA GatherGenuine ==
    ASSUME SnapTyped, NEW p \in Publisher, Publish(p), Genuine(Publishes[p], p), disk'[p] # disk[p]
    PROVE  Genuine(Publishes[p], p)'
<1>0. /\ p \in Directory /\ p \in Process /\ Home(p) = Publishes[p] /\ Home(p) \in Crate /\ Record \notin File
      /\ disk = [d \in Directory |-> disk[d]] /\ published = [c \in Crate |-> published[c]]
  BY HomeTyped, SnapshotsAssumption DEF Directory, Process, Record, SnapTyped
<1>1. CASE CopySource(p)
  <2>1. FirstOf(todo[p]) \in File
    <3>1. todo[p] \in SUBSET File /\ todo[p] # {}
      BY <1>0, <1>1 DEF CopySource, SnapTyped
    <3>2. QED
      BY <3>1, FirstIsFile
  <2>2. PICK n : n = <<Home(p), FirstOf(todo[p])>>
    OBVIOUS
  <2>3. PICK value : disk' = Put(p, n, value)
    BY <1>1, <2>2 DEF CopySource
  <2>4. DOMAIN Put(p, n, value)[p] = DOMAIN disk[p] \cup {n} /\ \A m \in DOMAIN disk[p] : m # n => Put(p, n, value)[p][m] = disk[p][m]
    BY <1>0, PutDisk
  <2>5. n \in {Publishes[p]} \X (File \cup {Record}) /\ n # <<Publishes[p], Record>>
    BY <1>0, <2>1, <2>2
  <2>6. DOMAIN disk'[p] \subseteq {Publishes[p]} \X (File \cup {Record})
    BY <2>3, <2>4, <2>5 DEF Genuine
  <2>7. published' = published
    BY <1>1 DEF CopySource
  <2>8. QED
    BY <2>3, <2>4, <2>5, <2>6, <2>7 DEF Genuine
<1>2. CASE Seal(p)
  <2>1. PICK tree : tree = [Tree(p, Home(p)) EXCEPT !["Cargo.toml"].form = "facade"]
    OBVIOUS
  <2>2. PICK sealed : sealed = [contract |-> stated[p], digest |-> tree]
    OBVIOUS
  <2>3. /\ disk'[p] = [n \in DOMAIN disk[p] \cup {<<Home(p), Record>>} |-> IF n[2] = Record THEN sealed ELSE tree[n[2]]]
        /\ published'[Home(p)] = published[Home(p)] \cup {sealed}
    BY <1>0, <1>2, <2>1, <2>2 DEF Seal
  <2>4. /\ DOMAIN disk'[p] = DOMAIN disk[p] \cup {<<Home(p), Record>>}
        /\ disk'[p][<<Home(p), Record>>] = sealed
    BY <2>3
  <2>5. DOMAIN disk'[p] \subseteq {Publishes[p]} \X (File \cup {Record})
    BY <1>0, <2>4 DEF Genuine
  <2>6. QED
    BY <1>0, <2>3, <2>4, <2>5 DEF Genuine
<1>3. QED
  BY <1>1, <1>2 DEF Publish, Load, RefuseManifest

LEMMA SealedForm ==
    ASSUME SnapTyped, NEW p \in Process, Moves(p), NEW c \in Crate, NEW r \in published'[c], r \notin published[c]
    PROVE  r = [contract |-> r.contract, digest |-> r.digest]
<1>1. Seal(p)
  BY DEF Moves, Publish, Load, CopySource, RefuseManifest, Sync, StartSync, ReadRecord, List, ReadFile, Accept,
         CopyFile, NextDependency, Exchange, Look, Open, Unlink, RemoveDirectory, Rename, Kill
<1>2. PICK tree : tree = [Tree(p, Home(p)) EXCEPT !["Cargo.toml"].form = "facade"]
  OBVIOUS
<1>3. published' = [published EXCEPT ![Home(p)] = @ \cup {[contract |-> stated[p], digest |-> tree]}]
  BY <1>1, <1>2 DEF Seal
<1>4. r = [contract |-> stated[p], digest |-> tree]
  BY <1>3 DEF SnapTyped
<1>5. QED
  BY <1>4

LEMMA RecordMoves ==
    ASSUME SnapTyped, PlaceInv, RecordInv, NEW p \in Process, Moves(p)
    PROVE  RecordInv'
<1> SUFFICES ASSUME NEW c \in Crate
             PROVE  /\ \A r \in published'[c] : r = [contract |-> r.contract, digest |-> r.digest]
                    /\ \A d \in Shelf(c) : Genuine(c, d)'
  BY DEF RecordInv, Genuine, Shelf
<1>1. \A r \in published'[c] : r = [contract |-> r.contract, digest |-> r.digest]
  BY SealedForm DEF RecordInv
<1>2. published[c] \subseteq published'[c]
  BY PublishedGrow
<1>3. ASSUME NEW d \in Shelf(c) PROVE Genuine(c, d)'
  <2>1. Genuine(c, d) /\ d \in Directory /\ d \notin Syncer
    BY HomeTyped DEF RecordInv, Genuine, Shelf, Directory, Place, Process
  <2>2. CASE disk'[d] = disk[d]
    BY <1>2, <2>1, <2>2 DEF Genuine
  <2>3. CASE disk'[d] # disk[d] /\ d = victim[p] /\ Unlink(p)
    <3>1. DOMAIN disk'[d] \subseteq DOMAIN disk[d] /\ \A m \in DOMAIN disk'[d] : disk'[d][m] = disk[d][m]
      BY <2>3, UnlinkLeaves
    <3>2. QED
      BY <1>2, <2>1, <3>1 DEF Genuine
  <2>4. CASE disk'[d] # disk[d] /\ d = p /\ pc[p] \in {"gather"} \cup Comparing
    <3>1. p \in Publisher /\ Publishes[p] = c
      BY <2>1, <2>4, HomeTyped DEF Shelf
    <3>2. Publish(p)
      BY <2>1, <2>4, <3>1 DEF Moves, Exchange, Look, Open, Unlink, RemoveDirectory, Rename, Kill, Comparing
    <3>3. QED
      BY <2>1, <2>4, <3>1, <3>2, GatherGenuine
  <2>5. QED
    BY <2>1, <2>2, <2>3, <2>4, Writes
<1>4. QED
  BY <1>1, <1>3

LEMMA RecordStep == ASSUME SnapTyped, PlaceInv, RecordInv, Next PROVE RecordInv'
<1>1. CASE \E c \in Crate : EditFile(c) \/ EditContract(c)
  BY <1>1 DEF EditFile, EditContract, work, RecordInv
<1>2. CASE \E p \in Process : Moves(p)
  BY <1>2, RecordMoves
<1>3. QED
  BY <1>1, <1>2 DEF Next, Moves, Process


-----------------------------------------------------------------------------
(* What a sync copies was published. *)

\* What is in the place of a crate.
LEMMA ShelfInPlace ==
    ASSUME SnapTyped, PlaceInv, RecordInv, NEW c \in Crate, at[c] # None
    PROVE  /\ at[c] \in Shelf(c) /\ Genuine(c, at[c]) /\ at[c] \notin Syncer
           /\ Listing(c) = {f \in File : <<c, f>> \in DOMAIN disk[at[c]]}
           /\ \A n \in Present(c) : <<c, n>> \in DOMAIN disk[at[c]]
<1>1. c \in Place /\ c \notin Syncer
  BY HomeTyped DEF Process
<1>2. OfPlace(c, at[c])
  BY <1>1 DEF PlaceInv
<1>3. at[c] \in Shelf(c) /\ at[c] \notin Syncer
  BY <1>1, <1>2, HomeTyped DEF OfPlace, Shelf
<1>4. Genuine(c, at[c])
  BY <1>3 DEF RecordInv, Genuine, Shelf
<1>5. \A n \in Present(c) : <<c, n>> \in DOMAIN disk[at[c]]
  <2>1. SUFFICES ASSUME NEW m \in DOMAIN disk[at[c]] PROVE <<c, m[2]>> \in DOMAIN disk[at[c]]
    BY DEF Present
  <2>2. m \in {c} \X (File \cup {Record})
    BY <1>4 DEF Genuine
  <2>3. m = <<c, m[2]>>
    BY <2>2
  <2>4. QED
    BY <2>3
<1>6. \A n : <<c, n>> \in DOMAIN disk[at[c]] => n \in Present(c)
  BY DEF Present
<1>7. Listing(c) = {f \in File : <<c, f>> \in DOMAIN disk[at[c]]}
  BY <1>5, <1>6 DEF Listing
<1>8. QED
  BY <1>3, <1>4, <1>5, <1>7

\* The crate a sync is at.
LEMMA CurrentCrate ==
    ASSUME SnapTyped, NEW s \in Syncer, pc[s] \in Comparing
    PROVE  /\ Current(s).crate \in Crate /\ index[s] \in DOMAIN wants[s] /\ index[s] \in Nat
           /\ \A i \in DOMAIN wants[s] : wants[s][i].crate \in Crate /\ i \in Nat
<1>1. wants[s] \in Seq([crate : Crate, contract : Contract]) /\ index[s] \in DOMAIN wants[s] /\ index[s] \in Nat
  BY DEF SnapTyped
<1>2. \A i \in DOMAIN wants[s] : wants[s][i] \in [crate : Crate, contract : Contract] /\ i \in Nat
  BY <1>1, ListItem
<1>3. QED
  BY <1>1, <1>2 DEF Current

\* While another process moves.
LEMMA CopyOthers ==
    ASSUME SnapTyped, PlaceInv, NEW p \in Process, Moves(p), NEW s \in Syncer, s # p,
           Copying(s), NothingElse(s), Copied(s)
    PROVE  Copying(s)' /\ NothingElse(s)' /\ Copied(s)'
<1>0. s \in Process /\ s \in Directory /\ s # None
  BY HomeTyped DEF Process, Directory
<1>1. /\ pc'[s] = pc[s] /\ todo'[s] = todo[s] /\ wants'[s] = wants[s] /\ index'[s] = index[s] /\ record'[s] = record[s]
      /\ seen'[s] = seen[s] /\ (pc[s] # "done" => disk'[s] = disk[s])
  BY <1>0, OthersStay
<1>2. disturbed[s] \subseteq disturbed'[s]
  <2>1. Disturb(p) \/ disturbed' = disturbed
    BY DEF Moves, Publish, Load, CopySource, Seal, RefuseManifest, Sync, StartSync, ReadRecord, List, ReadFile, Accept,
           CopyFile, NextDependency, Exchange, Look, Open, Unlink, RemoveDirectory, Rename, Kill
  <2>2. QED
    BY <2>1, DisturbMore
<1>3. Current(s)' = Current(s) /\ (Repeated(s)' <=> Repeated(s)) /\ \A i : (Behind(s, i)' <=> Behind(s, i)) /\ (Begun(s, i)' <=> Begun(s, i))
  BY <1>1 DEF Current, Repeated, Behind, Begun
<1>4. ASSUME pc[s] \in {"list", "digest", "copy"}, NEW c, c = Current(s).crate, c \notin disturbed'[s]
      PROVE  SoFar(s, c)'
  <2>0. c \in Crate /\ c \in Place
    BY <1>4, CurrentCrate, HomeTyped DEF Comparing
  <2>1. SoFar(s, c) /\ at[c] # None
    BY <1>2, <1>4 DEF Copying, SoFar
  <2>2. Disturb(p) => Home(p) # c
    BY <1>4, <2>0, DisturbMore
  <2>3. at'[c] = at[c]
    <3>1. (RemoveDirectory(p) /\ Disturb(p)) \/ (Rename(p) /\ Disturb(p)) \/ at' = at
      BY DEF Moves, Publish, Load, CopySource, Seal, RefuseManifest, Sync, StartSync, ReadRecord, List, ReadFile, Accept,
             CopyFile, NextDependency, Exchange, Look, Open, Unlink, RemoveDirectory, Rename, Kill
    <3>2. at \in [Place -> Directory \cup {None}]
      BY DEF SnapTyped
    <3>3. QED
      BY <2>0, <2>2, <3>1, <3>2 DEF RemoveDirectory, Rename
  <2>4. disk'[at[c]] = disk[at[c]]
    BY <2>0, <2>1, <2>2, PlacesStay DEF Unlink
  <2>5. Tree(at[c], c)' = Tree(at[c], c)
    BY <2>3, <2>4 DEF Tree
  <2>6. Tree(s, c)' = Tree(s, c)
    BY <1>1, <1>4 DEF Tree
  <2>7. Listing(c)' = Listing(c)
    BY <2>3, <2>4 DEF Listing, Present
  <2>8. QED
    BY <1>1, <1>3, <2>1, <2>3, <2>4, <2>5, <2>6, <2>7 DEF SoFar
<1>5. Copying(s)'
  BY <1>1, <1>3, <1>4 DEF Copying
<1>6. NothingElse(s)'
  BY <1>1, <1>3 DEF NothingElse, Comparing
<1>7. Copied(s)'
  <2>1. SUFFICES ASSUME ~Removed(s)',
                        pc'[s] \in Comparing \cup Exchanging \cup {"done"},
                        NEW i \in DOMAIN wants'[s], Behind(s, i)', wants'[s][i].crate \notin disturbed'[s]
                 PROVE  [contract |-> wants'[s][i].contract, digest |-> Tree(s, wants[s][i].crate)'] \in published'[wants'[s][i].crate]
    BY DEF Copied
  <2>2. ~Removed(s)
    BY <1>0, <2>1, RemovedStays
  <2>3. disk'[s] = disk[s]
    <3>1. SUFFICES ASSUME disk'[s] # disk[s] PROVE FALSE
      OBVIOUS
    <3>2. s = victim[p] /\ Unlink(p)
      BY <1>0, <3>1, Writes
    <3>3. QED
      BY <2>2, <3>2 DEF Removed
  <2>4. PICK c : c = wants[s][i].crate
    OBVIOUS
  <2>5. Tree(s, c)' = Tree(s, c)
    BY <2>3 DEF Tree
  <2>6. wants[s][i].crate \in Crate
    <3>1. wants[s] \in Seq([crate : Crate, contract : Contract])
      BY DEF SnapTyped
    <3>2. wants[s][i] \in [crate : Crate, contract : Contract]
      BY <1>1, <2>1, <3>1, ListItem
    <3>3. QED
      BY <3>2
  <2>7. [contract |-> wants[s][i].contract, digest |-> Tree(s, c)] \in published[c]
    BY <1>1, <1>2, <1>3, <2>1, <2>2, <2>4 DEF Copied
  <2>8. published[c] \subseteq published'[c]
    BY <2>4, <2>6, PublishedGrow
  <2>9. Tree(s, wants[s][i].crate)' = Tree(s, c)
    BY <1>1, <2>3, <2>4 DEF Tree
  <2>10. QED
    BY <1>1, <2>4, <2>7, <2>8, <2>9
<1>8. QED
  BY <1>5, <1>6, <1>7

\* While it exchanges the places itself.
LEMMA CopyExchanges ==
    ASSUME SnapTyped, PlaceInv, NEW s \in Syncer, Exchange(s) \/ Kill(s), Copied(s)
    PROVE  Copying(s)' /\ NothingElse(s)' /\ Copied(s)'
<1>0. s \in Process /\ s \in Directory /\ s # None /\ Moves(s) /\ pc \in [Process -> Steps]
  BY HomeTyped DEF Process, Directory, Moves, SnapTyped, Steps
<1>1. UNCHANGED <<wants, published>> /\ disturbed[s] \subseteq disturbed'[s]
  <2>1. Disturb(s) \/ disturbed' = disturbed
    BY DEF Exchange, Look, Open, Unlink, RemoveDirectory, Rename, Kill
  <2>2. QED
    BY <1>0, <2>1, DisturbMore DEF Exchange, Look, Open, Unlink, RemoveDirectory, Rename, Kill, syncing
<1>2. pc'[s] = "killed" \/ (pc[s] \in Exchanging /\ pc'[s] \in Exchanging \cup {"failed", "done"})
  BY <1>0 DEF Exchange, Look, Open, Unlink, RemoveDirectory, Rename, AfterRemoving, Kill, Goto, Exchanging
<1>3. Copying(s)' /\ NothingElse(s)'
  BY <1>2 DEF Copying, NothingElse, Comparing, Exchanging
<1>4. ASSUME pc[s] \in Exchanging PROVE disk'[s] = disk[s]
  <2>1. SUFFICES ASSUME disk'[s] # disk[s] PROVE FALSE
    OBVIOUS
  <2>2. s = victim[s]
    BY <1>0, <1>4, <2>1, Writes DEF Exchanging, Comparing
  <2>3. OfPlace(Home(s), s)
    BY <1>0, <2>2 DEF PlaceInv
  <2>4. QED
    BY <1>0, <1>4, <2>3, HomeTyped DEF OfPlace, Exchanging
<1>5. Copied(s)'
  <2>1. CASE pc'[s] \in {"killed", "failed"}
    BY <2>1 DEF Copied, Comparing, Exchanging
  <2>2. CASE pc[s] \in Exchanging
    <3>1. Removed(s) => Removed(s)'
      BY <1>0, RemovedStays
    <3>2. \A c : Tree(s, c)' = Tree(s, c)
      BY <1>4, <2>2 DEF Tree
    <3>3. \A i : Behind(s, i)
      BY <2>2 DEF Behind, Comparing, Exchanging
    <3>4. \A i \in DOMAIN wants[s] : Tree(s, wants[s][i].crate)' = Tree(s, wants[s][i].crate)
      BY <1>1, <1>4, <2>2 DEF Tree
    <3>5. QED
      BY <1>1, <2>2, <3>1, <3>3, <3>4 DEF Copied
  <2>3. QED
    BY <1>2, <2>1, <2>2
<1>6. QED
  BY <1>3, <1>5


\* What Put does to the trees of a directory: nothing to those of other crates.
LEMMA PutOthers ==
    ASSUME SnapTyped, NEW e \in Directory, NEW c, NEW f, NEW value, disk' = Put(e, <<c, f>>, value), NEW g, g # c
    PROVE  Tree(e, g)' = Tree(e, g)
<1>1. PICK n : n = <<c, f>>
  OBVIOUS
<1>2. DOMAIN disk'[e] = DOMAIN disk[e] \cup {n} /\ \A m \in DOMAIN disk[e] : m # n => disk'[e][m] = disk[e][m]
  <2>1. disk' = Put(e, n, value)
    BY <1>1
  <2>2. /\ DOMAIN Put(e, n, value)[e] = DOMAIN disk[e] \cup {n}
        /\ \A m \in DOMAIN disk[e] : m # n => Put(e, n, value)[e][m] = disk[e][m]
    BY PutDisk
  <2>3. QED
    BY <2>1, <2>2
<1>3. \A h : <<g, h>> # n
  BY <1>1
<1>4. {h \in File : <<g, h>> \in DOMAIN disk'[e]} = {h \in File : <<g, h>> \in DOMAIN disk[e]}
  BY <1>2, <1>3
<1>5. \A h \in {h \in File : <<g, h>> \in DOMAIN disk[e]} : disk'[e][<<g, h>>] = disk[e][<<g, h>>]
  BY <1>2, <1>3
<1>6. QED
  BY <1>4, <1>5 DEF Tree

LEMMA PutTree ==
    ASSUME SnapTyped, NEW e \in Directory, NEW c, NEW f, NEW value, disk' = Put(e, <<c, f>>, value)
    PROVE  /\ f \notin File => Tree(e, c)' = Tree(e, c)
           /\ f \in File => Tree(e, c)' = [g \in DOMAIN Tree(e, c) \cup {f} |-> IF g = f THEN value ELSE Tree(e, c)[g]]
<1>1. PICK n : n = <<c, f>>
  OBVIOUS
<1>2. /\ DOMAIN disk'[e] = DOMAIN disk[e] \cup {n} /\ disk'[e][n] = value
      /\ \A m \in DOMAIN disk[e] : m # n => disk'[e][m] = disk[e][m]
  <2>1. disk' = Put(e, n, value)
    BY <1>1
  <2>2. /\ DOMAIN Put(e, n, value)[e] = DOMAIN disk[e] \cup {n} /\ Put(e, n, value)[e][n] = value
        /\ \A m \in DOMAIN disk[e] : m # n => Put(e, n, value)[e][m] = disk[e][m]
    BY PutDisk
  <2>3. QED
    BY <2>1, <2>2
<1>3. \A g, h : <<g, h>> # n => (<<g, h>> \in DOMAIN disk'[e] <=> <<g, h>> \in DOMAIN disk[e])
  BY <1>2
<1>4. \A g, h : <<g, h>> = n => g = c /\ h = f
  BY <1>1
<1>5. ASSUME f \notin File PROVE Tree(e, c)' = Tree(e, c)
  <2>1. \A h \in File : <<c, h>> # n
    BY <1>4, <1>5
  <2>2. {h \in File : <<c, h>> \in DOMAIN disk'[e]} = {h \in File : <<c, h>> \in DOMAIN disk[e]}
    BY <1>3, <2>1
  <2>3. \A h \in {h \in File : <<c, h>> \in DOMAIN disk[e]} : disk'[e][<<c, h>>] = disk[e][<<c, h>>]
    BY <1>2, <2>1
  <2>4. QED
    BY <2>2, <2>3 DEF Tree
<1>6. ASSUME f \in File PROVE Tree(e, c)' = [g \in DOMAIN Tree(e, c) \cup {f} |-> IF g = f THEN value ELSE Tree(e, c)[g]]
  <2>1. \A h \in File : h # f => <<c, h>> # n
    BY <1>4
  <2>2. {h \in File : <<c, h>> \in DOMAIN disk'[e]} = {h \in File : <<c, h>> \in DOMAIN disk[e]} \cup {f}
    BY <1>1, <1>2, <1>3, <1>6, <2>1
  <2>3. \A h \in {h \in File : <<c, h>> \in DOMAIN disk[e]} : h # f => disk'[e][<<c, h>>] = disk[e][<<c, h>>]
    BY <1>2, <2>1
  <2>4. disk'[e][<<c, f>>] = value
    BY <1>1, <1>2
  <2>5. DOMAIN Tree(e, c) = {h \in File : <<c, h>> \in DOMAIN disk[e]} /\ \A h \in DOMAIN Tree(e, c) : Tree(e, c)[h] = disk[e][<<c, h>>]
    BY DEF Tree
  <2>6. Tree(e, c)' = [h \in {h \in File : <<c, h>> \in DOMAIN disk'[e]} |-> disk'[e][<<c, h>>]]
    BY DEF Tree
  <2>7. QED
    BY <2>2, <2>3, <2>4, <2>5, <2>6
<1>7. QED
  BY <1>5, <1>6

\* What the steps of a sync before the exchange leave alone.
LEMMA SyncFrame ==
    ASSUME SnapTyped, PlaceInv, RecordInv, NEW s \in Syncer, Sync(s)
    PROVE  /\ UNCHANGED <<at, victim, disturbed, published>> /\ (Removed(s)' <=> Removed(s))
           /\ \A c \in Crate : at[c] # None =>
                 disk'[at[c]] = disk[at[c]] /\ Listing(c)' = Listing(c) /\ Tree(at[c], c)' = Tree(at[c], c)
<1>1. UNCHANGED <<at, victim, disturbed, published>>
  BY DEF Sync, StartSync, ReadRecord, List, ReadFile, Accept, CopyFile, NextDependency
<1>2. Removed(s)' <=> Removed(s)
  BY <1>1 DEF Removed
<1>3. ASSUME NEW c \in Crate, at[c] # None
      PROVE  disk'[at[c]] = disk[at[c]] /\ Listing(c)' = Listing(c) /\ Tree(at[c], c)' = Tree(at[c], c)
  <2>1. at[c] # s /\ c \in Place /\ s \in Process /\ Moves(s)
    BY <1>3, ShelfInPlace, HomeTyped DEF Process, Moves
  <2>2. pc[s] # "unlink"
    BY DEF Sync, StartSync, ReadRecord, List, ReadFile, Accept, CopyFile, NextDependency
  <2>3. at[c] \in Directory
    BY <1>3, <2>1 DEF SnapTyped
  <2>4. disk'[at[c]] = disk[at[c]]
    BY <2>1, <2>2, <2>3, Writes DEF Unlink
  <2>5. QED
    BY <1>1, <2>4 DEF Listing, Present, Tree
<1>4. QED
  BY <1>1, <1>2, <1>3

LEMMA NotRepeated ==
    ASSUME SnapTyped, NEW s \in Syncer, pc[s] \in Comparing, ~Repeated(s)
    PROVE  \A i \in DOMAIN wants[s] : i < index[s] => wants[s][i].crate # Current(s).crate
<1>1. wants[s] \in Seq([crate : Crate, contract : Contract]) /\ index[s] \in DOMAIN wants[s] /\ index[s] \in Nat
  BY DEF SnapTyped
<1>2. \A i \in DOMAIN wants[s] : i \in Nat /\ i >= 1
  BY <1>1
<1>3. \A i \in DOMAIN wants[s] : i < index[s] => i \in 1 .. (index[s] - 1)
  BY <1>1, <1>2
<1>4. QED
  BY <1>3 DEF Repeated

\* While it compares and copies one dependency, the earlier ones stay as they are.
LEMMA CopiedStays ==
    ASSUME NEW s \in Syncer, Copied(s), pc[s] \in Comparing, pc'[s] \in Comparing, wants' = wants, index' = index,
           disturbed' = disturbed, published' = published, Removed(s) => Removed(s)',
           \A i \in DOMAIN wants[s] : i < index[s] => Tree(s, wants[s][i].crate)' = Tree(s, wants[s][i].crate)
    PROVE  Copied(s)'
<1>1. \A i : Behind(s, i) <=> i < index[s]
  BY DEF Behind
<1>2. \A i : Behind(s, i)' <=> i < index[s]
  BY DEF Behind
<1>3. QED
  BY <1>1, <1>2 DEF Copied

LEMMA CopyStart ==
    ASSUME SnapTyped, NEW s \in Syncer, StartSync(s), NothingElse(s)
    PROVE  Copying(s)' /\ NothingElse(s)' /\ Copied(s)'
<1>0. s \in Process /\ pc \in [Process -> Steps]
  BY DEF Process, SnapTyped, Steps
<1>1. PICK list \in Wants : wants' = [wants EXCEPT ![s] = list] /\ Goto(s, IF list = <<>> THEN "look" ELSE "record")
  BY DEF StartSync
<1>2. list \in Seq([crate : Crate, contract : Contract]) /\ wants'[s] = list /\ index'[s] = 1
  BY <1>1, SnapshotsAssumption DEF StartSync, SnapTyped
<1>3. pc'[s] = IF list = <<>> THEN "look" ELSE "record"
  BY <1>0, <1>1 DEF Goto
<1>4. \A i \in DOMAIN list : ~(i < 1)
  BY <1>2
<1>5. DOMAIN disk'[s] = {}
  BY DEF StartSync, NothingElse
<1>6. Copying(s)' /\ NothingElse(s)'
  BY <1>3, <1>5 DEF Copying, NothingElse
<1>7. Copied(s)'
  <2>1. CASE list = <<>>
    BY <1>2, <2>1 DEF Copied
  <2>2. CASE list # <<>>
    BY <1>2, <1>3, <1>4, <2>2 DEF Copied, Behind, Comparing
  <2>3. QED
    BY <2>1, <2>2
<1>8. QED
  BY <1>6, <1>7

\* Refused, there is nothing to be said.
LEMMA CopyRefused ==
    ASSUME NEW s \in Syncer, pc'[s] = "refused"
    PROVE  Copying(s)' /\ NothingElse(s)' /\ Copied(s)'
  BY DEF Copying, NothingElse, Copied, Comparing, Exchanging


LEMMA CopyReadRecord ==
    ASSUME SnapTyped, PlaceInv, RecordInv, NEW s \in Syncer, ReadRecord(s), NothingElse(s), Copied(s)
    PROVE  Copying(s)' /\ NothingElse(s)' /\ Copied(s)'
<1>0. s \in Process /\ pc \in [Process -> Steps] /\ record = [r \in Syncer |-> record[r]] /\ Sync(s) /\ pc[s] = "record"
  BY DEF Process, SnapTyped, Steps, ReadRecord, Sync
<1>1. PICK c : c = Current(s).crate
  OBVIOUS
<1>2. c \in Crate
  BY <1>0, <1>1, CurrentCrate DEF Comparing
<1>3. CASE pc'[s] = "refused"
  BY <1>3, CopyRefused
<1>4. CASE pc'[s] # "refused"
  <2>1. /\ ~Repeated(s) /\ Record \in Present(c) /\ disk[at[c]][<<c, Record>>].contract = Current(s).contract
        /\ record'[s] = disk[at[c]][<<c, Record>>] /\ pc'[s] = "list" /\ UNCHANGED <<disk, todo, seen, wants, index>>
    BY <1>0, <1>1, <1>4 DEF ReadRecord, Refuse, Goto
  <2>2. UNCHANGED <<at, disturbed, published>> /\ (Removed(s)' <=> Removed(s))
    BY <1>0, SyncFrame
  <2>3. at[c] # None
    BY <2>1 DEF Present
  <2>4. <<c, Record>> \in DOMAIN disk[at[c]]
    BY <1>2, <2>1, <2>3, ShelfInPlace
  <2>5. Current(s)' = Current(s) /\ (Repeated(s)' <=> Repeated(s))
    BY <2>1 DEF Current, Repeated
  <2>6. SoFar(s, c)'
    BY <2>1, <2>2, <2>3, <2>4, <2>5 DEF SoFar
  <2>7. Copying(s)'
    BY <1>1, <2>1, <2>5, <2>6 DEF Copying
  <2>8. NothingElse(s)'
    BY <1>0, <2>1 DEF NothingElse, Begun, Comparing
  <2>9. \A i \in DOMAIN wants[s] : Tree(s, wants[s][i].crate)' = Tree(s, wants[s][i].crate)
    BY <2>1 DEF Tree
  <2>10. Copied(s)'
    BY <1>0, <2>1, <2>2, <2>9, CopiedStays DEF Comparing
  <2>11. QED
    BY <2>7, <2>8, <2>10
<1>5. QED
  BY <1>3, <1>4

LEMMA CopyList ==
    ASSUME SnapTyped, PlaceInv, RecordInv, NEW s \in Syncer, List(s), Copying(s), NothingElse(s), Copied(s)
    PROVE  Copying(s)' /\ NothingElse(s)' /\ Copied(s)'
<1>0. /\ s \in Process /\ pc \in [Process -> Steps] /\ todo \in [Process -> SUBSET File] /\ seen = [r \in Syncer |-> seen[r]]
      /\ Sync(s) /\ pc[s] = "list"
  BY DEF Process, SnapTyped, Steps, List, Sync
<1>1. PICK c : c = Current(s).crate
  OBVIOUS
<1>2. c \in Crate
  BY <1>0, <1>1, CurrentCrate DEF Comparing
<1>3. CASE pc'[s] = "refused"
  BY <1>3, CopyRefused
<1>4. CASE pc'[s] # "refused"
  <2>1. /\ at[c] # None /\ todo'[s] = Listing(c) /\ seen'[s] = <<>> /\ pc'[s] = "digest"
        /\ UNCHANGED <<disk, record, wants, index>>
    BY <1>0, <1>1, <1>4 DEF List, Refuse, Goto
  <2>2. UNCHANGED <<at, disturbed, published>> /\ (Removed(s)' <=> Removed(s))
    BY <1>0, SyncFrame
  <2>3. Current(s)' = Current(s) /\ (Repeated(s)' <=> Repeated(s)) /\ Listing(c)' = Listing(c)
    BY <2>1, <2>2 DEF Current, Repeated, Listing, Present
  <2>4. ~Repeated(s) /\ (c \notin disturbed[s] => SoFar(s, c))
    BY <1>0, <1>1 DEF Copying
  <2>5. <<>> = [f \in Listing(c) \ Listing(c) |-> disk[at[c]][<<c, f>>]]
    <3>1. Listing(c) \ Listing(c) = {}
      OBVIOUS
    <3>2. [f \in {} |-> disk[at[c]][<<c, f>>]] = <<>>
      OBVIOUS
    <3>3. QED
      BY <3>1, <3>2
  <2>6. c \notin disturbed[s] => SoFar(s, c)'
    BY <2>1, <2>2, <2>3, <2>4, <2>5 DEF SoFar
  <2>7. Copying(s)'
    BY <1>1, <2>1, <2>2, <2>3, <2>4, <2>6 DEF Copying
  <2>8. NothingElse(s)'
    BY <1>0, <2>1 DEF NothingElse, Begun, Comparing
  <2>9. \A i \in DOMAIN wants[s] : Tree(s, wants[s][i].crate)' = Tree(s, wants[s][i].crate)
    BY <2>1 DEF Tree
  <2>10. Copied(s)'
    BY <1>0, <2>1, <2>2, <2>9, CopiedStays DEF Comparing
  <2>11. QED
    BY <2>7, <2>8, <2>10
<1>5. QED
  BY <1>3, <1>4

LEMMA CopyReadFile ==
    ASSUME SnapTyped, PlaceInv, RecordInv, NEW s \in Syncer, ReadFile(s), Copying(s), NothingElse(s), Copied(s)
    PROVE  Copying(s)' /\ NothingElse(s)' /\ Copied(s)'
<1>0. /\ s \in Process /\ pc \in [Process -> Steps] /\ todo \in [Process -> SUBSET File] /\ seen = [r \in Syncer |-> seen[r]]
      /\ Sync(s) /\ pc[s] = "digest"
  BY DEF Process, SnapTyped, Steps, ReadFile, Sync
<1>1. PICK c, f : c = Current(s).crate /\ f = FirstOf(todo[s])
  OBVIOUS
<1>2. c \in Crate /\ f \in todo[s]
  <2>1. todo[s] \in SUBSET File /\ todo[s] # {}
    BY <1>0 DEF ReadFile
  <2>2. QED
    BY <1>0, <1>1, <2>1, CurrentCrate, FirstIsFile DEF Comparing
<1>3. CASE pc'[s] = "refused"
  BY <1>3, CopyRefused
<1>4. CASE pc'[s] # "refused"
  <2>1. /\ f \in Present(c) /\ todo'[s] = todo[s] \ {f} /\ pc' = pc /\ UNCHANGED <<disk, record, wants, index>>
        /\ seen'[s] = [g \in DOMAIN seen[s] \cup {f} |-> IF g = f THEN disk[at[c]][<<c, f>>] ELSE seen[s][g]]
    BY <1>0, <1>1, <1>4 DEF ReadFile, Refuse, Goto
  <2>2. UNCHANGED <<at, disturbed, published>> /\ (Removed(s)' <=> Removed(s))
    BY <1>0, SyncFrame
  <2>3. Current(s)' = Current(s) /\ (Repeated(s)' <=> Repeated(s)) /\ Listing(c)' = Listing(c)
    BY <2>1, <2>2 DEF Current, Repeated, Listing, Present
  <2>4. ~Repeated(s) /\ (c \notin disturbed[s] => SoFar(s, c))
    BY <1>0, <1>1 DEF Copying
  <2>5. ASSUME SoFar(s, c) PROVE seen'[s] = [g \in Listing(c) \ todo'[s] |-> disk[at[c]][<<c, g>>]]
    <3>1. todo[s] \subseteq Listing(c) /\ seen[s] = [g \in Listing(c) \ todo[s] |-> disk[at[c]][<<c, g>>]]
      BY <1>0, <2>5 DEF SoFar
    <3>2. DOMAIN seen[s] \cup {f} = Listing(c) \ todo'[s]
      BY <1>2, <2>1, <3>1
    <3>3. \A g \in DOMAIN seen[s] : seen[s][g] = disk[at[c]][<<c, g>>]
      BY <3>1
    <3>4. QED
      BY <2>1, <3>2, <3>3
  <2>6. c \notin disturbed[s] => SoFar(s, c)'
    <3>1. SUFFICES ASSUME SoFar(s, c) PROVE SoFar(s, c)'
      BY <2>4
    <3>2. todo'[s] \subseteq Listing(c)
      BY <1>0, <2>1, <3>1 DEF SoFar
    <3>3. QED
      BY <1>0, <2>1, <2>2, <2>3, <2>5, <3>1, <3>2 DEF SoFar
  <2>7. Copying(s)'
    BY <1>1, <2>1, <2>2, <2>3, <2>4, <2>6 DEF Copying
  <2>8. NothingElse(s)'
    BY <1>0, <2>1 DEF NothingElse, Begun, Comparing
  <2>9. \A i \in DOMAIN wants[s] : Tree(s, wants[s][i].crate)' = Tree(s, wants[s][i].crate)
    BY <2>1 DEF Tree
  <2>10. Copied(s)'
    BY <1>0, <2>1, <2>2, <2>9, CopiedStays DEF Comparing
  <2>11. QED
    BY <2>7, <2>8, <2>10
<1>5. QED
  BY <1>3, <1>4


LEMMA CopyAccept ==
    ASSUME SnapTyped, PlaceInv, RecordInv, NEW s \in Syncer, Accept(s), Copying(s), NothingElse(s), Copied(s)
    PROVE  Copying(s)' /\ NothingElse(s)' /\ Copied(s)'
<1>0. /\ s \in Process /\ s \in Directory /\ pc \in [Process -> Steps] /\ todo \in [Process -> SUBSET File]
      /\ Sync(s) /\ pc[s] = "digest" /\ todo[s] = {} /\ Subdirectory \notin File
  BY SnapshotsAssumption DEF Process, Directory, SnapTyped, Steps, Accept, Sync, Subdirectory
<1>1. PICK c : c = Current(s).crate
  OBVIOUS
<1>2. /\ c \in Crate /\ index[s] \in DOMAIN wants[s] /\ index[s] \in Nat /\ c = wants[s][index[s]].crate
      /\ \A i \in DOMAIN wants[s] : i \in Nat
  BY <1>0, <1>1, CurrentCrate DEF Comparing, Current
<1>3. CASE pc'[s] = "refused"
  BY <1>3, CopyRefused
<1>4. CASE pc'[s] # "refused"
  <2>1. /\ seen[s] = record[s].digest /\ at[c] # None /\ todo'[s] = Listing(c) /\ pc'[s] = "copy"
        /\ disk' = Put(s, <<c, Subdirectory>>, None) /\ UNCHANGED <<record, seen, wants, index>>
    BY <1>0, <1>1, <1>4 DEF Accept, Refuse, Goto
  <2>2. /\ UNCHANGED <<at, disturbed, published>> /\ (Removed(s)' <=> Removed(s))
        /\ disk'[at[c]] = disk[at[c]] /\ Listing(c)' = Listing(c) /\ Tree(at[c], c)' = Tree(at[c], c)
    BY <1>0, <1>2, <2>1, SyncFrame
  <2>3. Current(s)' = Current(s) /\ (Repeated(s)' <=> Repeated(s))
    BY <2>1 DEF Current, Repeated
  <2>4. ~Repeated(s) /\ (c \notin disturbed[s] => SoFar(s, c))
    BY <1>0, <1>1 DEF Copying
  <2>5. \A i \in DOMAIN wants[s] : i < index[s] => wants[s][i].crate # c
    BY <1>0, <1>1, <2>4, NotRepeated DEF Comparing
  <2>6. Tree(s, c)' = Tree(s, c)
    BY <1>0, <2>1, PutTree
  <2>7. Tree(s, c)' = [f \in {} |-> disk[at[c]][<<c, f>>]]
    <3>1. \A f \in File : <<c, f>> \notin DOMAIN disk[s]
      <4>1. SUFFICES ASSUME NEW f \in File, <<c, f>> \in DOMAIN disk[s] PROVE FALSE
        OBVIOUS
      <4>2. PICK i \in DOMAIN wants[s] : Begun(s, i) /\ <<c, f>>[1] = wants[s][i].crate
        BY <1>0, <4>1 DEF NothingElse, Comparing
      <4>3. i < index[s]
        BY <1>0, <4>2 DEF Begun
      <4>4. QED
        BY <2>5, <4>2, <4>3
    <3>2. {f \in File : <<c, f>> \in DOMAIN disk[s]} = {}
      BY <3>1
    <3>3. QED
      BY <2>6, <3>2 DEF Tree
  <2>8. c \notin disturbed[s] => SoFar(s, c)'
    <3>1. SUFFICES ASSUME SoFar(s, c) PROVE SoFar(s, c)'
      BY <2>4
    <3>2. seen[s] = [f \in Listing(c) |-> disk[at[c]][<<c, f>>]]
      <4>1. Listing(c) \ todo[s] = Listing(c)
        BY <1>0
      <4>2. QED
        BY <1>0, <3>1, <4>1 DEF SoFar
    <3>3. Tree(at[c], c) = [f \in Listing(c) |-> disk[at[c]][<<c, f>>]]
      BY <1>2, <2>1, ShelfInPlace DEF Tree
    <3>4. record'[s].digest = Tree(at[c], c)'
      BY <2>1, <2>2, <3>2, <3>3
    <3>5. Tree(s, c)' = [f \in Listing(c) \ todo'[s] |-> disk[at[c]][<<c, f>>]]
      <4>1. Listing(c) \ todo'[s] = {}
        BY <2>1
      <4>2. QED
        BY <2>7, <4>1
    <3>6. QED
      BY <2>1, <2>2, <2>3, <3>1, <3>4, <3>5 DEF SoFar
  <2>9. Copying(s)'
    BY <1>1, <2>1, <2>2, <2>3, <2>4, <2>8 DEF Copying
  <2>10. NothingElse(s)'
    <3>1. PICK m : m = <<c, Subdirectory>>
      OBVIOUS
    <3>2. DOMAIN disk'[s] = DOMAIN disk[s] \cup {m}
      <4>1. disk' = Put(s, m, None)
        BY <2>1, <3>1
      <4>2. DOMAIN Put(s, m, None)[s] = DOMAIN disk[s] \cup {m}
        BY <1>0, PutDisk
      <4>3. QED
        BY <4>1, <4>2
    <3>3. ASSUME NEW n \in DOMAIN disk'[s] PROVE \E i \in DOMAIN wants[s] : Begun(s, i)' /\ n[1] = wants[s][i].crate
      <4>1. CASE n = m
        <5>1. PICK i \in DOMAIN wants[s] : i = index[s]
          BY <1>2
        <5>2. Begun(s, i)'
          BY <2>1, <5>1 DEF Begun
        <5>3. n[1] = wants[s][i].crate
          BY <1>2, <3>1, <4>1, <5>1
        <5>4. QED
          BY <5>2, <5>3
      <4>2. CASE n \in DOMAIN disk[s]
        <5>1. PICK i \in DOMAIN wants[s] : Begun(s, i) /\ n[1] = wants[s][i].crate
          BY <1>0, <4>2 DEF NothingElse, Comparing
        <5>2. Begun(s, i)'
          BY <1>0, <2>1, <5>1 DEF Begun
        <5>3. QED
          BY <5>1, <5>2
      <4>3. QED
        BY <3>2, <3>3, <4>1, <4>2
    <3>4. QED
      BY <2>1, <3>3 DEF NothingElse
  <2>11. \A i \in DOMAIN wants[s] : i < index[s] => Tree(s, wants[s][i].crate)' = Tree(s, wants[s][i].crate)
    <3>1. SUFFICES ASSUME NEW i \in DOMAIN wants[s], i < index[s] PROVE Tree(s, wants[s][i].crate)' = Tree(s, wants[s][i].crate)
      OBVIOUS
    <3>2. PICK g : g = wants[s][i].crate
      OBVIOUS
    <3>3. Tree(s, g)' = Tree(s, g)
      BY <1>0, <2>1, <2>5, <3>1, <3>2, PutOthers
    <3>4. wants'[s][i].crate = g
      BY <2>1, <3>2
    <3>5. QED
      BY <3>2, <3>3, <3>4 DEF Tree
  <2>12. Copied(s)'
    BY <1>0, <2>1, <2>2, <2>11, CopiedStays DEF Comparing
  <2>13. QED
    BY <2>9, <2>10, <2>12
<1>5. QED
  BY <1>3, <1>4

LEMMA CopyNext ==
    ASSUME SnapTyped, PlaceInv, RecordInv, NEW s \in Syncer, NextDependency(s), Copying(s), NothingElse(s), Copied(s)
    PROVE  Copying(s)' /\ NothingElse(s)' /\ Copied(s)'
<1>0. /\ s \in Process /\ pc \in [Process -> Steps] /\ Sync(s) /\ pc[s] = "copy" /\ todo[s] = {}
      /\ index \in [Syncer -> Nat \ {0}] /\ UNCHANGED <<wants, disk, todo, record, seen>>
  BY DEF Process, SnapTyped, Steps, NextDependency, Sync
<1>1. PICK c : c = Current(s).crate
  OBVIOUS
<1>2. /\ c \in Crate /\ index[s] \in DOMAIN wants[s] /\ index[s] \in Nat /\ c = wants[s][index[s]].crate
      /\ \A i \in DOMAIN wants[s] : i \in Nat
  BY <1>0, <1>1, CurrentCrate DEF Comparing, Current
<1>3. UNCHANGED <<at, disturbed, published>> /\ (Removed(s)' <=> Removed(s))
  BY <1>0, SyncFrame
<1>4. \/ pc'[s] = "record" /\ index'[s] = index[s] + 1
      \/ pc'[s] = "look" /\ \A i \in DOMAIN wants[s] : i <= index[s]
  <2>1. DOMAIN wants[s] = 1 .. Len(wants[s]) /\ Len(wants[s]) \in Nat
    <3>1. wants[s] \in Seq([crate : Crate, contract : Contract])
      BY DEF SnapTyped
    <3>2. QED
      BY <3>1
  <2>2. CASE index[s] < Len(wants[s])
    BY <1>0, <2>2 DEF NextDependency, Goto
  <2>3. CASE ~(index[s] < Len(wants[s]))
    <3>1. \A i \in DOMAIN wants[s] : i <= index[s]
      BY <1>2, <2>1, <2>3
    <3>2. pc'[s] = "look"
      BY <1>0, <2>3 DEF NextDependency, Goto
    <3>3. QED
      BY <3>1, <3>2
  <2>4. QED
    BY <2>2, <2>3
<1>5. Copying(s)'
  BY <1>4 DEF Copying
<1>6. NothingElse(s)'
  <2>1. ASSUME pc'[s] = "record", NEW n \in DOMAIN disk[s] PROVE \E i \in DOMAIN wants[s] : Begun(s, i)' /\ n[1] = wants[s][i].crate
    <3>1. PICK i \in DOMAIN wants[s] : Begun(s, i) /\ n[1] = wants[s][i].crate
      BY <1>0 DEF NothingElse, Comparing
    <3>2. i < index[s] + 1
      BY <1>2, <3>1 DEF Begun
    <3>3. Begun(s, i)'
      BY <1>4, <2>1, <3>2 DEF Begun
    <3>4. QED
      BY <3>1, <3>3
  <2>2. QED
    BY <1>0, <1>4, <2>1 DEF NothingElse, Comparing
<1>7. Copied(s)'
  <2>1. SUFFICES ASSUME ~Removed(s), NEW i \in DOMAIN wants[s], Behind(s, i)', NEW g, g = wants[s][i].crate, g \notin disturbed[s]
                 PROVE  [contract |-> wants[s][i].contract, digest |-> Tree(s, g)] \in published[g]
    <3>1. \A g : Tree(s, g)' = Tree(s, g)
      BY <1>0 DEF Tree
    <3>2. \A i \in DOMAIN wants[s] : Tree(s, wants[s][i].crate)' = Tree(s, wants[s][i].crate)
      BY <1>0 DEF Tree
    <3>3. QED
      BY <1>0, <1>3, <3>2 DEF Copied
  <2>2. i < index[s] \/ i = index[s]
    BY <1>2, <1>4, <2>1 DEF Behind, Comparing
  <2>3. CASE i < index[s]
    BY <1>0, <2>1, <2>3 DEF Copied, Behind, Comparing
  <2>4. CASE i = index[s]
    <3>1. g = c /\ SoFar(s, c)
      BY <1>0, <1>1, <1>2, <2>1, <2>4 DEF Copying
    <3>2. /\ at[c] # None /\ <<c, Record>> \in DOMAIN disk[at[c]] /\ record[s] = disk[at[c]][<<c, Record>>]
          /\ record[s].contract = Current(s).contract /\ record[s].digest = Tree(at[c], c)
          /\ Tree(s, c) = [f \in Listing(c) \ todo[s] |-> disk[at[c]][<<c, f>>]]
      BY <1>0, <3>1 DEF SoFar
    <3>3. Tree(s, c) = Tree(at[c], c)
      <4>1. Listing(c) = {f \in File : <<c, f>> \in DOMAIN disk[at[c]]}
        BY <1>2, <3>2, ShelfInPlace
      <4>2. Listing(c) \ todo[s] = Listing(c)
        BY <1>0
      <4>3. QED
        BY <3>2, <4>1, <4>2 DEF Tree
    <3>4. record[s] \in published[c]
      BY <1>2, <3>2, ShelfInPlace DEF Genuine
    <3>5. record[s] = [contract |-> record[s].contract, digest |-> record[s].digest]
      BY <1>2, <3>4 DEF RecordInv
    <3>6. record[s].contract = wants[s][i].contract
      BY <2>4, <3>2 DEF Current
    <3>7. QED
      BY <3>1, <3>2, <3>3, <3>4, <3>5, <3>6
  <2>5. QED
    BY <2>2, <2>3, <2>4
<1>8. QED
  BY <1>5, <1>6, <1>7


LEMMA CopyCopyFile ==
    ASSUME SnapTyped, PlaceInv, RecordInv, NEW s \in Syncer, CopyFile(s), Copying(s), NothingElse(s), Copied(s)
    PROVE  Copying(s)' /\ NothingElse(s)' /\ Copied(s)'
<1>0. /\ s \in Process /\ s \in Directory /\ pc \in [Process -> Steps] /\ todo \in [Process -> SUBSET File]
      /\ Sync(s) /\ pc[s] = "copy"
  BY DEF Process, Directory, SnapTyped, Steps, CopyFile, Sync
<1>1. PICK c, f : c = Current(s).crate /\ f = FirstOf(todo[s])
  OBVIOUS
<1>2. /\ c \in Crate /\ index[s] \in DOMAIN wants[s] /\ index[s] \in Nat /\ c = wants[s][index[s]].crate
      /\ f \in todo[s] /\ f \in File
  <2>1. todo[s] \in SUBSET File /\ todo[s] # {}
    BY <1>0 DEF CopyFile
  <2>2. QED
    BY <1>0, <1>1, <2>1, CurrentCrate, FirstIsFile DEF Comparing, Current
<1>3. CASE pc'[s] = "refused"
  BY <1>3, CopyRefused
<1>4. CASE pc'[s] # "refused"
  <2>1. /\ todo'[s] = todo[s] \ {f} /\ pc' = pc /\ UNCHANGED <<record, seen, wants, index>>
        /\ \/ f \in Present(c) /\ disk' = Put(s, <<c, f>>, disk[at[c]][<<c, f>>])
           \/ f \notin Present(c) /\ disk' = disk
    BY <1>0, <1>1, <1>4 DEF CopyFile, Refuse, Goto
  <2>2. UNCHANGED <<at, disturbed, published>> /\ (Removed(s)' <=> Removed(s))
    BY <1>0, SyncFrame
  <2>3. Current(s)' = Current(s) /\ (Repeated(s)' <=> Repeated(s))
    BY <2>1 DEF Current, Repeated
  <2>4. ~Repeated(s) /\ (c \notin disturbed[s] => SoFar(s, c))
    BY <1>0, <1>1 DEF Copying
  <2>5. \A i \in DOMAIN wants[s] : i < index[s] => wants[s][i].crate # c
    BY <1>0, <1>1, <2>4, NotRepeated DEF Comparing
  <2>6. ASSUME SoFar(s, c) PROVE SoFar(s, c)'
    <3>1. /\ at[c] # None /\ todo[s] \subseteq Listing(c) /\ record[s].digest = Tree(at[c], c)
          /\ Tree(s, c) = [g \in Listing(c) \ todo[s] |-> disk[at[c]][<<c, g>>]]
      BY <1>0, <2>6 DEF SoFar
    <3>2. disk'[at[c]] = disk[at[c]] /\ Listing(c)' = Listing(c) /\ Tree(at[c], c)' = Tree(at[c], c)
      BY <1>0, <1>2, <3>1, SyncFrame
    <3>3. f \in Present(c)
      BY <1>2, <3>1 DEF Listing
    <3>4. PICK value : value = disk[at[c]][<<c, f>>]
      OBVIOUS
    <3>5. disk' = Put(s, <<c, f>>, value)
      BY <2>1, <3>3, <3>4
    <3>6. Tree(s, c)' = [g \in DOMAIN Tree(s, c) \cup {f} |-> IF g = f THEN value ELSE Tree(s, c)[g]]
      BY <1>0, <1>2, <3>5, PutTree
    <3>7. DOMAIN Tree(s, c) \cup {f} = Listing(c) \ todo'[s]
      BY <1>2, <2>1, <3>1
    <3>8. Tree(s, c)' = [g \in Listing(c) \ todo'[s] |-> disk[at[c]][<<c, g>>]]
      <4>1. \A g \in DOMAIN Tree(s, c) : Tree(s, c)[g] = disk[at[c]][<<c, g>>]
        BY <3>1
      <4>2. QED
        BY <3>4, <3>6, <3>7, <4>1
    <3>9. todo'[s] \subseteq Listing(c)
      BY <2>1, <3>1
    <3>10. QED
      BY <1>0, <2>1, <2>2, <2>3, <2>6, <3>1, <3>2, <3>8, <3>9 DEF SoFar
  <2>7. Copying(s)'
    BY <1>1, <2>1, <2>2, <2>3, <2>4, <2>6 DEF Copying
  <2>8. NothingElse(s)'
    <3>1. \A n \in DOMAIN disk'[s] : n \in DOMAIN disk[s] \/ n = <<c, f>>
      <4>1. CASE disk' = disk
        BY <4>1
      <4>2. CASE disk' = Put(s, <<c, f>>, disk[at[c]][<<c, f>>])
        <5>1. PICK m, value : m = <<c, f>> /\ value = disk[at[c]][<<c, f>>]
          OBVIOUS
        <5>2. disk' = Put(s, m, value)
          BY <4>2, <5>1
        <5>3. DOMAIN Put(s, m, value)[s] = DOMAIN disk[s] \cup {m}
          BY <1>0, PutDisk
        <5>4. QED
          BY <5>1, <5>2, <5>3
      <4>3. QED
        BY <2>1, <4>1, <4>2
    <3>2. \A i : Begun(s, i)' <=> Begun(s, i)
      BY <2>1 DEF Begun
    <3>3. Begun(s, index[s])
      BY <1>0 DEF Begun
    <3>4. ASSUME NEW n \in DOMAIN disk'[s] PROVE \E i \in DOMAIN wants[s] : Begun(s, i) /\ n[1] = wants[s][i].crate
      <4>1. CASE n = <<c, f>>
        BY <1>2, <3>3, <4>1
      <4>2. CASE n \in DOMAIN disk[s]
        BY <1>0, <4>2 DEF NothingElse, Comparing
      <4>3. QED
        BY <3>1, <3>4, <4>1, <4>2
    <3>5. QED
      BY <1>0, <2>1, <3>2, <3>4 DEF NothingElse
  <2>9. ASSUME NEW i \in DOMAIN wants[s], i < index[s] PROVE Tree(s, wants[s][i].crate)' = Tree(s, wants[s][i].crate)
    <3>1. PICK g : g = wants[s][i].crate
      OBVIOUS
    <3>2. Tree(s, g)' = Tree(s, g)
      <4>1. CASE disk' = disk
        BY <4>1 DEF Tree
      <4>2. CASE disk' = Put(s, <<c, f>>, disk[at[c]][<<c, f>>])
        <5>1. PICK value : value = disk[at[c]][<<c, f>>]
          OBVIOUS
        <5>2. disk' = Put(s, <<c, f>>, value)
          BY <4>2, <5>1
        <5>3. s \in Directory
          BY <1>0
        <5>4. g # c
          BY <2>5, <2>9, <3>1
        <5>5. QED
          BY <5>2, <5>3, <5>4, PutOthers
      <4>3. QED
        BY <2>1, <4>1, <4>2
    <3>3. wants'[s][i].crate = g
      BY <2>1, <3>1
    <3>4. QED
      BY <3>1, <3>2, <3>3 DEF Tree
  <2>10. Copied(s)'
    BY <1>0, <2>1, <2>2, <2>9, CopiedStays DEF Comparing
  <2>11. QED
    BY <2>7, <2>8, <2>10
<1>5. QED
  BY <1>3, <1>4

LEMMA CopyStep == ASSUME SnapTyped, PlaceInv, RecordInv, CopyInv, Next PROVE CopyInv'
<1> SUFFICES ASSUME NEW s \in Syncer PROVE Copying(s)' /\ NothingElse(s)' /\ Copied(s)'
  BY DEF CopyInv
<1>0. Copying(s) /\ NothingElse(s) /\ Copied(s) /\ s \in Process
  BY DEF CopyInv, Process
<1>1. CASE \E c \in Crate : EditFile(c) \/ EditContract(c)
  <2>1. UNCHANGED <<disk, at, pc, todo, victim, record, seen, wants, index, disturbed, published>>
    BY <1>1 DEF EditFile, EditContract, work, syncing
  <2>2. /\ Current(s)' = Current(s) /\ (Repeated(s)' <=> Repeated(s)) /\ (Removed(s)' <=> Removed(s))
        /\ \A i : (Behind(s, i)' <=> Behind(s, i)) /\ (Begun(s, i)' <=> Begun(s, i))
    BY <2>1 DEF Current, Repeated, Removed, Behind, Begun
  <2>3. \A c : Listing(c)' = Listing(c) /\ Tree(s, c)' = Tree(s, c) /\ Tree(at[c], c)' = Tree(at[c], c)
    BY <2>1 DEF Listing, Present, Tree
  <2>4. \A c : SoFar(s, c)' <=> SoFar(s, c)
    BY <2>1, <2>2, <2>3 DEF SoFar
  <2>5. Copying(s)'
    <3>1. PICK c : c = Current(s).crate
      OBVIOUS
    <3>2. QED
      BY <1>0, <2>1, <2>2, <2>4, <3>1 DEF Copying
  <2>6. NothingElse(s)'
    BY <1>0, <2>1, <2>2 DEF NothingElse
  <2>7. \A i \in DOMAIN wants[s] : Tree(s, wants[s][i].crate)' = Tree(s, wants[s][i].crate)
    BY <2>1 DEF Tree
  <2>8. Copied(s)'
    BY <1>0, <2>1, <2>2, <2>7 DEF Copied
  <2>9. QED
    BY <2>5, <2>6, <2>8
<1>2. CASE \E p \in Process \ {s} : Moves(p)
  BY <1>0, <1>2, CopyOthers
<1>3. CASE Exchange(s) \/ Kill(s)
  BY <1>0, <1>3, CopyExchanges
<1>4. CASE Sync(s)
  BY <1>0, <1>4, CopyStart, CopyReadRecord, CopyList, CopyReadFile, CopyAccept, CopyCopyFile, CopyNext DEF Sync
<1>5. QED
  <2>1. s \notin Publisher
    BY HomeTyped
  <2>2. (\E p \in Process : Moves(p)) \/ \E c \in Crate : EditFile(c) \/ EditContract(c)
    BY DEF Next, Moves, Process
  <2>3. Moves(s) => Sync(s) \/ Exchange(s) \/ Kill(s)
    BY <2>1 DEF Moves
  <2>4. QED
    BY <1>1, <1>2, <1>3, <1>4, <2>2, <2>3


\* What a sync has put into the place of its project was published.
LEMMA InstalledCopied ==
    ASSUME PlaceInv, CopyInv
    PROVE  InstalledWasPublished
<1> SUFFICES ASSUME NEW x \in Project, at[x] \in Syncer, ~Removed(at[x])
             PROVE  \A i \in DOMAIN wants[at[x]] : wants[at[x]][i].crate \notin disturbed[at[x]] =>
                        [contract |-> wants[at[x]][i].contract, digest |-> Tree(at[x], wants[at[x]][i].crate)]
                            \in published[wants[at[x]][i].crate]
  BY DEF InstalledWasPublished
<1>1. PICK s \in Syncer : s = at[x]
  OBVIOUS
<1>2. x \in Place /\ x \notin Process /\ None \notin Process /\ s \in Process
  BY HomeTyped DEF Directory, Process
<1>3. OfPlace(x, s)
  BY <1>1, <1>2 DEF PlaceInv
<1>4. pc[s] = "done"
  BY <1>2, <1>3 DEF OfPlace
<1>5. Copied(s)
  BY DEF CopyInv
<1>6. QED
  BY <1>1, <1>4, <1>5 DEF Copied, Behind, Comparing

-----------------------------------------------------------------------------
(* The invariant, and what follows from it. *)

\* An earlier snapshot holds what its record says.
LEMMA SnapshotWhole ==
    ASSUME NEW c, NEW k, NEW sealed, sealed = FirstSnapshot(k), NEW d, d = Snapshot(c, sealed)
    PROVE  /\ DOMAIN d = {c} \X (File \cup {Record}) /\ <<c, Record>> \in DOMAIN d /\ d[<<c, Record>>] = sealed
           /\ sealed = [contract |-> sealed.contract, digest |-> sealed.digest]
           /\ sealed.digest = [f \in {f \in File : <<c, f>> \in DOMAIN d} |-> d[<<c, f>>]]
<1>1. Record \notin File
  BY SnapshotsAssumption DEF Record
<1>2. PICK tree : tree = [FirstEdition EXCEPT !["Cargo.toml"].form = "facade"]
  OBVIOUS
<1>3. sealed = [contract |-> k, digest |-> tree]
  BY <1>2 DEF FirstSnapshot
<1>4. DOMAIN tree = File /\ tree = [f \in File |-> tree[f]]
  BY <1>2 DEF FirstEdition
<1>5. d = [n \in {c} \X (File \cup {Record}) |-> IF n[2] = Record THEN sealed ELSE tree[n[2]]]
  BY <1>3 DEF Snapshot
<1>6. {f \in File : <<c, f>> \in DOMAIN d} = File
  BY <1>5
<1>7. \A f \in File : d[<<c, f>>] = tree[f]
  BY <1>1, <1>5
<1>8. sealed.digest = [f \in {f \in File : <<c, f>> \in DOMAIN d} |-> d[<<c, f>>]]
  BY <1>3, <1>4, <1>6, <1>7
<1>9. QED
  BY <1>3, <1>5, <1>8

LEMMA SnapInit == Init => SnapInv
<1> SUFFICES ASSUME Init PROVE SnapInv
  OBVIOUS
<1>1. PICK filled \in SUBSET Place :
         /\ at = [h \in Place |-> IF h \in filled THEN h ELSE None]
         /\ published = [c \in Crate |-> IF c \in filled THEN {FirstSnapshot(contract[c])} ELSE {}]
         /\ disk = [d \in Directory |->
                       CASE d \in filled \cap Crate -> Snapshot(d, FirstSnapshot(contract[d]))
                         [] d \in filled \cap Project -> Earlier(CHOOSE c \in Crate : TRUE)
                         [] OTHER -> <<>>]
  BY DEF Init
<1>2. /\ pc = [p \in Process |-> "load"] /\ todo = [p \in Process |-> {}] /\ victim = [p \in Process |-> None]
      /\ record = [s \in Syncer |-> None] /\ seen = [s \in Syncer |-> <<>>] /\ wants = [s \in Syncer |-> <<>>]
      /\ index = [s \in Syncer |-> 1] /\ disturbed = [s \in Syncer |-> {}]
  BY DEF Init
<1>3. \A p \in Process : p \notin Place /\ p \in Directory /\ DOMAIN disk[p] = {}
  <2>1. \A p \in Process : p \notin filled /\ p \in Directory
    BY HomeTyped DEF Directory
  <2>2. \A p \in Process : disk[p] = <<>>
    BY <1>1, <2>1
  <2>3. QED
    BY <2>1, <2>2, HomeTyped
<1>4. ASSUME NEW c \in Crate, c \in filled
      PROVE  /\ DOMAIN disk[c] = {c} \X (File \cup {Record}) /\ <<c, Record>> \in DOMAIN disk[c]
             /\ disk[c][<<c, Record>>] = FirstSnapshot(contract[c])
             /\ disk[c][<<c, Record>>].digest = Tree(c, c)
             /\ published[c] = {FirstSnapshot(contract[c])}
  <2>1. c \in Directory /\ c \in filled \cap Crate /\ c \notin filled \cap Project
    BY <1>4, SnapshotsAssumption DEF Directory, Place
  <2>2. PICK sealed : sealed = FirstSnapshot(contract[c])
    OBVIOUS
  <2>3. PICK d : d = Snapshot(c, sealed)
    OBVIOUS
  <2>4. disk[c] = d
    BY <1>1, <2>1, <2>2, <2>3
  <2>5. Tree(c, c) = [f \in {f \in File : <<c, f>> \in DOMAIN d} |-> d[<<c, f>>]]
    BY <2>4 DEF Tree
  <2>6. /\ DOMAIN d = {c} \X (File \cup {Record}) /\ <<c, Record>> \in DOMAIN d /\ d[<<c, Record>>] = sealed
        /\ sealed.digest = [f \in {f \in File : <<c, f>> \in DOMAIN d} |-> d[<<c, f>>]]
    BY <2>2, <2>3, SnapshotWhole
  <2>7. published[c] = {FirstSnapshot(contract[c])}
    BY <1>1, <1>4
  <2>8. QED
    BY <2>2, <2>4, <2>5, <2>6, <2>7
<1>5. SnapTyped
  <2>1. at \in [Place -> Directory \cup {None}]
    BY <1>1 DEF Directory
  <2>2. disk = [d \in Directory |-> disk[d]] /\ published = [c \in Crate |-> published[c]]
    BY <1>1
  <2>3. pc \in [Process -> {"load", "gather"} \cup Comparing \cup Exchanging \cup Ended] /\ todo \in [Process -> SUBSET File]
        /\ victim \in [Process -> Directory \cup {None}] /\ record = [s \in Syncer |-> record[s]]
        /\ seen = [s \in Syncer |-> seen[s]] /\ index \in [Syncer -> Nat \ {0}] /\ disturbed \in [Syncer -> SUBSET Crate]
    BY <1>2
  <2>4. wants \in [Syncer -> Seq([crate : Crate, contract : Contract])]
    <3>1. <<>> \in Seq([crate : Crate, contract : Contract])
      OBVIOUS
    <3>2. QED
      BY <1>2, <3>1
  <2>5. \A p \in Publisher : pc[p] \notin Comparing
    BY <1>2 DEF Process, Comparing
  <2>6. \A s \in Syncer : pc[s] = "load"
    BY <1>2 DEF Process
  <2>7. QED
    BY <2>1, <2>2, <2>3, <2>4, <2>5, <2>6 DEF SnapTyped, Comparing
<1>6. PlaceInv
  BY <1>1, <1>2 DEF PlaceInv, OfPlace
<1>7. WholeInv
  <2>1. ASSUME NEW h \in Place, at[h] # None PROVE Whole(h, at[h])
    <3>1. at[h] = h /\ h \in filled
      BY <1>1, <2>1
    <3>2. h \notin Syncer
      BY HomeTyped DEF Process
    <3>3. QED
      BY <1>4, <3>1, <3>2 DEF Whole
  <2>2. QED
    BY <1>2, <2>1 DEF WholeInv, WholeOrRemoved, Exchanging, Comparing, Process
<1>8. FillInv
  BY <1>2 DEF FillInv
<1>9. RecordInv
  <2>1. ASSUME NEW c \in Crate, NEW r \in published[c] PROVE r = [contract |-> r.contract, digest |-> r.digest]
    <3>1. r = FirstSnapshot(contract[c])
      BY <1>1, <2>1
    <3>2. PICK sealed : sealed = FirstSnapshot(contract[c])
      OBVIOUS
    <3>3. sealed = [contract |-> sealed.contract, digest |-> sealed.digest]
      BY <3>2, SnapshotWhole
    <3>4. QED
      BY <3>1, <3>2, <3>3
  <2>2. ASSUME NEW c \in Crate, NEW d \in {c} \cup {p \in Publisher : Publishes[p] = c}
        PROVE  Genuine(c, d)
    <3>1. CASE d = c /\ c \in filled
      BY <1>4, <3>1 DEF Genuine
    <3>2. CASE d = c /\ c \notin filled
      <4>1. c \in Directory
        BY DEF Directory, Place
      <4>2. disk[c] = <<>>
        BY <1>1, <3>2, <4>1
      <4>3. DOMAIN disk[c] = {}
        BY <4>2
      <4>4. QED
        BY <3>2, <4>3 DEF Genuine
    <3>3. CASE d \in Publisher
      BY <1>3, <3>3 DEF Genuine, Process
    <3>4. QED
      BY <2>2, <3>1, <3>2, <3>3
  <2>3. QED
    BY <2>1, <2>2 DEF RecordInv, Genuine
<1>10. CopyInv
  <2>1. \A s \in Syncer : pc[s] = "load" /\ DOMAIN disk[s] = {}
    BY <1>2, <1>3 DEF Process
  <2>2. QED
    BY <2>1 DEF CopyInv, Copying, NothingElse, Copied, Comparing, Exchanging
<1>11. QED
  BY <1>5, <1>6, <1>7, <1>8, <1>9, <1>10 DEF SnapInv

LEMMA SnapStutters == ASSUME SnapInv, UNCHANGED vars PROVE SnapInv'
<1>1. UNCHANGED <<disk, at, pc, todo, victim, record, seen, wants, index, disturbed, published>>
  BY DEF vars, work, syncing
<1>2. \A h, d : Whole(h, d)' <=> Whole(h, d)
  BY <1>1 DEF Whole, Tree, Crates
<1>3. \A d : Removed(d)' <=> Removed(d)
  BY <1>1 DEF Removed
<1>4. \A p : Home(p)' = Home(p) /\ (Empties(p)' <=> Empties(p))
  BY <1>1 DEF Home, Empties
<1>5. SnapTyped'
  BY <1>1 DEF SnapInv, SnapTyped
<1>6. PlaceInv'
  BY <1>1 DEF SnapInv, PlaceInv, OfPlace, Home
<1>7. WholeInv'
  <2>1. WholeOrRemoved'
    BY <1>1, <1>2, <1>3 DEF SnapInv, WholeInv, WholeOrRemoved
  <2>2. QED
    BY <1>1, <1>2, <1>4, <2>1 DEF SnapInv, WholeInv, Begun
<1>8. FillInv'
  BY <1>1, <1>4 DEF SnapInv, FillInv
<1>9. RecordInv'
  BY <1>1 DEF SnapInv, RecordInv
<1>10. CopyInv'
  <2>1. SUFFICES ASSUME NEW s \in Syncer PROVE Copying(s)' /\ NothingElse(s)' /\ Copied(s)'
    BY DEF CopyInv
  <2>2. Copying(s) /\ NothingElse(s) /\ Copied(s)
    BY <2>1 DEF SnapInv, CopyInv
  <2>3. /\ Current(s)' = Current(s) /\ (Repeated(s)' <=> Repeated(s))
        /\ \A i : (Behind(s, i)' <=> Behind(s, i)) /\ (Begun(s, i)' <=> Begun(s, i))
    BY <1>1 DEF Current, Repeated, Behind, Begun
  <2>4. \A c : Listing(c)' = Listing(c) /\ Tree(s, c)' = Tree(s, c) /\ Tree(at[c], c)' = Tree(at[c], c)
    BY <1>1 DEF Listing, Present, Tree
  <2>5. \A c : SoFar(s, c)' <=> SoFar(s, c)
    BY <1>1, <2>3, <2>4 DEF SoFar
  <2>6. Copying(s)'
    <3>1. PICK c : c = Current(s).crate
      OBVIOUS
    <3>2. QED
      BY <1>1, <2>2, <2>3, <2>5, <3>1 DEF Copying
  <2>7. NothingElse(s)'
    BY <1>1, <2>2, <2>3 DEF NothingElse
  <2>8. \A i \in DOMAIN wants[s] : Tree(s, wants[s][i].crate)' = Tree(s, wants[s][i].crate)
    BY <1>1 DEF Tree
  <2>9. Copied(s)'
    BY <1>1, <1>3, <2>2, <2>3, <2>8 DEF Copied
  <2>10. QED
    BY <2>6, <2>7, <2>9
<1>11. QED
  BY <1>5, <1>6, <1>7, <1>8, <1>9, <1>10 DEF SnapInv

\* Whatever publications and syncs do between each other's calls, the places, what
\* is to be put into them and what has been read of them are as SnapInv says.
THEOREM SnapInductive == Spec => []SnapInv
<1>1. Init => SnapInv
  BY SnapInit
<1>2. SnapInv /\ [Next]_vars => SnapInv'
  <2>1. SUFFICES ASSUME SnapInv, [Next]_vars PROVE SnapInv'
    OBVIOUS
  <2>2. CASE UNCHANGED vars
    BY <2>1, <2>2, SnapStutters
  <2>3. CASE Next
    <3>1. SnapTyped' /\ PlaceInv' /\ WholeInv'
      BY <2>1, <2>3, TypedStep, PlaceStep, WholeStep DEF SnapInv
    <3>2. FillInv' /\ RecordInv' /\ CopyInv'
      BY <2>1, <2>3, FillStep, RecordStep, CopyStep DEF SnapInv
    <3>3. QED
      BY <3>1, <3>2 DEF SnapInv
  <2>4. QED
    BY <2>1, <2>2, <2>3
<1>3. QED
  BY <1>1, <1>2, PTL DEF Spec

\* No half-made snapshot, and no half-made .elm/dependencies, is ever where others
\* look: the exchange by removal and rename is all or nothing, whoever is killed.
THEOREM WholeOrRemovedHolds == Spec => []WholeOrRemoved
<1>1. SnapInv => WholeOrRemoved
  BY DEF SnapInv, WholeInv
<1>2. QED
  BY <1>1, SnapInductive, PTL

\* What validate_api_snapshot has accepted and copy_api_tree copied is a snapshot
\* that was published under the contract asked for, unless its place changed.
THEOREM InstalledWasPublishedHolds == Spec => []InstalledWasPublished
<1>1. SnapInv => InstalledWasPublished
  BY InstalledCopied DEF SnapInv
<1>2. QED
  BY <1>1, SnapInductive, PTL

\* Of processes that exchange one place at once, and are not killed, one installs.
THEOREM SomeoneInstallsHolds == Spec => []SomeoneInstalls
<1>1. SnapInv => SomeoneInstalls
  BY InstalledBySomeone DEF SnapInv, WholeInv
<1>2. QED
  BY <1>1, SnapInductive, PTL

-----------------------------------------------------------------------------
(* Language packages. *)


\* What artifacts, and the entries for them, may hold.
Content ==
    {Image(k, t, code) : k \in Kernels, t \in Target, code \in Codes} \cup {Blob(code) : code \in Codes}
Artifact ==
    [path : Path, kind : STRING, target : Target, sha : Content \cup {Missing},
     signature : {Missing} \cup [key : Key, over : Content]]

IsManifest(p) == DOMAIN p = ManifestFields /\ p.artifacts \in Seq(Artifact)

FilesTyped ==
    /\ kernel \in Kernels /\ bridge \in Bridges
    /\ IsManifest(package) /\ stored \in [Path -> Content]

\* s is what the commands make of the interface of k and of b, for any target,
\* with or without a package.
MadeOf(s, k, b) ==
    /\ s = [package |-> s.package, target |-> s.target, profile |-> k.profile,
            kernel |-> <<s.target, k.source>>, hash |-> <<k.source, k.symbols>>,
            identity |-> s.identity, types |-> b.types, symbols |-> k.symbols,
            operations |-> SchemaOperations(b.types, ToSet(b.operations), k.symbols)]
    /\ \A o \in ToSet(b.operations) :
          /\ Allowed(o, k.symbols)
          /\ s.package # Missing /\ o.capability # Missing => o.capability \in s.package.capabilities
Made(s) == \E k \in Kernels, b \in Bridges : MadeOf(s, k, b)

SchemaInv == schema \in {Missing, Torn} \/ Made(schema)

\* What an interface-schema command has read.
GenInv ==
    /\ DOMAIN gen = {"pc", "interface", "package", "bridge"}
    /\ gen.pc \in {"idle", "package", "bridge", "write"}
    /\ Generating => \E k \in Kernels, t \in Target : gen.interface = Interface(k, t)
    /\ gen.pc = "write" => gen.bridge \in Bridges /\ CanBuild(gen.interface, gen.package, gen.bridge)

\* What package-check has found out.
EntryChecked(a) ==
    /\ a.sha \in Content /\ Signed(a, a.sha, check.trusted)
    /\ a.kind = "eki" => Bound(a.sha, check.schema, a.target)
Late == {"eki", "artifacts", "accepted"}
CheckInv ==
    LET list == check.package.artifacts
    IN  /\ DOMAIN check = {"pc", "trusted", "package", "schema", "bridge", "index"}
        /\ check.pc \in {"idle", "interface", "bridge", "refused"} \cup Late
        /\ check.pc \in {"interface", "bridge"} \cup Late =>
              IsManifest(check.package) /\ ManifestOK(check.package)
        /\ check.pc \in {"bridge"} \cup Late => Made(check.schema) /\ ValidSchema(check.schema)
        /\ check.pc \in Late =>
              SameBridge(check.bridge, check.schema) /\ SamePackage(check.package, check.schema)
        /\ check.pc = "artifacts" =>
              check.index \in DOMAIN list /\ \A i \in 1 .. check.index - 1 : EntryChecked(list[i])
        /\ check.pc = "accepted" => \A i \in DOMAIN list : EntryChecked(list[i])

\* While nothing changes, package-check has what is there, and refuses it only if
\* it was not made by the documented steps.
ReadInv ==
    undisturbed =>
        /\ check.pc \in {"interface", "bridge", "eki", "artifacts"} => check.package = package
        /\ check.pc \in {"bridge", "eki", "artifacts"} => check.schema = schema
        /\ check.pc = "refused" => ~Releasable

PackageInv == FilesTyped /\ SchemaInv /\ GenInv /\ CheckInv /\ ReadInv

-----------------------------------------------------------------------------
(* Entries, digests and schemas. *)

\* The first place of a list with some property.
LEMMA LeastPlace ==
    ASSUME NEW n \in Nat, NEW S \in SUBSET (1 .. n), S # {}
    PROVE  \E i \in S : \A j \in 1 .. i - 1 : j \notin S
<1>1. S \in SUBSET Nat
  OBVIOUS
<1>2. PICK i \in S : \A j \in S : <<j, i>> \notin OpToRel(<, Nat)
  BY <1>1, NatLessThanWellFounded, WFMin
<1>3. \A j \in S : ~(j < i)
  BY <1>1, <1>2 DEF OpToRel
<1>4. QED
  BY <1>1, <1>3

LEMMA ItemOf ==
    ASSUME NEW T, NEW list \in Seq(T), NEW i \in DOMAIN list
    PROVE  list[i] \in T /\ i \in 1 .. Len(list) /\ Len(list) \in Nat
  OBVIOUS

LEMMA ListIn ==
    ASSUME NEW T, NEW U, T \subseteq U, NEW list \in Seq(T)
    PROVE  list \in Seq(U)
  OBVIOUS

\* The entry of package.eki is the entry of an EKI under that path.
LEMMA EkiEntryIs ==
    ASSUME NEW p, IsManifest(p), ManifestOK(p)
    PROVE  /\ EkiEntry(p) \in ToSet(p.artifacts) /\ EkiEntry(p).target \in Target
           /\ EkiEntry(p).kind = "eki" /\ EkiEntry(p).path = p.eki /\ EkiEntry(p).sha = p.ekiSha
<1>1. PICK list \in Seq(Artifact) : list = p.artifacts
  BY DEF IsManifest
<1>2. PICK S : S = {i \in DOMAIN list : list[i].kind = "eki" /\ list[i].path = p.eki}
  OBVIOUS
<1>3. S \in SUBSET (1 .. Len(list)) /\ Len(list) \in Nat
  BY <1>2
<1>4. S # {}
  BY <1>1, <1>2 DEF ManifestOK, ToSet
<1>5. PICK i \in S : \A j \in 1 .. i - 1 : j \notin S
  BY <1>3, <1>4, LeastPlace
<1>6. PICK k : k = CHOOSE i0 \in DOMAIN list :
            /\ list[i0].kind = "eki" /\ list[i0].path = p.eki
            /\ \A j \in 1 .. (i0 - 1) : ~(list[j].kind = "eki" /\ list[j].path = p.eki)
  OBVIOUS
<1>7. k \in DOMAIN list /\ list[k].kind = "eki" /\ list[k].path = p.eki
  <2>1. \A j \in 1 .. (i - 1) : j \in DOMAIN list
    BY <1>3, <1>5
  <2>2. \A j \in 1 .. (i - 1) : ~(list[j].kind = "eki" /\ list[j].path = p.eki)
    BY <1>2, <1>5, <2>1
  <2>3. i \in DOMAIN list /\ list[i].kind = "eki" /\ list[i].path = p.eki
    BY <1>2
  <2>4. QED
    BY <1>6, <2>2, <2>3
<1>8. EkiEntry(p) = list[k]
  BY <1>1, <1>6 DEF EkiEntry, First
<1>9. list[k].target \in Target
  <2>1. list[k] \in Artifact
    BY <1>7, ItemOf
  <2>2. QED
    BY <2>1 DEF Artifact
<1>10. QED
  BY <1>1, <1>7, <1>8, <1>9 DEF ToSet, ManifestOK

\* What the interface-schema command makes.
LEMMA BuildMakes ==
    ASSUME NEW k \in Kernels, NEW t, NEW p, NEW b \in Bridges,
           CanBuild(Interface(k, t), p, b)
    PROVE  Made(BuildSchema(Interface(k, t), p, b))
<1>1. PICK s : s = BuildSchema(Interface(k, t), p, b)
  OBVIOUS
<1>2. /\ s.target = t
      /\ s.package = IF p = Missing THEN Missing ELSE SchemaPackage(p)
  BY <1>1 DEF BuildSchema, Interface
<1>3. \A o \in ToSet(b.operations) :
          /\ Allowed(o, k.symbols)
          /\ s.package # Missing /\ o.capability # Missing => o.capability \in s.package.capabilities
  BY <1>2 DEF CanBuild, SchemaPackage, Interface
<1>4. s = [package |-> s.package, target |-> s.target, profile |-> k.profile,
           kernel |-> <<s.target, k.source>>, hash |-> <<k.source, k.symbols>>,
           identity |-> s.identity, types |-> b.types, symbols |-> k.symbols,
           operations |-> SchemaOperations(b.types, ToSet(b.operations), k.symbols)]
  BY <1>1, <1>2 DEF BuildSchema, Interface
<1>5. QED
  BY <1>1, <1>3, <1>4 DEF Made, MadeOf

\* The digest of the schema is the one entry that the identity of a package
\* leaves out.
LEMMA IdentityOf ==
    ASSUME NEW p, IsManifest(p), NEW q, q = [p EXCEPT !.interfaceSha = Missing], NEW t, NEW h
    PROVE  /\ Identity(q, t, h) = Identity(p, t, h)
           /\ SchemaPackage(q) = SchemaPackage(p) /\ q # Missing
<1>1. /\ q.artifacts = p.artifacts /\ q.meta = p.meta /\ q.requested = p.requested
      /\ DOMAIN q = ManifestFields
  BY DEF IsManifest, ManifestFields
<1>2. PackageDigest(q) = PackageDigest(p)
  BY <1>1 DEF PackageDigest
<1>3. ArtifactFor(q, t) = ArtifactFor(p, t)
  BY <1>1 DEF ArtifactFor
<1>4. q # Missing
  BY <1>1 DEF Missing, ManifestFields
<1>5. QED
  BY <1>1, <1>2, <1>3, <1>4 DEF Identity, SchemaPackage


-----------------------------------------------------------------------------
(* The files. *)

\* A manifest before any digest is entered.
LEMMA ManifestTyped ==
    ASSUME NEW m \in Manifests
    PROVE  IsManifest(m)
<1>1. [path : Path, kind : STRING, target : Target, sha : {Missing}, signature : {Missing}]
         \subseteq Artifact
  BY DEF Artifact
<1>2. m.artifacts \in Seq([path : Path, kind : STRING, target : Target, sha : {Missing},
                          signature : {Missing}])
  BY PackageAssumption
<1>3. m.artifacts \in Seq(Artifact)
  BY <1>1, <1>2, ListIn
<1>4. QED
  BY <1>3, PackageAssumption DEF IsManifest

\* Digests and signatures of what the artifacts hold are entered.
LEMMA EnteredTyped ==
    ASSUME NEW m, IsManifest(m), stored \in [Path -> Content], NEW key \in Key \cup {Missing}
    PROVE  IsManifest(Entered(m, key))
<1>1. PICK list \in Seq(Artifact) : list = m.artifacts
  BY DEF IsManifest
<1>2. PICK new : new = [i \in DOMAIN m.artifacts |->
                  LET a == m.artifacts[i]
                  IN [a EXCEPT !.sha = stored[a.path],
                               !.signature = IF key = Missing THEN Missing
                                             ELSE [key |-> key, over |-> stored[a.path]]]]
  OBVIOUS
<1>3. ASSUME NEW i \in DOMAIN list PROVE new[i] \in Artifact
  <2>1. PICK a \in Artifact : a = list[i]
    BY <1>3, ItemOf
  <2>2. stored[a.path] \in Content
    BY <2>1 DEF Artifact
  <2>3. PICK sign : sign = IF key = Missing THEN Missing ELSE [key |-> key, over |-> stored[a.path]]
    OBVIOUS
  <2>4. sign \in {Missing} \cup [key : Key, over : Content]
    BY <2>2, <2>3
  <2>5. [a EXCEPT !.sha = stored[a.path], !.signature = sign] \in Artifact
    BY <2>2, <2>4 DEF Artifact
  <2>6. QED
    BY <1>1, <1>2, <1>3, <2>1, <2>3, <2>5
<1>4. DOMAIN new = 1 .. Len(list) /\ Len(list) \in Nat
  <2>1. DOMAIN new = DOMAIN list
    BY <1>1, <1>2
  <2>2. QED
    BY <2>1
<1>5. new \in Seq(Artifact)
  <2>1. new = [i \in 1 .. Len(list) |-> new[i]]
    BY <1>1, <1>2, <1>4
  <2>2. \A i \in 1 .. Len(list) : new[i] \in Artifact
    BY <1>3
  <2>3. new \in [1 .. Len(list) -> Artifact]
    BY <2>1, <2>2
  <2>4. QED
    BY <1>4, <2>3
<1>6. Entered(m, key) = [m EXCEPT !.ekiSha = stored[m.eki], !.artifacts = new]
  BY <1>2 DEF Entered
<1>7. QED
  BY <1>5, <1>6 DEF IsManifest, ManifestFields

\* Any of the other digests is entered.
LEMMA DigestTyped ==
    ASSUME NEW p, IsManifest(p), NEW one, NEW two
    PROVE  /\ IsManifest([p EXCEPT !.bridgeSha = one])
           /\ IsManifest([p EXCEPT !.interfaceSha = two])
           /\ IsManifest([p EXCEPT !.bridgeSha = one, !.interfaceSha = two])
  BY DEF IsManifest, ManifestFields

\* The artifacts as they are first built.
LEMMA BuiltTyped ==
    ASSUME NEW m \in Manifests, NEW path \in Path, NEW k \in Kernels, NEW code \in Codes,
           \E a \in ToSet(m.artifacts) : a.path = path /\ a.kind = "eki"
    PROVE  Image(k, First(m.artifacts, LAMBDA a : a.path = path).target, code) \in Content
<1>1. PICK list \in Seq(Artifact) : list = m.artifacts
  BY ManifestTyped DEF IsManifest
<1>2. PICK S : S = {i \in DOMAIN list : list[i].path = path}
  OBVIOUS
<1>3. S \in SUBSET (1 .. Len(list)) /\ Len(list) \in Nat
  BY <1>2
<1>4. S # {}
  BY <1>1, <1>2 DEF ToSet
<1>5. PICK i \in S : \A j \in 1 .. i - 1 : j \notin S
  BY <1>3, <1>4, LeastPlace
<1>6. PICK k0 : k0 = CHOOSE i0 \in DOMAIN list :
            /\ list[i0].path = path
            /\ \A j \in 1 .. (i0 - 1) : ~(list[j].path = path)
  OBVIOUS
<1>7. k0 \in DOMAIN list
  <2>1. \A j \in 1 .. (i - 1) : j \in DOMAIN list
    BY <1>3, <1>5
  <2>2. \A j \in 1 .. (i - 1) : ~(list[j].path = path)
    BY <1>2, <1>5, <2>1
  <2>3. i \in DOMAIN list /\ list[i].path = path
    BY <1>2
  <2>4. QED
    BY <1>6, <2>2, <2>3
<1>8. First(m.artifacts, LAMBDA a : a.path = path) = list[k0]
  BY <1>1, <1>6 DEF First
<1>9. list[k0].target \in Target
  <2>1. list[k0] \in Artifact
    BY <1>7, ItemOf
  <2>2. QED
    BY <2>1 DEF Artifact
<1>10. PICK t \in Target : t = First(m.artifacts, LAMBDA a : a.path = path).target
  BY <1>8, <1>9
<1>11. Image(k, t, code) \in Content
  BY DEF Content
<1>12. QED
  BY <1>10, <1>11

LEMMA FilesInit == PackageInit => FilesTyped /\ SchemaInv
<1> SUFFICES ASSUME PackageInit PROVE FilesTyped /\ SchemaInv
  OBVIOUS
<1>1. PICK m \in Manifests, key \in Key, code \in Codes :
         LET entered == [Entered(m, key) EXCEPT !.bridgeSha = bridge]
             interface == Interface(kernel, EkiEntry(m).target)
         IN /\ stored = [path \in Path |->
                    IF \E a \in ToSet(m.artifacts) : a.path = path /\ a.kind = "eki"
                    THEN Image(kernel, First(m.artifacts, LAMBDA a : a.path = path).target, code)
                    ELSE Blob(code)]
            /\ schema = IF BridgeOK(bridge) /\ CanBuild(interface, entered, bridge)
                        THEN BuildSchema(interface, entered, bridge) ELSE Missing
            /\ package = [entered EXCEPT !.interfaceSha = schema]
  BY DEF PackageInit
<1>2. kernel \in Kernels /\ bridge \in Bridges
  BY DEF PackageInit
<1>3. stored \in [Path -> Content]
  <2>1. \A path \in Path :
           stored[path] = IF \E a \in ToSet(m.artifacts) : a.path = path /\ a.kind = "eki"
                          THEN Image(kernel, First(m.artifacts, LAMBDA a : a.path = path).target, code)
                          ELSE Blob(code)
    BY <1>1
  <2>2. Blob(code) \in Content
    BY DEF Content
  <2>3. \A path \in Path : stored[path] \in Content
    BY <1>2, <2>1, <2>2, BuiltTyped
  <2>4. QED
    BY <1>1, <2>3
<1>4. PICK entered : entered = [Entered(m, key) EXCEPT !.bridgeSha = bridge]
  OBVIOUS
<1>5. IsManifest(entered)
  BY <1>3, <1>4, ManifestTyped, EnteredTyped, DigestTyped
<1>6. IsManifest(package)
  BY <1>1, <1>4, <1>5, DigestTyped
<1>7. schema = Missing \/ (/\ CanBuild(Interface(kernel, EkiEntry(m).target), entered, bridge)
                           /\ schema = BuildSchema(Interface(kernel, EkiEntry(m).target), entered, bridge))
  BY <1>1, <1>4
<1>8. SchemaInv
  BY <1>2, <1>7, BuildMakes DEF SchemaInv
<1>9. QED
  BY <1>2, <1>3, <1>6, <1>8 DEF FilesTyped


\* Whatever the developer does, the files keep their form.
LEMMA FilesStep == FilesTyped /\ [PackageNext]_packageVars => FilesTyped'
<1> SUFFICES ASSUME FilesTyped, [PackageNext]_packageVars PROVE FilesTyped'
  OBVIOUS
<1>1. CASE UpdateKernel \/ EditBridge
  BY <1>1 DEF UpdateKernel, EditBridge, FilesTyped
<1>2. CASE Rebuild
  <2>1. PICK i \in DOMAIN package.artifacts, code \in Codes :
           LET a == package.artifacts[i]
           IN  stored' = [stored EXCEPT ![a.path] =
                           IF a.kind = "eki" THEN Image(kernel, a.target, code) ELSE Blob(code)]
    BY <1>2 DEF Rebuild
  <2>2. PICK a \in Artifact : a = package.artifacts[i]
    BY <2>1, ItemOf DEF FilesTyped, IsManifest
  <2>3. PICK t \in Target : t = a.target
    BY <2>2 DEF Artifact
  <2>4. PICK new \in Content : new = IF a.kind = "eki" THEN Image(kernel, a.target, code) ELSE Blob(code)
    BY <2>3 DEF Content, FilesTyped
  <2>5. stored' \in [Path -> Content]
    BY <2>1, <2>2, <2>4 DEF FilesTyped
  <2>6. QED
    BY <1>2, <2>5 DEF Rebuild, FilesTyped
<1>3. CASE EnterArtifacts
  BY <1>3, EnteredTyped DEF EnterArtifacts, FilesTyped
<1>4. CASE EnterBridge \/ EnterInterface
  <2>1. /\ IsManifest([package EXCEPT !.bridgeSha = bridge])
        /\ IsManifest([package EXCEPT !.interfaceSha = schema])
    BY DigestTyped DEF FilesTyped
  <2>2. IsManifest(package') /\ UNCHANGED <<kernel, bridge, stored>>
    BY <1>4, <2>1 DEF EnterBridge, EnterInterface
  <2>3. QED
    BY <2>2 DEF FilesTyped
<1>5. CASE EditManifest
  BY <1>5, ManifestTyped, DigestTyped DEF EditManifest, FilesTyped
<1>6. CASE UNCHANGED <<kernel, package, bridge, stored>>
  BY <1>6 DEF FilesTyped
<1>7. QED
  BY <1>1, <1>2, <1>3, <1>4, <1>5, <1>6 DEF PackageNext, Edit, Generate, Check, packageVars,
     files, GenerateInterface, GeneratePackage, GenerateBridge, GenerateWrite,
     GenerateKilled, CheckPackage, CheckInterface, CheckBridge, CheckEki, CheckArtifact, Reading

-----------------------------------------------------------------------------
(* The interface-schema command. *)

\* What the command writes was allowed by the bridge and the manifest it has read.
LEMMA GenStep == FilesTyped /\ GenInv /\ [PackageNext]_packageVars => GenInv'
<1> SUFFICES ASSUME FilesTyped, GenInv, [PackageNext]_packageVars PROVE GenInv'
  OBVIOUS
<1> USE DEF GenInv, Generating, IdleGen
<1>1. ASSUME NEW t \in Target, NEW bound \in BOOLEAN, GenerateInterface(t, bound) PROVE GenInv'
  BY <1>1 DEF GenerateInterface, FilesTyped
<1>2. CASE GeneratePackage
  BY <1>2 DEF GeneratePackage
<1>3. CASE GenerateBridge
  <2>1. CASE gen' = IdleGen
    BY <2>1
  <2>2. CASE /\ CanBuild(gen.interface, gen.package, bridge)
             /\ gen' = [gen EXCEPT !.pc = "write", !.bridge = bridge]
    <3>1. /\ gen'.pc = "write" /\ gen'.bridge = bridge /\ gen'.package = gen.package
          /\ gen'.interface = gen.interface /\ DOMAIN gen' = DOMAIN gen
      BY <2>2
    <3>2. gen.pc = "bridge"
      BY <1>3 DEF GenerateBridge
    <3>3. QED
      BY <2>2, <3>1, <3>2 DEF FilesTyped
  <2>3. QED
    BY <1>3, <2>1, <2>2 DEF GenerateBridge
<1>4. CASE GenerateWrite \/ GenerateKilled
  BY <1>4 DEF GenerateWrite, GenerateKilled
<1>5. CASE UNCHANGED gen
  BY <1>5
<1>6. QED
  BY <1>1, <1>2, <1>3, <1>4, <1>5 DEF PackageNext, Edit, Develop, Generate, Check, packageVars,
     CheckPackage, CheckInterface, CheckBridge, CheckEki, CheckArtifact, Reading,
     UpdateKernel, Rebuild, EditBridge, EnterArtifacts, EnterBridge, EnterInterface, EditManifest

\* The schema is whole, cut short or missing, and a whole one was made of one
\* kernel's interface and one bridge.
LEMMA SchemaStep == SchemaInv /\ GenInv /\ [PackageNext]_packageVars => SchemaInv'
<1> SUFFICES ASSUME SchemaInv, GenInv, [PackageNext]_packageVars PROVE SchemaInv'
  OBVIOUS
<1>1. CASE GenerateBridge
  BY <1>1 DEF GenerateBridge, SchemaInv
<1>2. CASE GenerateWrite
  <2>1. /\ schema' = BuildSchema(gen.interface, gen.package, gen.bridge)
        /\ gen.bridge \in Bridges /\ CanBuild(gen.interface, gen.package, gen.bridge)
        /\ \E k \in Kernels, t \in Target : gen.interface = Interface(k, t)
    BY <1>2 DEF GenerateWrite, GenInv, Generating
  <2>2. PICK k \in Kernels, t \in Target : gen.interface = Interface(k, t)
    BY <2>1
  <2>3. Made(BuildSchema(Interface(k, t), gen.package, gen.bridge))
    BY <2>1, <2>2, BuildMakes
  <2>4. PICK s : s = BuildSchema(Interface(k, t), gen.package, gen.bridge)
    OBVIOUS
  <2>5. Made(s) /\ schema' = s
    BY <2>1, <2>2, <2>3, <2>4
  <2>6. QED
    BY <2>5 DEF SchemaInv, Made, MadeOf
<1>3. CASE UNCHANGED schema
  BY <1>3 DEF SchemaInv
<1>4. QED
  BY <1>1, <1>2, <1>3 DEF PackageNext, Edit, Generate, Check, packageVars, files,
     GenerateInterface, GeneratePackage, GenerateKilled,
     CheckPackage, CheckInterface, CheckBridge, CheckEki, CheckArtifact, Reading,
     UpdateKernel, Rebuild, EditBridge, EnterArtifacts, EnterBridge, EnterInterface, EditManifest

-----------------------------------------------------------------------------
(* package-check. *)

\* What the check has found out stays true of what it has read.
LEMMA CheckStep ==
    FilesTyped /\ SchemaInv /\ CheckInv /\ [PackageNext]_packageVars => CheckInv'
<1> SUFFICES ASSUME FilesTyped, SchemaInv, CheckInv, [PackageNext]_packageVars PROVE CheckInv'
  OBVIOUS
<1>1. ASSUME NEW trusted \in Key \cup {Missing}, CheckPackage(trusted) PROVE CheckInv'
  BY <1>1 DEF CheckPackage, CheckInv, FilesTyped, IdleCheck, Late
<1>2. CASE CheckInterface
  <2>1. check.pc = "interface"
    BY <1>2 DEF CheckInterface
  <2>2. CASE check' = [check EXCEPT !.pc = "refused"]
    BY <2>2 DEF CheckInv, Late
  <2>3. CASE /\ schema \notin {Missing, Torn} /\ ValidSchema(schema)
             /\ check' = [check EXCEPT !.pc = "bridge", !.schema = schema]
    <3>1. PICK s : s = schema /\ Made(s) /\ ValidSchema(s)
      BY <2>3 DEF SchemaInv
    <3>2. /\ check'.pc = "bridge" /\ check'.schema = s /\ check'.package = check.package
          /\ DOMAIN check' = DOMAIN check
      BY <2>3, <3>1 DEF CheckInv
    <3>3. IsManifest(check.package) /\ ManifestOK(check.package)
      BY <2>1 DEF CheckInv
    <3>4. Made(check'.schema) /\ ValidSchema(check'.schema)
      BY <3>1, <3>2
    <3>5. IsManifest(check'.package) /\ ManifestOK(check'.package)
      BY <3>2, <3>3
    <3>6. QED
      BY <3>2, <3>4, <3>5 DEF CheckInv, Late
  <2>4. QED
    BY <1>2, <2>2, <2>3 DEF CheckInterface, Proceed
<1>3. CASE CheckBridge
  <2>1. check.pc = "bridge"
    BY <1>3 DEF CheckBridge
  <2>2. CASE check' = [check EXCEPT !.pc = "refused"]
    BY <2>2 DEF CheckInv, Late
  <2>3. CASE /\ SameBridge(bridge, check.schema) /\ SamePackage(check.package, check.schema)
             /\ check' = [check EXCEPT !.pc = "eki", !.bridge = bridge]
    BY <2>1, <2>3 DEF CheckInv, Late
  <2>4. QED
    BY <1>3, <2>2, <2>3 DEF CheckBridge, Proceed
<1>4. CASE CheckEki
  <2>1. check.pc = "eki"
    BY <1>4 DEF CheckEki
  <2>2. CASE check' = [check EXCEPT !.pc = "refused"]
    BY <2>2 DEF CheckInv, Late
  <2>3. CASE check' = [check EXCEPT !.pc = "artifacts", !.index = 1]
    <3>1. IsManifest(check.package) /\ ManifestOK(check.package)
      BY <2>1 DEF CheckInv, Late
    <3>2. 1 \in DOMAIN check.package.artifacts
      <4>1. PICK list \in Seq(Artifact) : list = check.package.artifacts
        BY <3>1 DEF IsManifest
      <4>2. DOMAIN list # {}
        BY <3>1, <4>1 DEF ManifestOK, ToSet
      <4>3. QED
        BY <4>1, <4>2
    <3>3. /\ check'.pc = "artifacts" /\ check'.index = 1 /\ check'.package = check.package
          /\ check'.schema = check.schema /\ check'.bridge = check.bridge
          /\ DOMAIN check' = DOMAIN check
      BY <2>3 DEF CheckInv
    <3>4. QED
      BY <2>1, <3>1, <3>2, <3>3 DEF CheckInv, Late
  <2>4. QED
    BY <1>4, <2>2, <2>3 DEF CheckEki, Proceed
<1>5. CASE CheckArtifact
  <2>1. check.pc = "artifacts"
    BY <1>5 DEF CheckArtifact
  <2>2. CASE check' = [check EXCEPT !.pc = "refused"]
    BY <2>2 DEF CheckInv, Late
  <2>3. PICK list, n, a : list = check.package.artifacts /\ n = check.index /\ a = list[n]
    OBVIOUS
  <2>4. /\ list \in Seq(Artifact) /\ n \in 1 .. Len(list) /\ Len(list) \in Nat
        /\ a \in Artifact
        /\ \A i \in 1 .. n - 1 : EntryChecked(list[i])
    <3>1. list \in Seq(Artifact) /\ n \in DOMAIN list
      BY <2>1, <2>3 DEF CheckInv, IsManifest, Late
    <3>2. QED
      BY <2>1, <2>3, <3>1, ItemOf DEF CheckInv
  <2>5. CASE /\ stored[a.path] = a.sha /\ Signed(a, stored[a.path], check.trusted)
             /\ a.kind = "eki" => Bound(stored[a.path], check.schema, a.target)
             /\ check' = IF n = Len(list) THEN [check EXCEPT !.pc = "accepted"]
                         ELSE [check EXCEPT !.index = n + 1]
    <3>1. stored[a.path] \in Content
      BY <2>4 DEF FilesTyped, Artifact
    <3>2. EntryChecked(a)
      BY <2>5, <3>1 DEF EntryChecked
    <3>3. \A i \in 1 .. n : EntryChecked(list[i])
      BY <2>3, <2>4, <3>2
    <3>4. /\ check'.package = check.package /\ check'.trusted = check.trusted
          /\ check'.schema = check.schema /\ check'.bridge = check.bridge
          /\ DOMAIN check' = DOMAIN check
      BY <2>5 DEF CheckInv
    <3>5. \A i \in 1 .. n : EntryChecked(list[i])'
      BY <3>3, <3>4 DEF EntryChecked
    <3>6. /\ Made(check.schema) /\ ValidSchema(check.schema)
          /\ SameBridge(check.bridge, check.schema) /\ SamePackage(check.package, check.schema)
          /\ IsManifest(check.package) /\ ManifestOK(check.package)
      BY <2>1 DEF CheckInv, Late
    <3>7. CASE n = Len(list)
      <4>1. check'.pc = "accepted"
        BY <2>5, <3>7 DEF CheckInv
      <4>2. \A i \in DOMAIN list : EntryChecked(list[i])'
        BY <2>4, <3>5, <3>7
      <4>3. QED
        BY <2>3, <3>4, <3>6, <4>1, <4>2 DEF CheckInv, Late
    <3>8. CASE n # Len(list)
      <4>1. check'.pc = "artifacts" /\ check'.index = n + 1
        BY <2>1, <2>5, <3>8 DEF CheckInv
      <4>2. n + 1 \in DOMAIN list /\ (n + 1) - 1 = n
        BY <2>4, <3>8
      <4>3. QED
        BY <2>3, <3>4, <3>5, <3>6, <4>1, <4>2 DEF CheckInv, Late
    <3>9. QED
      BY <3>7, <3>8
  <2>6. QED
    BY <1>5, <2>2, <2>3, <2>5 DEF CheckArtifact, Proceed
<1>6. CASE UNCHANGED check
  BY <1>6 DEF CheckInv, EntryChecked
<1>7. QED
  BY <1>1, <1>2, <1>3, <1>4, <1>5, <1>6 DEF PackageNext, Edit, Develop, Generate, Check,
     packageVars, GenerateInterface, GeneratePackage, GenerateBridge, GenerateWrite,
     GenerateKilled, UpdateKernel, Rebuild, EditBridge, EnterArtifacts, EnterBridge,
     EnterInterface, EditManifest


-----------------------------------------------------------------------------
(* A package made by the documented steps. *)

\* What the schema of such a package is made of.
LEMMA ReleasableSchema ==
    ASSUME FilesTyped, Releasable
    PROVE  \E k \in Kernels :
              /\ CanBuild(Interface(k, EkiEntry(package).target), package, bridge)
              /\ schema \notin {Missing, Torn}
              /\ schema.target = EkiEntry(package).target /\ schema.profile = k.profile
              /\ schema.hash = <<k.source, k.symbols>> /\ schema.symbols = k.symbols
              /\ schema.package = SchemaPackage(package)
              /\ schema.identity = Identity(package, schema.target, schema.hash)
              /\ schema.types = bridge.types
              /\ schema.operations = SchemaOperations(bridge.types, ToSet(bridge.operations), k.symbols)
              /\ \A a \in ToSet(package.artifacts) :
                   /\ a.sha = stored[a.path]
                   /\ a.kind = "eki" => \E code \in Codes : a.sha = Image(k, a.target, code)
                   /\ \E key \in Key : a.signature = [key |-> key, over |-> a.sha]
                                     /\ check.trusted \in {key, Missing}
<1>1. PICK q : q = [package EXCEPT !.interfaceSha = Missing]
  OBVIOUS
<1>2. PICK k \in Kernels :
         /\ CanBuild(Interface(k, EkiEntry(package).target), package, bridge)
         /\ schema = BuildSchema(Interface(k, EkiEntry(package).target), q, bridge)
         /\ \A a \in ToSet(package.artifacts) :
              /\ a.sha = stored[a.path]
              /\ a.kind = "eki" => \E code \in Codes : a.sha = Image(k, a.target, code)
              /\ \E key \in Key : a.signature = [key |-> key, over |-> a.sha]
                                /\ check.trusted \in {key, Missing}
  BY <1>1 DEF Releasable
<1>3. PICK t : t = EkiEntry(package).target
  OBVIOUS
<1>4. \A h : Identity(q, t, h) = Identity(package, t, h)
  BY <1>1, IdentityOf DEF FilesTyped
<1>5. SchemaPackage(q) = SchemaPackage(package) /\ q # Missing
  BY <1>1, IdentityOf DEF FilesTyped
<1>6. /\ schema.target = t /\ schema.profile = k.profile
      /\ schema.hash = <<k.source, k.symbols>> /\ schema.symbols = k.symbols
      /\ schema.package = SchemaPackage(q)
      /\ schema.identity = Identity(q, t, <<k.source, k.symbols>>)
      /\ schema.types = bridge.types
      /\ schema.operations = SchemaOperations(bridge.types, ToSet(bridge.operations), k.symbols)
  BY <1>2, <1>3, <1>5 DEF BuildSchema, Interface
<1>7. schema \notin {Missing, Torn}
  <2>1. "package" \in DOMAIN schema
    BY <1>2 DEF BuildSchema
  <2>2. QED
    BY <2>1 DEF Missing, Torn
<1>8. QED
  BY <1>2, <1>3, <1>4, <1>5, <1>6, <1>7

\* The operations of a schema are those it was generated from.
LEMMA OperationsOf ==
    ASSUME NEW s, NEW types, NEW operations, NEW symbols,
           s.operations = SchemaOperations(types, operations, symbols)
    PROVE  /\ Operations(s) = operations
           /\ \A entry \in s.operations : entry.id = OperationId(types, entry.operation)
<1>1. \A o \in operations : \E entry \in s.operations : entry.operation = o
  <2> SUFFICES ASSUME NEW o \in operations
               PROVE  \E entry \in s.operations : entry.operation = o
    OBVIOUS
  <2>1. PICK entry : entry = [operation |-> o, id |-> OperationId(types, o), symbol |-> symbols[o.api].abi]
    OBVIOUS
  <2>2. entry \in s.operations
    BY <2>1 DEF SchemaOperations
  <2>3. QED
    BY <2>1, <2>2
<1>2. \A entry \in s.operations :
         entry.operation \in operations /\ entry.id = OperationId(types, entry.operation)
  BY DEF SchemaOperations
<1>3. QED
  BY <1>1, <1>2 DEF Operations

\* The check of the schema by itself finds nothing.
LEMMA SchemaPasses ==
    ASSUME FilesTyped, Releasable
    PROVE  schema \notin {Missing, Torn} /\ ValidSchema(schema)
<1>1. PICK k \in Kernels :
         /\ CanBuild(Interface(k, EkiEntry(package).target), package, bridge)
         /\ schema \notin {Missing, Torn}
         /\ schema.symbols = k.symbols /\ schema.types = bridge.types
         /\ schema.operations = SchemaOperations(bridge.types, ToSet(bridge.operations), k.symbols)
  BY ReleasableSchema
<1>2. \A entry \in schema.operations :
         \E o \in ToSet(bridge.operations) :
            entry = [operation |-> o, id |-> OperationId(bridge.types, o), symbol |-> k.symbols[o.api].abi]
  BY <1>1 DEF SchemaOperations
<1>3. Operations(schema) = ToSet(bridge.operations)
  BY <1>1, OperationsOf
<1>4. \A entry \in schema.operations :
         /\ entry.id = OperationId(schema.types, entry.operation)
         /\ Allowed(entry.operation, schema.symbols)
         /\ entry.symbol = schema.symbols[entry.operation.api].abi
  BY <1>1, <1>2 DEF CanBuild, Interface
<1>5. /\ ValidTypes(schema.types) /\ ValidOperations(schema.types, Operations(schema))
      /\ NamesDiffer(schema.types, Operations(schema))
  BY <1>1, <1>3 DEF Releasable, BridgeOK
<1>6. QED
  BY <1>1, <1>4, <1>5 DEF ValidSchema

\* So do the comparisons with the bridge and the manifest.
LEMMA BridgePasses ==
    ASSUME FilesTyped, Releasable
    PROVE  /\ bridge = package.bridgeSha /\ BridgeOK(bridge)
           /\ SameBridge(bridge, schema) /\ SamePackage(package, schema)
<1>1. PICK k \in Kernels :
         /\ CanBuild(Interface(k, EkiEntry(package).target), package, bridge)
         /\ schema.target = EkiEntry(package).target /\ schema.profile = k.profile
         /\ schema.package = SchemaPackage(package)
         /\ schema.identity = Identity(package, schema.target, schema.hash)
         /\ schema.types = bridge.types
         /\ schema.operations = SchemaOperations(bridge.types, ToSet(bridge.operations), k.symbols)
  BY ReleasableSchema
<1>2. SameBridge(bridge, schema)
  BY <1>1, OperationsOf DEF SameBridge
<1>3. package # Missing
  BY DEF FilesTyped, IsManifest, ManifestFields, Missing
<1>4. schema.target \in package.targets /\ package.profile = k.profile
  BY <1>1, <1>3 DEF CanBuild, Interface
<1>5. SamePackage(package, schema)
  BY <1>1, <1>4 DEF SamePackage
<1>6. QED
  BY <1>2, <1>5 DEF Releasable

\* And those with each artifact.
LEMMA ArtifactPasses ==
    ASSUME FilesTyped, Releasable, NEW a \in ToSet(package.artifacts)
    PROVE  /\ stored[a.path] = a.sha /\ Signed(a, stored[a.path], check.trusted)
           /\ a.kind = "eki" => Bound(stored[a.path], schema, a.target)
<1>1. PICK k \in Kernels :
         /\ schema.hash = <<k.source, k.symbols>>
         /\ a.sha = stored[a.path]
         /\ a.kind = "eki" => \E code \in Codes : a.sha = Image(k, a.target, code)
         /\ \E key \in Key : a.signature = [key |-> key, over |-> a.sha]
                           /\ check.trusted \in {key, Missing}
  BY ReleasableSchema
<1>2. Signed(a, stored[a.path], check.trusted)
  <2>1. PICK key \in Key : a.signature = [key |-> key, over |-> a.sha] /\ check.trusted \in {key, Missing}
    BY <1>1
  <2>2. a.signature # Missing /\ a.signature.key = key /\ a.signature.over = a.sha
    BY <2>1 DEF Missing
  <2>3. QED
    BY <1>1, <2>1, <2>2 DEF Signed
<1>3. ASSUME a.kind = "eki" PROVE Bound(stored[a.path], schema, a.target)
  <2>1. PICK code \in Codes : a.sha = Image(k, a.target, code)
    BY <1>1, <1>3
  <2>2. a.sha.arch = a.target /\ a.sha.profile = <<k.source, k.symbols>>
    BY <2>1 DEF Image, Interface
  <2>3. QED
    BY <1>1, <2>2 DEF Bound
<1>4. QED
  BY <1>1, <1>2, <1>3

LEMMA EkiPasses ==
    ASSUME FilesTyped, Releasable
    PROVE  /\ stored[package.eki] = package.ekiSha
           /\ EkiEntry(package).target = schema.target
           /\ Bound(stored[package.eki], schema, schema.target)
<1>1. EkiEntry(package).target = schema.target
  BY ReleasableSchema
<1>2. /\ EkiEntry(package) \in ToSet(package.artifacts)
      /\ EkiEntry(package).kind = "eki" /\ EkiEntry(package).path = package.eki
      /\ EkiEntry(package).sha = package.ekiSha
  BY EkiEntryIs DEF FilesTyped, Releasable
<1>3. PICK a \in ToSet(package.artifacts) : a = EkiEntry(package)
  BY <1>2
<1>4. QED
  BY <1>1, <1>2, <1>3, ArtifactPasses

\* As long as nothing changes, the check does not refuse such a package.
LEMMA ReadStep ==
    FilesTyped /\ CheckInv /\ ReadInv /\ [PackageNext]_packageVars => ReadInv'
<1> SUFFICES ASSUME FilesTyped, CheckInv, ReadInv, [PackageNext]_packageVars, undisturbed'
             PROVE  /\ check'.pc \in {"interface", "bridge", "eki", "artifacts"} => check'.package = package'
                    /\ check'.pc \in {"bridge", "eki", "artifacts"} => check'.schema = schema'
                    /\ check'.pc = "refused" => ~Releasable'
  BY DEF ReadInv
<1>1. ASSUME NEW trusted \in Key \cup {Missing}, CheckPackage(trusted)
      PROVE  /\ check'.pc \in {"interface", "refused"} /\ check'.package = package'
             /\ check'.pc = "refused" => ~Releasable'
  BY <1>1 DEF CheckPackage, Reading, files, IdleCheck, Releasable
<1>2. ASSUME CheckInterface \/ CheckBridge \/ CheckEki \/ CheckArtifact
      PROVE  /\ check'.pc # "refused" => check'.package = package' /\ check'.schema = schema'
             /\ check'.pc = "refused" => ~Releasable'
  <2>1. undisturbed /\ UNCHANGED files
    BY <1>2 DEF CheckInterface, CheckBridge, CheckEki, CheckArtifact, Reading
  <2>2. UNCHANGED <<kernel, package, bridge, schema, stored>>
    BY <2>1 DEF files
  <2>3. check.package = package
    BY <1>2, <2>1 DEF ReadInv, CheckInterface, CheckBridge, CheckEki, CheckArtifact
  <2>4. DOMAIN check = {"pc", "trusted", "package", "schema", "bridge", "index"}
    BY DEF CheckInv
  <2>5. CASE CheckInterface
    <3>1. /\ check'.trusted = check.trusted
          /\ check'.pc = "refused" \/ (check'.package = check.package /\ check'.schema = schema)
      BY <2>4, <2>5 DEF CheckInterface, Proceed
    <3>2. Releasable => check'.pc # "refused"
      <4> SUFFICES ASSUME Releasable PROVE check'.pc # "refused"
        OBVIOUS
      <4>1. schema \notin {Missing, Torn} /\ schema = check.package.interfaceSha /\ ValidSchema(schema)
        BY <2>3, SchemaPasses DEF Releasable
      <4>2. QED
        BY <2>4, <2>5, <4>1 DEF CheckInterface, Proceed
    <3>3. Releasable' = Releasable
      BY <2>2, <3>1 DEF Releasable
    <3>4. QED
      BY <2>2, <2>3, <3>1, <3>2, <3>3
  <2>6. CASE CheckBridge
    <3>1. check.schema = schema
      BY <2>1, <2>6 DEF ReadInv, CheckBridge
    <3>2. /\ check'.trusted = check.trusted
          /\ check'.package = check.package /\ check'.schema = check.schema
      BY <2>4, <2>6 DEF CheckBridge, Proceed
    <3>3. Releasable => check'.pc # "refused"
      BY <2>3, <2>4, <2>6, <3>1, BridgePasses DEF CheckBridge, Proceed
    <3>4. Releasable' = Releasable
      BY <2>2, <3>2 DEF Releasable
    <3>5. QED
      BY <2>2, <2>3, <3>1, <3>2, <3>3, <3>4
  <2>7. CASE CheckEki
    <3>1. check.schema = schema
      BY <2>1, <2>7 DEF ReadInv, CheckEki
    <3>2. /\ check'.trusted = check.trusted
          /\ check'.package = check.package /\ check'.schema = check.schema
      BY <2>4, <2>7 DEF CheckEki, Proceed
    <3>3. Releasable => check'.pc # "refused"
      BY <2>3, <2>4, <2>7, <3>1, EkiPasses DEF CheckEki, Proceed
    <3>4. Releasable' = Releasable
      BY <2>2, <3>2 DEF Releasable
    <3>5. QED
      BY <2>2, <2>3, <3>1, <3>2, <3>3, <3>4
  <2>8. CASE CheckArtifact
    <3>1. check.schema = schema
      BY <2>1, <2>8 DEF ReadInv, CheckArtifact
    <3>2. /\ check'.trusted = check.trusted
          /\ check'.package = check.package /\ check'.schema = check.schema
      BY <2>4, <2>8 DEF CheckArtifact, Proceed
    <3>3. PICK a : a = check.package.artifacts[check.index]
      OBVIOUS
    <3>4. a \in ToSet(package.artifacts)
      BY <2>3, <2>8, <3>3 DEF CheckInv, CheckArtifact, ToSet
    <3>5. check.pc = "artifacts"
      BY <2>8 DEF CheckArtifact
    <3>6. Releasable => check'.pc # "refused"
      <4> SUFFICES ASSUME Releasable PROVE check'.pc # "refused"
        OBVIOUS
      <4>1. /\ stored[a.path] = a.sha /\ Signed(a, stored[a.path], check.trusted)
            /\ a.kind = "eki" => Bound(stored[a.path], check.schema, a.target)
        BY <3>1, <3>4, ArtifactPasses
      <4>2. check' = IF check.index = Len(check.package.artifacts) THEN [check EXCEPT !.pc = "accepted"]
                     ELSE [check EXCEPT !.index = check.index + 1]
        BY <2>8, <3>3, <4>1 DEF CheckArtifact, Proceed
      <4>3. QED
        BY <2>4, <3>5, <4>2
    <3>7. Releasable' = Releasable
      BY <2>2, <3>2 DEF Releasable
    <3>8. QED
      BY <2>2, <2>3, <3>1, <3>2, <3>6, <3>7
  <2>9. QED
    BY <1>2, <2>5, <2>6, <2>7, <2>8
<1>3. CASE UNCHANGED <<files, check, undisturbed>>
  BY <1>3 DEF files, ReadInv, Releasable
<1>4. CASE Check
  <2>1. CASE \E trusted \in Key \cup {Missing} : CheckPackage(trusted)
    BY <1>1, <2>1
  <2>2. CASE CheckInterface \/ CheckBridge \/ CheckEki \/ CheckArtifact
    BY <1>2, <2>2
  <2>3. QED
    BY <1>4, <2>1, <2>2 DEF Check
<1>5. CASE Generate \/ Edit \/ UNCHANGED packageVars
  <2>1. UNCHANGED <<files, check, undisturbed>>
    BY <1>5 DEF Edit, Develop, Generate, packageVars, files,
     GenerateInterface, GeneratePackage, GenerateBridge, GenerateWrite, GenerateKilled,
     UpdateKernel, Rebuild, EditBridge, EnterArtifacts, EnterBridge, EnterInterface, EditManifest
  <2>2. QED
    BY <1>3, <2>1
<1>6. QED
  BY <1>4, <1>5 DEF PackageNext


-----------------------------------------------------------------------------
(* The theorems. *)

LEMMA PackageInvInit == PackageInit => PackageInv
<1> SUFFICES ASSUME PackageInit PROVE PackageInv
  OBVIOUS
<1>1. gen = IdleGen /\ check = IdleCheck
  BY DEF PackageInit
<1>2. GenInv /\ CheckInv /\ ReadInv
  BY <1>1 DEF GenInv, CheckInv, ReadInv, IdleGen, IdleCheck, Generating, Late
<1>3. QED
  BY <1>2, FilesInit DEF PackageInv

LEMMA PackageInvStep == PackageInv /\ [PackageNext]_packageVars => PackageInv'
  BY FilesStep, SchemaStep, GenStep, CheckStep, ReadStep DEF PackageInv

\* Whatever is edited, entered, rebuilt and generated meanwhile, the check keeps
\* what it has found out about what it has read.
THEOREM PackageInductive == PackageSpec => []PackageInv
<1>1. QED
  BY PackageInvInit, PackageInvStep, PTL DEF PackageSpec

\* check_language_package_with_trust: an accepted package is of one piece.  Its
\* schema is what interface-schema makes of its manifest, its bridge and the
\* interface of one kernel, its images are built against that interface, and the
\* trusted key has signed all of it.
THEOREM AcceptedIsConsistentHolds == PackageSpec => []AcceptedIsConsistent
<1>1. PackageInv => AcceptedIsConsistent
  <2> SUFFICES ASSUME PackageInv, check.pc = "accepted",
                      NEW p, p = check.package, NEW s, s = check.schema
               PROVE  /\ \E k \in Kernels :
                            /\ CanBuild(Interface(k, s.target), p, check.bridge)
                            /\ s = BuildSchema(Interface(k, s.target), p, check.bridge)
                      /\ \A a \in ToSet(p.artifacts) :
                            /\ a.kind = "eki" => \E k \in Kernels, code \in Codes :
                                  a.sha = Image(k, a.target, code) /\ Interface(k, s.target).hash = s.hash
                            /\ check.trusted # Missing =>
                                  a.signature = [key |-> check.trusted, over |-> a.sha]
    BY DEF AcceptedIsConsistent
  <2>1. /\ IsManifest(p) /\ Made(s) /\ ValidSchema(s)
        /\ SameBridge(check.bridge, s) /\ SamePackage(p, s)
        /\ \A i \in DOMAIN p.artifacts : EntryChecked(p.artifacts[i])
    BY DEF PackageInv, CheckInv, Late
  <2>2. PICK k \in Kernels, b \in Bridges : MadeOf(s, k, b)
    BY <2>1 DEF Made
  <2>3. PICK c : c = check.bridge
    OBVIOUS
  <2>4. s.types = b.types /\ Operations(s) = ToSet(b.operations)
    <3>1. s.types = b.types /\ s.operations = SchemaOperations(b.types, ToSet(b.operations), k.symbols)
      BY <2>2 DEF MadeOf
    <3>2. QED
      BY <3>1, OperationsOf
  <2>5. c.types = b.types /\ ToSet(c.operations) = ToSet(b.operations)
    BY <2>1, <2>3, <2>4 DEF SameBridge
  <2>6. p # Missing
    BY <2>1 DEF IsManifest, ManifestFields, Missing
  <2>7. SchemaPackage(p) # Missing /\ SchemaPackage(p).capabilities = p.requested
    BY DEF SchemaPackage, Missing
  <2>8. /\ s.package = SchemaPackage(p) /\ p.profile = s.profile /\ s.target \in p.targets
        /\ s.identity = Identity(p, s.target, s.hash)
    BY <2>1 DEF SamePackage
  <2>9. CanBuild(Interface(k, s.target), p, c)
    <3>1. s.profile = k.profile
      BY <2>2 DEF MadeOf
    <3>2. \A o \in ToSet(c.operations) :
             Allowed(o, k.symbols) /\ (o.capability # Missing => o.capability \in p.requested)
      BY <2>2, <2>5, <2>7, <2>8 DEF MadeOf
    <3>3. QED
      BY <2>8, <3>1, <3>2 DEF CanBuild, Interface
  <2>10. s = BuildSchema(Interface(k, s.target), p, c)
    <3>1. s = [package |-> s.package, target |-> s.target, profile |-> k.profile,
               kernel |-> <<s.target, k.source>>, hash |-> <<k.source, k.symbols>>,
               identity |-> s.identity, types |-> b.types, symbols |-> k.symbols,
               operations |-> SchemaOperations(b.types, ToSet(b.operations), k.symbols)]
      BY <2>2 DEF MadeOf
    <3>2. s.hash = <<k.source, k.symbols>>
      BY <3>1
    <3>3. BuildSchema(Interface(k, s.target), p, c) =
              [package |-> SchemaPackage(p), target |-> s.target, profile |-> k.profile,
               kernel |-> <<s.target, k.source>>, hash |-> <<k.source, k.symbols>>,
               identity |-> Identity(p, s.target, s.hash), types |-> c.types, symbols |-> k.symbols,
               operations |-> SchemaOperations(c.types, ToSet(c.operations), k.symbols)]
      BY <2>6, <3>2 DEF BuildSchema, Interface
    <3>4. QED
      BY <2>5, <2>8, <3>1, <3>3
  <2>11. ASSUME NEW a \in ToSet(p.artifacts)
         PROVE  /\ a.kind = "eki" => \E m \in Kernels, code \in Codes :
                      a.sha = Image(m, a.target, code) /\ Interface(m, s.target).hash = s.hash
                /\ check.trusted # Missing => a.signature = [key |-> check.trusted, over |-> a.sha]
    <3>1. a \in Artifact /\ EntryChecked(a)
      <4>1. PICK i \in DOMAIN p.artifacts : a = p.artifacts[i]
        BY DEF ToSet
      <4>2. QED
        BY <2>1, <4>1, ItemOf DEF IsManifest
    <3>2. ASSUME a.kind = "eki"
          PROVE  \E m \in Kernels, code \in Codes :
                      a.sha = Image(m, a.target, code) /\ Interface(m, s.target).hash = s.hash
      <4>1. a.sha \in Content /\ a.sha.arch = a.target /\ a.sha.profile = s.hash /\ a.target \in Target
        BY <3>1, <3>2 DEF EntryChecked, Bound, Artifact
      <4>2. ASSUME NEW code \in Codes, a.sha = Blob(code) PROVE FALSE
        BY <4>1, <4>2, PackageAssumption DEF Blob
      <4>3. PICK m \in Kernels, t \in Target, code \in Codes : a.sha = Image(m, t, code)
        BY <4>1, <4>2 DEF Content
      <4>4. a.target = t /\ s.hash = <<m.source, m.symbols>>
        BY <4>1, <4>3 DEF Image, Interface
      <4>5. Interface(m, s.target).hash = s.hash
        BY <4>4 DEF Interface
      <4>6. QED
        BY <4>3, <4>4, <4>5
    <3>3. ASSUME check.trusted # Missing
          PROVE  a.signature = [key |-> check.trusted, over |-> a.sha]
      <4>1. a.signature # Missing /\ a.signature.key = check.trusted /\ a.signature.over = a.sha
        BY <3>1, <3>3 DEF EntryChecked, Signed
      <4>2. a.signature \in [key : Key, over : Content]
        BY <3>1, <4>1 DEF Artifact
      <4>3. QED
        BY <4>1, <4>2
    <3>4. QED
      BY <3>2, <3>3
  <2>12. QED
    BY <2>3, <2>9, <2>10, <2>11
<1>2. QED
  BY PackageInductive, <1>1, PTL

\* A package made by the documented steps, and left alone, is accepted.
THEOREM ReleasableIsAcceptedHolds == PackageSpec => []ReleasableIsAccepted
<1>1. PackageInv => ReleasableIsAccepted
  BY DEF PackageInv, ReadInv, ReleasableIsAccepted
<1>2. QED
  BY PackageInductive, <1>1, PTL

-----------------------------------------------------------------------------
(* Sequences of tokens of any kind. *)

IsSeq(s) == \E X : s \in Seq(X)

\* The tokens of s are in w, after the first p.
At(w, p, s) == \A i \in 1 .. Len(s) : w[p + i] = s[i]

LEMMA SeqFacts ==
    ASSUME NEW s, IsSeq(s)
    PROVE  Len(s) \in Nat /\ DOMAIN s = 1 .. Len(s)
<1>1. PICK X : s \in Seq(X)
  BY DEF IsSeq
<1>2. QED
  BY <1>1, LenProperties

LEMMA JoinSeqs ==
    ASSUME NEW s, NEW t, IsSeq(s), IsSeq(t)
    PROVE  /\ IsSeq(s \o t) /\ Len(s) \in Nat /\ Len(t) \in Nat /\ Len(s \o t) = Len(s) + Len(t)
           /\ \A i \in 1 .. Len(s) + Len(t) : (s \o t)[i] = IF i <= Len(s) THEN s[i] ELSE t[i - Len(s)]
<1>1. PICK X : s \in Seq(X)
  BY DEF IsSeq
<1>2. PICK Y : t \in Seq(Y)
  BY DEF IsSeq
<1>3. PICK Z : X \subseteq Z /\ Y \subseteq Z
  <2>1. X \subseteq X \cup Y /\ Y \subseteq X \cup Y
    OBVIOUS
  <2>2. QED
    BY <2>1
<1>4. s \in Seq(Z) /\ t \in Seq(Z)
  BY <1>1, <1>2, <1>3, ListIn
<1>5. /\ s \o t \in Seq(Z) /\ Len(s \o t) = Len(s) + Len(t)
      /\ \A i \in 1 .. Len(s) + Len(t) : (s \o t)[i] = IF i <= Len(s) THEN s[i] ELSE t[i - Len(s)]
  BY <1>4, ConcatProperties
<1>6. IsSeq(s \o t)
  BY <1>5 DEF IsSeq
<1>7. QED
  BY <1>5, <1>6, SeqFacts

LEMMA SameSeq ==
    ASSUME NEW s, NEW t, IsSeq(s), IsSeq(t), Len(s) = Len(t), \A i \in 1 .. Len(s) : s[i] = t[i]
    PROVE  s = t
<1>1. PICK X : s \in Seq(X)
  BY DEF IsSeq
<1>2. PICK Y : t \in Seq(Y)
  BY DEF IsSeq
<1>3. s = [i \in 1 .. Len(s) |-> s[i]] /\ t = [i \in 1 .. Len(t) |-> t[i]]
  BY <1>1, <1>2
<1>4. QED
  BY <1>3

\* Where s goes on with t, t comes after s.
LEMMA AtJoined ==
    ASSUME NEW w, NEW p \in Nat, NEW s, NEW t, IsSeq(s), IsSeq(t), At(w, p, s \o t)
    PROVE  At(w, p, s) /\ At(w, p + Len(s), t) /\ p + Len(s) \in Nat
<1>1. PICK m \in Nat, n \in Nat : m = Len(s) /\ n = Len(t)
  BY JoinSeqs
<1>2. /\ Len(s \o t) = m + n
      /\ \A i \in 1 .. m + n : (s \o t)[i] = IF i <= m THEN s[i] ELSE t[i - m]
  BY <1>1, JoinSeqs
<1>3. \A i \in 1 .. m + n : w[p + i] = IF i <= m THEN s[i] ELSE t[i - m]
  BY <1>1, <1>2 DEF At
<1>4. \A i \in 1 .. m : w[p + i] = s[i]
  BY <1>1, <1>3
<1>5. \A i \in 1 .. n : w[p + m + i] = t[i]
  <2> SUFFICES ASSUME NEW i \in 1 .. n PROVE w[p + m + i] = t[i]
    OBVIOUS
  <2>1. m + i \in 1 .. m + n /\ ~(m + i <= m) /\ (m + i) - m = i /\ p + (m + i) = p + m + i
    BY <1>1
  <2>2. w[p + (m + i)] = t[(m + i) - m]
    BY <1>3, <2>1
  <2>3. QED
    BY <2>1, <2>2
<1>6. QED
  BY <1>1, <1>4, <1>5 DEF At

\* Tokens of one length in one place are the same.
LEMMA AtSame ==
    ASSUME NEW w, NEW p, NEW s, NEW t, IsSeq(s), IsSeq(t), Len(s) = Len(t), At(w, p, s), At(w, p, t)
    PROVE  s = t
<1>1. \A i \in 1 .. Len(s) : s[i] = t[i]
  BY DEF At
<1>2. QED
  BY <1>1, SameSeq

-----------------------------------------------------------------------------
(* Parts put together. *)

\* The first parts put together, and all of them.
Joining(f, seqs, n) == f = [i \in 1 .. n |-> IF i = 1 THEN seqs[i] ELSE f[i - 1] \o seqs[i]]
Joined(J, seqs) ==
    /\ J[0] = <<>> /\ J[Len(seqs)] = FlattenSeq(seqs)
    /\ \A k \in 0 .. Len(seqs) : IsSeq(J[k])
    /\ \A k \in 1 .. Len(seqs) : J[k] = J[k - 1] \o seqs[k]

\* A list of sequences.
AllSeqs(seqs) == IsSeq(seqs) /\ \A k \in 1 .. Len(seqs) : IsSeq(seqs[k])

LEMMA JoiningStep ==
    ASSUME NEW f, NEW seqs, NEW n \in Nat, Joining(f, seqs, n)
    PROVE  /\ \A i \in 1 .. n : f[i] = IF i = 1 THEN seqs[i] ELSE f[i - 1] \o seqs[i]
           /\ \E g : Joining(g, seqs, n + 1)
<1>1. \A i \in 1 .. n : f[i] = IF i = 1 THEN seqs[i] ELSE f[i - 1] \o seqs[i]
  BY DEF Joining
<1> DEFINE g == [i \in 1 .. n + 1 |-> IF i <= n THEN f[i] ELSE IF i = 1 THEN seqs[i] ELSE f[i - 1] \o seqs[i]]
<1>2. \A i \in 1 .. n + 1 : g[i] = IF i = 1 THEN seqs[i] ELSE g[i - 1] \o seqs[i]
  <2> SUFFICES ASSUME NEW i \in 1 .. n + 1
               PROVE  g[i] = IF i = 1 THEN seqs[i] ELSE g[i - 1] \o seqs[i]
    OBVIOUS
  <2>1. CASE i = 1
    BY <1>1, <2>1
  <2>2. CASE i # 1
    <3>1. i - 1 \in 1 .. n /\ i - 1 \in 1 .. n + 1
      BY <2>2
    <3>2. g[i - 1] = f[i - 1]
      BY <3>1
    <3>3. CASE i <= n
      <4>1. i \in 1 .. n /\ g[i] = f[i]
        BY <3>3
      <4>2. f[i] = f[i - 1] \o seqs[i]
        BY <1>1, <2>2, <4>1
      <4>3. QED
        BY <2>2, <3>2, <4>1, <4>2
    <3>4. CASE ~(i <= n)
      BY <2>2, <3>2, <3>4
    <3>5. QED
      BY <3>3, <3>4
  <2>3. QED
    BY <2>1, <2>2
<1>3. g = [i \in 1 .. n + 1 |-> g[i]]
  OBVIOUS
<1> HIDE DEF g
<1>4. Joining(g, seqs, n + 1)
  BY <1>2, <1>3 DEF Joining
<1>5. QED
  BY <1>1, <1>4

\* FlattenSeq is what the last step makes, of a function that takes them all.
LEMMA FlattenIsJoining ==
    ASSUME NEW seqs, Len(seqs) \in Nat \ {0}
    PROVE  \E f : Joining(f, seqs, Len(seqs)) /\ FlattenSeq(seqs) = f[Len(seqs)]
<1> DEFINE Short == {n \in Nat : ~\E f : Joining(f, seqs, n)}
<1>1. Short = {}
  <2>1. SUFFICES ASSUME Short # {} PROVE FALSE
    OBVIOUS
  <2>2. Short \in SUBSET Nat
    OBVIOUS
  <2>3. PICK n \in Short : \A m \in Short : <<m, n>> \notin OpToRel(<, Nat)
    BY <2>1, <2>2, NatLessThanWellFounded, WFMin
  <2>4. n \in Nat /\ ~\E f : Joining(f, seqs, n)
    OBVIOUS
  <2>5. \A m \in Short : ~(m < n)
    BY <2>2, <2>3 DEF OpToRel
  <2>6. n # 0
    <3>1. Joining([i \in 1 .. 0 |-> {}], seqs, 0)
      BY DEF Joining
    <3>2. QED
      BY <2>4, <3>1
  <2>7. n - 1 \in Nat /\ n - 1 \notin Short
    BY <2>4, <2>5, <2>6
  <2>8. PICK f : Joining(f, seqs, n - 1)
    BY <2>7
  <2>9. \E g : Joining(g, seqs, (n - 1) + 1)
    BY <2>7, <2>8, JoiningStep
  <2>10. (n - 1) + 1 = n
    BY <2>4
  <2>11. QED
    BY <2>4, <2>9, <2>10
<1>2. \E f : Joining(f, seqs, Len(seqs))
  BY <1>1
<1>3. FlattenSeq(seqs) = (CHOOSE f : Joining(f, seqs, Len(seqs)))[Len(seqs)]
  BY DEF FlattenSeq, Joining
<1>4. QED
  BY <1>2, <1>3

\* The parts put together one after the other.
LEMMA FlattenIsJoined ==
    ASSUME NEW seqs, AllSeqs(seqs)
    PROVE  \E J : Joined(J, seqs)
<1>1. PICK n \in Nat : n = Len(seqs)
  BY SeqFacts DEF AllSeqs
<1>2. IsSeq(<<>>)
  <2>1. <<>> \in Seq({})
    OBVIOUS
  <2>2. QED
    BY <2>1 DEF IsSeq
<1>3. CASE n = 0
  <2> DEFINE J == [k \in 0 .. 0 |-> <<>>]
  <2>1. FlattenSeq(seqs) = seqs
    BY <1>1, <1>3 DEF FlattenSeq
  <2>2. seqs = <<>>
    <3>1. PICK X : seqs \in Seq(X)
      BY DEF AllSeqs, IsSeq
    <3>2. QED
      BY <1>1, <1>3, <3>1, EmptySeq
  <2>3. J[0] = <<>> /\ \A k \in 0 .. 0 : IsSeq(J[k])
    BY <1>2
  <2> HIDE DEF J
  <2>4. Joined(J, seqs)
    BY <1>1, <1>3, <2>1, <2>2, <2>3 DEF Joined
  <2>5. QED
    BY <2>4
<1>4. CASE n # 0
  <2>1. PICK f : Joining(f, seqs, n) /\ FlattenSeq(seqs) = f[n]
    BY <1>1, <1>4, FlattenIsJoining
  <2>2. \A i \in 1 .. n : f[i] = IF i = 1 THEN seqs[i] ELSE f[i - 1] \o seqs[i]
    BY <2>1, JoiningStep
  <2>3. PICK J : J = [k \in 0 .. n |-> IF k = 0 THEN <<>> ELSE f[k]]
    OBVIOUS
  <2>4. J[0] = <<>> /\ \A k \in 1 .. n : J[k] = f[k]
    BY <2>3
  <2>5. \A k \in 1 .. n : IsSeq(seqs[k])
    BY <1>1 DEF AllSeqs
  <2>6. \A k \in 1 .. n : J[k] = J[k - 1] \o seqs[k]
    <3> SUFFICES ASSUME NEW k \in 1 .. n PROVE J[k] = J[k - 1] \o seqs[k]
      OBVIOUS
    <3>1. CASE k = 1
      <4>1. J[k] = seqs[k] /\ J[k - 1] = <<>>
        BY <2>2, <2>4, <3>1
      <4>2. PICK X : seqs[k] \in Seq(X)
        BY <2>5 DEF IsSeq
      <4>3. <<>> \o seqs[k] = seqs[k]
        BY <4>2, ConcatEmptySeq
      <4>4. QED
        BY <4>1, <4>3
    <3>2. CASE k # 1
      <4>1. k - 1 \in 1 .. n
        BY <1>1, <3>2
      <4>2. J[k] = f[k] /\ J[k - 1] = f[k - 1]
        BY <2>4, <4>1
      <4>3. f[k] = f[k - 1] \o seqs[k]
        BY <2>2, <3>2
      <4>4. QED
        BY <4>2, <4>3
    <3>3. QED
      BY <3>1, <3>2
  <2> DEFINE Off == {k \in 0 .. n : ~IsSeq(J[k])}
  <2>7. Off = {}
    <3>1. SUFFICES ASSUME Off # {} PROVE FALSE
      OBVIOUS
    <3>2. Off \in SUBSET Nat
      BY <1>1
    <3>3. PICK k \in Off : \A m \in Off : <<m, k>> \notin OpToRel(<, Nat)
      BY <3>1, <3>2, NatLessThanWellFounded, WFMin
    <3>4. k \in 0 .. n /\ ~IsSeq(J[k])
      OBVIOUS
    <3>5. \A m \in Off : ~(m < k)
      BY <3>2, <3>3 DEF OpToRel
    <3>6. k # 0
      BY <1>2, <2>4, <3>4
    <3>7. k \in 1 .. n /\ k - 1 \in 0 .. n /\ k - 1 \notin Off
      BY <1>1, <3>4, <3>5, <3>6
    <3>8. IsSeq(J[k - 1]) /\ IsSeq(seqs[k])
      BY <2>5, <3>7
    <3>9. IsSeq(J[k - 1] \o seqs[k])
      BY <3>8, JoinSeqs
    <3>10. QED
      BY <2>6, <3>4, <3>7, <3>9
  <2>8. \A k \in 0 .. n : IsSeq(J[k])
    BY <2>7
  <2>9. J[n] = FlattenSeq(seqs)
    BY <1>1, <1>4, <2>1, <2>4
  <2>10. Joined(J, seqs)
    BY <1>1, <2>4, <2>6, <2>8, <2>9 DEF Joined
  <2>11. QED
    BY <2>10
<1>5. QED
  BY <1>3, <1>4

LEMMA FlattenIsSeq ==
    ASSUME NEW seqs, AllSeqs(seqs)
    PROVE  IsSeq(FlattenSeq(seqs))
<1>1. PICK J : Joined(J, seqs)
  BY FlattenIsJoined
<1>2. Len(seqs) \in 0 .. Len(seqs)
  BY SeqFacts DEF AllSeqs
<1>3. QED
  BY <1>1, <1>2 DEF Joined

\* Where all parts are, the first ones are.
LEMMA FirstAt ==
    ASSUME NEW seqs, AllSeqs(seqs), NEW J, Joined(J, seqs), NEW w, NEW p \in Nat,
           At(w, p, FlattenSeq(seqs)), NEW k \in 0 .. Len(seqs)
    PROVE  At(w, p, J[k])
<1>1. PICK n \in Nat : n = Len(seqs)
  BY SeqFacts DEF AllSeqs
<1> DEFINE Off == {i \in 0 .. n : ~At(w, p, J[n - i])}
<1>2. Off = {}
  <2>1. SUFFICES ASSUME Off # {} PROVE FALSE
    OBVIOUS
  <2>2. Off \in SUBSET Nat
    BY <1>1
  <2>3. PICK i \in Off : \A m \in Off : <<m, i>> \notin OpToRel(<, Nat)
    BY <2>1, <2>2, NatLessThanWellFounded, WFMin
  <2>4. i \in 0 .. n /\ ~At(w, p, J[n - i])
    OBVIOUS
  <2>5. \A m \in Off : ~(m < i)
    BY <2>2, <2>3 DEF OpToRel
  <2>6. i # 0
    <3>1. n - 0 = n /\ J[n] = FlattenSeq(seqs)
      BY <1>1 DEF Joined
    <3>2. QED
      BY <2>4, <3>1
  <2>7. i - 1 \in 0 .. n /\ i - 1 \notin Off
    BY <1>1, <2>4, <2>5, <2>6
  <2>8. PICK j \in 1 .. n : j = n - (i - 1) /\ j - 1 = n - i
    <3>1. i \in Nat /\ i <= n
      BY <1>1, <2>4
    <3>2. n - (i - 1) \in 1 .. n /\ (n - (i - 1)) - 1 = n - i
      BY <1>1, <2>6, <3>1
    <3>3. QED
      BY <3>2
  <2>9. At(w, p, J[j]) /\ J[j] = J[j - 1] \o seqs[j]
    BY <1>1, <2>7, <2>8 DEF Joined
  <2>10. IsSeq(J[j - 1]) /\ IsSeq(seqs[j])
    <3>1. j - 1 \in 0 .. n
      BY <1>1
    <3>2. QED
      BY <1>1, <3>1 DEF Joined, AllSeqs
  <2>11. At(w, p, J[j - 1])
    BY <2>9, <2>10, AtJoined
  <2>12. QED
    BY <2>4, <2>8, <2>11
<1>3. n - k \in 0 .. n /\ n - (n - k) = k
  <2>1. k \in 0 .. n
    BY <1>1
  <2>2. QED
    BY <1>1, <2>1
<1>4. n - k \notin Off
  BY <1>2
<1>5. QED
  BY <1>3, <1>4

\* Parts that are the same wherever they are in the same place.
OnePart(s, t) == \A w : \A q \in Nat : At(w, q, s) /\ At(w, q, t) => s = t

\* As many of those, one after the other in the same place, are the same.
LEMMA FlattenAgree ==
    ASSUME NEW seqs, NEW more, AllSeqs(seqs), AllSeqs(more), Len(seqs) = Len(more),
           \A k \in 1 .. Len(seqs) : OnePart(seqs[k], more[k]),
           NEW w, NEW p \in Nat, At(w, p, FlattenSeq(seqs)), At(w, p, FlattenSeq(more))
    PROVE  /\ FlattenSeq(seqs) = FlattenSeq(more)
           /\ \A k \in 1 .. Len(seqs) : \E q \in Nat : At(w, q, seqs[k]) /\ At(w, q, more[k])
<1>1. PICK n \in Nat : n = Len(seqs) /\ n = Len(more)
  BY SeqFacts DEF AllSeqs
<1>2. PICK J : Joined(J, seqs)
  BY FlattenIsJoined
<1>3. PICK K : Joined(K, more)
  BY FlattenIsJoined
<1>4. \A k \in 0 .. n : At(w, p, J[k]) /\ At(w, p, K[k])
  BY <1>1, <1>2, <1>3, FirstAt
\* One more part.
<1>5. ASSUME NEW k \in 1 .. n, J[k - 1] = K[k - 1]
      PROVE  /\ \E q \in Nat : At(w, q, seqs[k]) /\ At(w, q, more[k])
             /\ J[k] = K[k]
  <2>1. k \in 0 .. n /\ k - 1 \in 0 .. n
    BY <1>1
  <2>2. J[k] = J[k - 1] \o seqs[k] /\ K[k] = K[k - 1] \o more[k] /\ IsSeq(J[k - 1]) /\ IsSeq(K[k - 1])
    BY <1>1, <1>2, <1>3, <2>1 DEF Joined
  <2>3. IsSeq(seqs[k]) /\ IsSeq(more[k])
    BY <1>1 DEF AllSeqs
  <2>4. PICK q \in Nat : q = p + Len(J[k - 1]) /\ At(w, q, seqs[k])
    BY <1>4, <2>1, <2>2, <2>3, AtJoined
  <2>5. At(w, q, more[k])
    BY <1>4, <1>5, <2>1, <2>2, <2>3, <2>4, AtJoined
  <2>6. seqs[k] = more[k]
    BY <1>1, <2>4, <2>5 DEF OnePart
  <2>7. QED
    BY <1>5, <2>2, <2>4, <2>5, <2>6
<1> DEFINE Off == {k \in 0 .. n : J[k] # K[k]}
<1>6. Off = {}
  <2>1. SUFFICES ASSUME Off # {} PROVE FALSE
    OBVIOUS
  <2>2. Off \in SUBSET Nat
    BY <1>1
  <2>3. PICK k \in Off : \A m \in Off : <<m, k>> \notin OpToRel(<, Nat)
    BY <2>1, <2>2, NatLessThanWellFounded, WFMin
  <2>4. k \in 0 .. n /\ J[k] # K[k]
    OBVIOUS
  <2>5. \A m \in Off : ~(m < k)
    BY <2>2, <2>3 DEF OpToRel
  <2>6. k # 0
    BY <1>2, <1>3, <2>4 DEF Joined
  <2>7. k \in 1 .. n /\ k - 1 \in 0 .. n /\ k - 1 \notin Off
    BY <1>1, <2>4, <2>5, <2>6
  <2>8. J[k - 1] = K[k - 1]
    BY <2>7
  <2>9. QED
    BY <1>5, <2>4, <2>7, <2>8
<1>7. J[n] = K[n]
  <2>1. n \in 0 .. n /\ n \notin Off
    BY <1>1, <1>6
  <2>2. QED
    BY <2>1
<1>8. \A k \in 1 .. n : J[k - 1] = K[k - 1]
  <2> SUFFICES ASSUME NEW k \in 1 .. n PROVE J[k - 1] = K[k - 1]
    OBVIOUS
  <2>1. k - 1 \in 0 .. n /\ k - 1 \notin Off
    BY <1>1, <1>6
  <2>2. QED
    BY <2>1
<1>9. QED
  BY <1>1, <1>2, <1>3, <1>5, <1>7, <1>8 DEF Joined

-----------------------------------------------------------------------------
(* The order of types. *)

\* Types are finitely many, their parts are lists.
Shaped(types) ==
    IsFiniteSet(DOMAIN types) /\ \A n \in DOMAIN types : IsSeq(types[n].parts)

\* Each type is above the types of its parts.
Above(r, types) ==
    /\ \A n \in DOMAIN types : r[n] \in Nat /\ r[n] < Cardinality(DOMAIN types)
    /\ \A n \in DOMAIN types : \A i \in 1 .. Len(types[n].parts) :
          types[n].parts[i].type \in DOMAIN types /\ r[types[n].parts[i].type] < r[n]

\* The same of some of the types.
AboveIn(C, r, types) ==
    /\ C \in SUBSET DOMAIN types
    /\ \A n \in C : r[n] \in Nat /\ r[n] < Cardinality(C)
    /\ \A n \in C : \A i \in 1 .. Len(types[n].parts) :
          types[n].parts[i].type \in C /\ r[types[n].parts[i].type] < r[n]

\* Types that do not contain one another can be ordered so: as long as some are
\* left, one of them has its parts among the others.
LEMMA OrderExists ==
    ASSUME NEW types, Shaped(types), ValidTypes(types)
    PROVE  \E r : Above(r, types)
<1> DEFINE D == DOMAIN types
           Left == {k \in Nat : \E C, r : AboveIn(C, r, types) /\ Cardinality(D \ C) = k}
<1>1. IsFiniteSet(D) /\ Cardinality(D) \in Nat
  BY FS_CardinalityType DEF Shaped
<1>2. \A C \in SUBSET D : IsFiniteSet(C) /\ Cardinality(C) \in Nat
        /\ IsFiniteSet(D \ C) /\ Cardinality(D \ C) \in Nat
  BY <1>1, FS_Subset, FS_CardinalityType
<1>3. Cardinality(D) \in Left
  <2>1. AboveIn({}, [n \in {} |-> 0], types)
    BY DEF AboveIn
  <2>2. D \ {} = D
    OBVIOUS
  <2>3. QED
    BY <1>1, <2>1, <2>2
<1>4. PICK k \in Left : \A m \in Left : <<m, k>> \notin OpToRel(<, Nat)
  <2>1. Left \in SUBSET Nat /\ Left # {}
    BY <1>3
  <2>2. QED
    BY <2>1, NatLessThanWellFounded, WFMin
<1>5. PICK C, r : AboveIn(C, r, types) /\ Cardinality(D \ C) = k
  OBVIOUS
<1>6. C \in SUBSET D
  BY <1>5 DEF AboveIn
<1>7. C = D
  <2>1. SUFFICES ASSUME D \ C # {} PROVE FALSE
    BY <1>6
  <2>2. PICK n \in D \ C : \A part \in ToSet(types[n].parts) : part.type \notin D \ C
    BY <2>1 DEF ValidTypes
  <2>3. \A i \in 1 .. Len(types[n].parts) : types[n].parts[i].type \in C
    <3> SUFFICES ASSUME NEW i \in 1 .. Len(types[n].parts) PROVE types[n].parts[i].type \in C
      OBVIOUS
    <3>1. DOMAIN types[n].parts = 1 .. Len(types[n].parts)
      BY SeqFacts DEF Shaped
    <3>2. types[n].parts[i] \in ToSet(types[n].parts)
      BY <3>1 DEF ToSet
    <3>3. types[n].parts[i].type \in D
      BY <3>2 DEF ValidTypes
    <3>4. QED
      BY <2>2, <3>2, <3>3
  <2>4. PICK c \in Nat : c = Cardinality(C)
    BY <1>2, <1>6
  <2>5. PICK E : E = C \cup {n}
    OBVIOUS
  <2>6. E \in SUBSET D /\ Cardinality(E) = c + 1
    BY <1>2, <1>6, <2>4, <2>5, FS_AddElement
  <2>7. PICK q : q = [x \in E |-> IF x = n THEN c ELSE r[x]]
    OBVIOUS
  <2>8. q[n] = c /\ \A x \in C : q[x] = r[x]
    BY <2>5, <2>7
  <2>9. AboveIn(E, q, types)
    <3>1. \A x \in C : r[x] \in Nat /\ r[x] < c
      BY <1>5, <2>4 DEF AboveIn
    <3>2. \A x \in E : q[x] \in Nat /\ q[x] < Cardinality(E)
      BY <2>4, <2>5, <2>6, <2>8, <3>1
    <3>3. ASSUME NEW x \in E, NEW i \in 1 .. Len(types[x].parts)
          PROVE  types[x].parts[i].type \in E /\ q[types[x].parts[i].type] < q[x]
      <4>1. CASE x = n
        <5>1. types[x].parts[i].type \in C
          BY <2>3, <4>1
        <5>2. QED
          BY <2>5, <2>8, <3>1, <4>1, <5>1
      <4>2. CASE x \in C
        <5>1. types[x].parts[i].type \in C /\ r[types[x].parts[i].type] < r[x]
          BY <1>5, <4>2 DEF AboveIn
        <5>2. QED
          BY <2>5, <2>8, <4>2, <5>1
      <4>3. QED
        BY <2>5, <4>1, <4>2
    <3>4. QED
      BY <2>6, <3>2, <3>3 DEF AboveIn
  <2>10. Cardinality(D \ E) = k - 1 /\ D \ E = (D \ C) \ {n}
    <3>1. D \ E = (D \ C) \ {n}
      BY <2>5
    <3>2. QED
      BY <1>2, <1>5, <1>6, <3>1, FS_RemoveElement
  <2>11. k - 1 \in Nat
    BY <1>2, <2>6, <2>10
  <2>12. k - 1 \in Left
    BY <2>9, <2>10, <2>11
  <2>13. k \in Nat /\ k - 1 < k
    <3>1. k \in Nat
      OBVIOUS
    <3>2. QED
      BY <3>1
  <2>14. QED
    BY <1>4, <2>11, <2>12, <2>13 DEF OpToRel
<1>8. Above(r, types)
  BY <1>5, <1>7 DEF AboveIn, Above
<1>9. QED
  BY <1>8

-----------------------------------------------------------------------------
(* Fingerprints and layouts, level by level. *)

\* Fingerprints, of types up to a depth.
Prints(f, types, N) ==
    f = [d \in 0 .. N |-> [n \in DOMAIN types |->
           IF d = 0 THEN <<>> ELSE FingerprintOf(n, types[n], f[d - 1])]]
PrintsOf(f, types, N) ==
    \A d \in 1 .. N : \A n \in DOMAIN types : f[d][n] = FingerprintOf(n, types[n], f[d - 1])

LEMMA PrintsStep ==
    ASSUME NEW f, NEW types, NEW N \in Nat, Prints(f, types, N)
    PROVE  PrintsOf(f, types, N) /\ \E g : Prints(g, types, N + 1)
<1> DEFINE Row(d, below) == [n \in DOMAIN types |-> IF d = 0 THEN <<>> ELSE FingerprintOf(n, types[n], below)]
<1>1. f = [d \in 0 .. N |-> Row(d, f[d - 1])]
  BY DEF Prints
<1>2. \A h : h = [d \in 0 .. N + 1 |-> Row(d, h[d - 1])] => Prints(h, types, N + 1)
  BY DEF Prints
<1>3. \A d \in 1 .. N : \A below : \A n \in DOMAIN types : Row(d, below)[n] = FingerprintOf(n, types[n], below)
  OBVIOUS
<1>4. \A a, b : Row(0, a) = Row(0, b)
  OBVIOUS
<1> HIDE DEF Row
<1>5. \A d \in 0 .. N : f[d] = Row(d, f[d - 1])
  BY <1>1
<1>6. PrintsOf(f, types, N)
  BY <1>3, <1>5 DEF PrintsOf
<1> DEFINE g == [d \in 0 .. N + 1 |-> IF d <= N THEN f[d] ELSE Row(d, f[d - 1])]
<1>7. \A d \in 0 .. N + 1 : g[d] = Row(d, g[d - 1])
  <2> SUFFICES ASSUME NEW d \in 0 .. N + 1 PROVE g[d] = Row(d, g[d - 1])
    OBVIOUS
  <2>1. CASE d = 0
    <3>1. g[d] = Row(0, f[d - 1])
      BY <1>5, <2>1
    <3>2. QED
      BY <1>4, <2>1, <3>1
  <2>2. CASE d # 0
    <3>1. d - 1 \in 0 .. N + 1 /\ d - 1 <= N
      BY <2>2
    <3>2. g[d - 1] = f[d - 1]
      BY <3>1
    <3>3. CASE d <= N
      BY <1>5, <3>2, <3>3
    <3>4. CASE ~(d <= N)
      BY <3>2, <3>4
    <3>5. QED
      BY <3>3, <3>4
  <2>3. QED
    BY <2>1, <2>2
<1>8. g = [d \in 0 .. N + 1 |-> g[d]]
  OBVIOUS
<1> HIDE DEF g
<1>9. g = [d \in 0 .. N + 1 |-> Row(d, g[d - 1])]
  BY <1>7, <1>8
<1>10. QED
  BY <1>2, <1>6, <1>9

LEMMA FingerprintIsLast ==
    ASSUME NEW types, NEW N \in Nat, N = Cardinality(DOMAIN types)
    PROVE  \E f : PrintsOf(f, types, N) /\ \A n : Fingerprint(types, n) = f[N][n]
<1> DEFINE Short == {m \in Nat : ~\E f : Prints(f, types, m)}
<1>1. Short = {}
  <2>1. SUFFICES ASSUME Short # {} PROVE FALSE
    OBVIOUS
  <2>2. Short \in SUBSET Nat
    OBVIOUS
  <2>3. PICK m \in Short : \A k \in Short : <<k, m>> \notin OpToRel(<, Nat)
    BY <2>1, <2>2, NatLessThanWellFounded, WFMin
  <2>4. m \in Nat /\ ~\E f : Prints(f, types, m)
    OBVIOUS
  <2>5. \A k \in Short : ~(k < m)
    BY <2>2, <2>3 DEF OpToRel
  <2>6. m # 0
    <3> DEFINE f0 == [d \in 0 .. 0 |-> [n \in DOMAIN types |-> <<>>]]
    <3>1. Prints(f0, types, 0)
      <4>1. \A d \in 0 .. 0 : d = 0
        OBVIOUS
      <4>2. QED
        BY <4>1 DEF Prints
    <3>2. QED
      BY <2>4, <3>1
  <2>7. m - 1 \in Nat /\ m - 1 \notin Short
    BY <2>4, <2>5, <2>6
  <2>8. PICK f : Prints(f, types, m - 1)
    BY <2>7
  <2>9. \E g : Prints(g, types, (m - 1) + 1)
    BY <2>7, <2>8, PrintsStep
  <2>10. (m - 1) + 1 = m
    BY <2>4
  <2>11. QED
    BY <2>4, <2>9, <2>10
<1>2. \E f : Prints(f, types, N)
  BY <1>1
<1>3. PICK f : f = CHOOSE g : Prints(g, types, N)
  OBVIOUS
<1>4. Prints(f, types, N)
  BY <1>2, <1>3
<1>5. \A n : Fingerprint(types, n) = f[N][n]
  BY <1>3 DEF Fingerprint, Prints
<1>6. QED
  BY <1>4, <1>5, PrintsStep

\* Layouts, of types up to a depth.
Layouts(f, types, N) ==
    f = [d \in 0 .. N |-> [n \in DOMAIN types |->
           IF d = 0 THEN Missing ELSE LayoutOf(n, types[n], f[d - 1])]]
LayoutsOf(f, types, N) ==
    \A d \in 1 .. N : \A n \in DOMAIN types : f[d][n] = LayoutOf(n, types[n], f[d - 1])

LEMMA LayoutsStep ==
    ASSUME NEW f, NEW types, NEW N \in Nat, Layouts(f, types, N)
    PROVE  LayoutsOf(f, types, N) /\ \E g : Layouts(g, types, N + 1)
<1> DEFINE Row(d, below) == [n \in DOMAIN types |-> IF d = 0 THEN Missing ELSE LayoutOf(n, types[n], below)]
<1>1. f = [d \in 0 .. N |-> Row(d, f[d - 1])]
  BY DEF Layouts
<1>2. \A h : h = [d \in 0 .. N + 1 |-> Row(d, h[d - 1])] => Layouts(h, types, N + 1)
  BY DEF Layouts
<1>3. \A d \in 1 .. N : \A below : \A n \in DOMAIN types : Row(d, below)[n] = LayoutOf(n, types[n], below)
  OBVIOUS
<1>4. \A a, b : Row(0, a) = Row(0, b)
  OBVIOUS
<1> HIDE DEF Row
<1>5. \A d \in 0 .. N : f[d] = Row(d, f[d - 1])
  BY <1>1
<1>6. LayoutsOf(f, types, N)
  BY <1>3, <1>5 DEF LayoutsOf
<1> DEFINE g == [d \in 0 .. N + 1 |-> IF d <= N THEN f[d] ELSE Row(d, f[d - 1])]
<1>7. \A d \in 0 .. N + 1 : g[d] = Row(d, g[d - 1])
  <2> SUFFICES ASSUME NEW d \in 0 .. N + 1 PROVE g[d] = Row(d, g[d - 1])
    OBVIOUS
  <2>1. CASE d = 0
    <3>1. g[d] = Row(0, f[d - 1])
      BY <1>5, <2>1
    <3>2. QED
      BY <1>4, <2>1, <3>1
  <2>2. CASE d # 0
    <3>1. d - 1 \in 0 .. N + 1 /\ d - 1 <= N
      BY <2>2
    <3>2. g[d - 1] = f[d - 1]
      BY <3>1
    <3>3. CASE d <= N
      BY <1>5, <3>2, <3>3
    <3>4. CASE ~(d <= N)
      BY <3>2, <3>4
    <3>5. QED
      BY <3>3, <3>4
  <2>3. QED
    BY <2>1, <2>2
<1>8. g = [d \in 0 .. N + 1 |-> g[d]]
  OBVIOUS
<1> HIDE DEF g
<1>9. g = [d \in 0 .. N + 1 |-> Row(d, g[d - 1])]
  BY <1>7, <1>8
<1>10. QED
  BY <1>2, <1>6, <1>9

LEMMA LayoutIsLast ==
    ASSUME NEW types, NEW N \in Nat, N = Cardinality(DOMAIN types)
    PROVE  \E f : LayoutsOf(f, types, N) /\ \A n : Layout(types, n) = f[N][n]
<1> DEFINE Short == {m \in Nat : ~\E f : Layouts(f, types, m)}
<1>1. Short = {}
  <2>1. SUFFICES ASSUME Short # {} PROVE FALSE
    OBVIOUS
  <2>2. Short \in SUBSET Nat
    OBVIOUS
  <2>3. PICK m \in Short : \A k \in Short : <<k, m>> \notin OpToRel(<, Nat)
    BY <2>1, <2>2, NatLessThanWellFounded, WFMin
  <2>4. m \in Nat /\ ~\E f : Layouts(f, types, m)
    OBVIOUS
  <2>5. \A k \in Short : ~(k < m)
    BY <2>2, <2>3 DEF OpToRel
  <2>6. m # 0
    <3> DEFINE f0 == [d \in 0 .. 0 |-> [n \in DOMAIN types |-> Missing]]
    <3>1. Layouts(f0, types, 0)
      <4>1. \A d \in 0 .. 0 : d = 0
        OBVIOUS
      <4>2. QED
        BY <4>1 DEF Layouts
    <3>2. QED
      BY <2>4, <3>1
  <2>7. m - 1 \in Nat /\ m - 1 \notin Short
    BY <2>4, <2>5, <2>6
  <2>8. PICK f : Layouts(f, types, m - 1)
    BY <2>7
  <2>9. \E g : Layouts(g, types, (m - 1) + 1)
    BY <2>7, <2>8, LayoutsStep
  <2>10. (m - 1) + 1 = m
    BY <2>4
  <2>11. QED
    BY <2>4, <2>9, <2>10
<1>2. \E f : Layouts(f, types, N)
  BY <1>1
<1>3. PICK f : f = CHOOSE g : Layouts(g, types, N)
  OBVIOUS
<1>4. Layouts(f, types, N)
  BY <1>2, <1>3
<1>5. \A n : Layout(types, n) = f[N][n]
  BY <1>3 DEF Layout, Layouts
<1>6. QED
  BY <1>4, <1>5, LayoutsStep



-----------------------------------------------------------------------------
(* What a fingerprint can be read as. *)

\* Types in order, with their fingerprints and layouts up to every depth.
Unfolded(types, r, f, g) ==
    /\ Shaped(types) /\ Above(r, types)
    /\ PrintsOf(f, types, Cardinality(DOMAIN types))
    /\ LayoutsOf(g, types, Cardinality(DOMAIN types))

HeadOf(n, t) ==
    <<<<"name", n>>, <<"kind", t.kind>>, <<"size", t.size>>,
      <<"shape", t.shape>>, <<"parts", Len(t.parts)>>>>
PartPrints(t, inner) == [i \in DOMAIN t.parts |-> PlaceOf(t.parts[i]) \o inner[t.parts[i].type]]

LEMMA PlaceFacts ==
    ASSUME NEW part
    PROVE  IsSeq(PlaceOf(part)) /\ Len(PlaceOf(part)) = 2
<1> DEFINE a == <<"label", part.label>>  b == <<"offset", part.offset>>
<1>1. <<a, b>> \in Seq({a, b}) /\ Len(<<a, b>>) = 2
  OBVIOUS
<1>2. PlaceOf(part) = <<a, b>>
  BY DEF PlaceOf
<1>3. QED
  BY <1>1, <1>2 DEF IsSeq

LEMMA SamePlace ==
    ASSUME NEW a, NEW b
    PROVE  PlaceOf(a) = PlaceOf(b) <=> a.label = b.label /\ a.offset = b.offset
  BY DEF PlaceOf

LEMMA HeadFacts ==
    ASSUME NEW n, NEW t
    PROVE  IsSeq(HeadOf(n, t)) /\ Len(HeadOf(n, t)) = 5
<1> DEFINE a == <<"name", n>>  b == <<"kind", t.kind>>  c == <<"size", t.size>>
           d == <<"shape", t.shape>>  e == <<"parts", Len(t.parts)>>
<1>1. HeadOf(n, t) = <<a, b, c, d, e>>
  BY DEF HeadOf
<1> HIDE DEF a, b, c, d, e
<1>2. <<a, b, c, d, e>> \in Seq({a, b, c, d, e}) /\ Len(<<a, b, c, d, e>>) = 5
  OBVIOUS
<1>3. QED
  BY <1>1, <1>2 DEF IsSeq

LEMMA SameHead ==
    ASSUME NEW n, NEW t, NEW m, NEW u
    PROVE  HeadOf(n, t) = HeadOf(m, u)
           <=> n = m /\ t.kind = u.kind /\ t.size = u.size /\ t.shape = u.shape
               /\ Len(t.parts) = Len(u.parts)
  BY DEF HeadOf

\* The parts of a type, where the fingerprints of their types are sequences.
LEMMA PartPrintsFacts ==
    ASSUME NEW t, IsSeq(t.parts), NEW inner,
           \A i \in 1 .. Len(t.parts) : IsSeq(inner[t.parts[i].type])
    PROVE  /\ AllSeqs(PartPrints(t, inner)) /\ Len(PartPrints(t, inner)) = Len(t.parts)
           /\ \A i \in 1 .. Len(t.parts) :
                 PartPrints(t, inner)[i] = PlaceOf(t.parts[i]) \o inner[t.parts[i].type]
<1>1. PICK n \in Nat : n = Len(t.parts) /\ DOMAIN t.parts = 1 .. n
  BY SeqFacts
<1>2. PICK s : s = PartPrints(t, inner)
  OBVIOUS
<1>3. s = [i \in 1 .. n |-> PlaceOf(t.parts[i]) \o inner[t.parts[i].type]]
  BY <1>1, <1>2 DEF PartPrints
<1>4. \A i \in 1 .. n : s[i] = PlaceOf(t.parts[i]) \o inner[t.parts[i].type]
  BY <1>3
<1>5. ASSUME NEW i \in 1 .. n PROVE IsSeq(s[i])
  <2>1. IsSeq(PlaceOf(t.parts[i])) /\ IsSeq(inner[t.parts[i].type])
    BY <1>1, PlaceFacts
  <2>2. IsSeq(PlaceOf(t.parts[i]) \o inner[t.parts[i].type])
    BY <2>1, JoinSeqs
  <2>3. QED
    BY <1>4, <2>2
<1>6. s \in Seq({s[i] : i \in 1 .. n}) /\ Len(s) = n
  <2>1. s \in [1 .. n -> {s[i] : i \in 1 .. n}]
    BY <1>3
  <2>2. s \in Seq({s[i] : i \in 1 .. n})
    BY <2>1, SeqDef
  <2>3. QED
    BY <2>1, <2>2, LenProperties
<1>7. QED
  BY <1>1, <1>2, <1>4, <1>5, <1>6 DEF AllSeqs, IsSeq

\* A fingerprint deep enough is its head and its parts, all of them sequences.
LEMMA PrintFacts ==
    ASSUME NEW types, NEW r, NEW f, NEW g, Unfolded(types, r, f, g),
           NEW d \in Nat, d <= Cardinality(DOMAIN types), NEW n \in DOMAIN types, r[n] < d
    PROVE  /\ IsSeq(f[d][n])
           /\ d - 1 \in Nat
           /\ f[d][n] = HeadOf(n, types[n]) \o FlattenSeq(PartPrints(types[n], f[d - 1]))
           /\ \A i \in 1 .. Len(types[n].parts) :
                 /\ types[n].parts[i].type \in DOMAIN types
                 /\ r[types[n].parts[i].type] < d - 1
                 /\ IsSeq(f[d - 1][types[n].parts[i].type])
<1>1. PICK N \in Nat : N = Cardinality(DOMAIN types)
  BY FS_CardinalityType DEF Unfolded, Shaped
<1> DEFINE Deep(e, m) == e \in 1 .. N /\ m \in DOMAIN types /\ r[m] < e
\* The shape of one, whatever is known of its parts.
<1>2. ASSUME NEW e, NEW m, Deep(e, m)
      PROVE  /\ e - 1 \in Nat /\ e - 1 <= N
             /\ f[e][m] = HeadOf(m, types[m]) \o FlattenSeq(PartPrints(types[m], f[e - 1]))
             /\ \A i \in 1 .. Len(types[m].parts) :
                   /\ types[m].parts[i].type \in DOMAIN types
                   /\ r[types[m].parts[i].type] < e - 1
                   /\ Deep(e - 1, types[m].parts[i].type)
             /\ IsSeq(types[m].parts)
  <2>1. e \in 1 .. N /\ m \in DOMAIN types /\ r[m] < e
    BY <1>2
  <2>2. f[e][m] = FingerprintOf(m, types[m], f[e - 1])
    BY <1>1, <2>1 DEF Unfolded, PrintsOf
  <2>3. FingerprintOf(m, types[m], f[e - 1]) = HeadOf(m, types[m]) \o FlattenSeq(PartPrints(types[m], f[e - 1]))
    BY DEF FingerprintOf, HeadOf, PartPrints
  <2>4. IsSeq(types[m].parts)
    BY <2>1 DEF Unfolded, Shaped
  <2>5. r[m] \in Nat
    BY <2>1 DEF Unfolded, Above
  <2>6. ASSUME NEW i \in 1 .. Len(types[m].parts)
        PROVE  /\ types[m].parts[i].type \in DOMAIN types
               /\ r[types[m].parts[i].type] < e - 1
               /\ e - 1 \in 1 .. N
    <3>1. types[m].parts[i].type \in DOMAIN types /\ r[types[m].parts[i].type] < r[m]
      BY <2>1 DEF Unfolded, Above
    <3>2. PICK c \in Nat : c = r[types[m].parts[i].type]
      BY <3>1 DEF Unfolded, Above
    <3>3. c < e - 1 /\ e - 1 \in 1 .. N
      BY <1>1, <2>1, <2>5, <3>1, <3>2
    <3>4. QED
      BY <3>1, <3>2, <3>3
  <2>7. e - 1 \in Nat /\ e - 1 <= N
    BY <1>1, <2>1
  <2>8. QED
    BY <2>2, <2>3, <2>4, <2>6, <2>7
<1> DEFINE Off == {e \in 1 .. N : \E m \in DOMAIN types : r[m] < e /\ ~IsSeq(f[e][m])}
<1>3. Off = {}
  <2>1. SUFFICES ASSUME Off # {} PROVE FALSE
    OBVIOUS
  <2>2. Off \in SUBSET Nat
    BY <1>1
  <2>3. PICK e \in Off : \A k \in Off : <<k, e>> \notin OpToRel(<, Nat)
    BY <2>1, <2>2, NatLessThanWellFounded, WFMin
  <2>4. PICK m \in DOMAIN types : r[m] < e /\ ~IsSeq(f[e][m])
    OBVIOUS
  <2>5. \A k \in Off : ~(k < e)
    BY <2>2, <2>3 DEF OpToRel
  <2>6. e \in 1 .. N /\ Deep(e, m)
    BY <2>4
  <2>7. e - 1 \notin Off
    BY <1>1, <2>5, <2>6
  <2> HIDE DEF Off
  <2>8. \A i \in 1 .. Len(types[m].parts) : IsSeq(f[e - 1][types[m].parts[i].type])
    <3> SUFFICES ASSUME NEW i \in 1 .. Len(types[m].parts) PROVE IsSeq(f[e - 1][types[m].parts[i].type])
      OBVIOUS
    <3>1. Deep(e - 1, types[m].parts[i].type)
      BY <1>2, <2>6
    <3>2. QED
      BY <2>7, <3>1 DEF Off
  <2>9. IsSeq(types[m].parts)
    BY <1>2, <2>6
  <2>10. IsSeq(FlattenSeq(PartPrints(types[m], f[e - 1])))
    BY <2>8, <2>9, PartPrintsFacts, FlattenIsSeq
  <2>11. IsSeq(HeadOf(m, types[m]))
    BY HeadFacts
  <2>12. f[e][m] = HeadOf(m, types[m]) \o FlattenSeq(PartPrints(types[m], f[e - 1]))
    BY <1>2, <2>6
  <2>13. QED
    BY <2>4, <2>10, <2>11, <2>12, JoinSeqs
<1>4. \A e, m : Deep(e, m) => IsSeq(f[e][m])
  BY <1>3
<1>5. Deep(d, n)
  <2>1. r[n] \in Nat
    BY DEF Unfolded, Above
  <2>2. QED
    BY <1>1, <2>1
<1> HIDE DEF Deep, Off
<1>6. QED
  BY <1>2, <1>4, <1>5

\* Fingerprints x and y that are the same wherever they are in the same place, and
\* just when the layouts a and b are.
Agree(x, y, a, b) ==
    /\ \A w : \A p \in Nat : At(w, p, x) /\ At(w, p, y) => x = y /\ a = b
    /\ a = b => x = y

\* Two types, k parts each, that are alike: in their heads, and in their parts with
\* the layouts a and b of these.
Alike(n, t, a, m, u, b, k) ==
    /\ n = m /\ t.kind = u.kind /\ t.size = u.size /\ t.shape = u.shape
    /\ \A i \in 1 .. k : /\ t.parts[i].label = u.parts[i].label
                         /\ t.parts[i].offset = u.parts[i].offset
                         /\ a[t.parts[i].type] = b[u.parts[i].type]

\* Layouts are the same when heads and parts are.
LEMMA SameLayout ==
    ASSUME NEW n, NEW t, NEW m, NEW u, NEW k \in Nat, DOMAIN t.parts = 1 .. k, DOMAIN u.parts = 1 .. k,
           NEW a, NEW b
    PROVE  LayoutOf(n, t, a) = LayoutOf(m, u, b) <=> Alike(n, t, a, m, u, b, k)
<1> DEFINE P == [i \in 1 .. k |-> [label |-> t.parts[i].label, offset |-> t.parts[i].offset,
                                   layout |-> a[t.parts[i].type]]]
           Q == [i \in 1 .. k |-> [label |-> u.parts[i].label, offset |-> u.parts[i].offset,
                                   layout |-> b[u.parts[i].type]]]
<1>1. P = Q <=> \A i \in 1 .. k : P[i] = Q[i]
  OBVIOUS
<1>2. \A i \in 1 .. k : P[i] = Q[i]
         <=> /\ t.parts[i].label = u.parts[i].label
             /\ t.parts[i].offset = u.parts[i].offset
             /\ a[t.parts[i].type] = b[u.parts[i].type]
  OBVIOUS
<1>3. /\ LayoutOf(n, t, a) = [name |-> n, kind |-> t.kind, size |-> t.size, shape |-> t.shape, parts |-> P]
      /\ LayoutOf(m, u, b) = [name |-> m, kind |-> u.kind, size |-> u.size, shape |-> u.shape, parts |-> Q]
  BY DEF LayoutOf
<1> HIDE DEF P, Q
<1>4. LayoutOf(n, t, a) = LayoutOf(m, u, b)
      <=> n = m /\ t.kind = u.kind /\ t.size = u.size /\ t.shape = u.shape /\ P = Q
  BY <1>3
<1>5. QED
  BY <1>1, <1>2, <1>4 DEF Alike

LEMMA LayoutParts ==
    ASSUME NEW n, NEW t, NEW m, NEW u, NEW a, NEW b, LayoutOf(n, t, a) = LayoutOf(m, u, b)
    PROVE  DOMAIN t.parts = DOMAIN u.parts
<1>1. LayoutOf(n, t, a).parts = LayoutOf(m, u, b).parts
  OBVIOUS
<1>2. DOMAIN LayoutOf(n, t, a).parts = DOMAIN t.parts /\ DOMAIN LayoutOf(m, u, b).parts = DOMAIN u.parts
  BY DEF LayoutOf
<1>3. QED
  BY <1>1, <1>2

\* One type, where its parts agree with those of the other.
LEMMA TypesAgree ==
    ASSUME NEW n, NEW t, NEW inner, NEW a, NEW m, NEW u, NEW other, NEW b,
           IsSeq(t.parts), IsSeq(u.parts),
           \A i \in 1 .. Len(t.parts) : IsSeq(inner[t.parts[i].type]),
           \A i \in 1 .. Len(u.parts) : IsSeq(other[u.parts[i].type]),
           \A i \in 1 .. Len(t.parts) : i \in 1 .. Len(u.parts) =>
               Agree(inner[t.parts[i].type], other[u.parts[i].type], a[t.parts[i].type], b[u.parts[i].type])
    PROVE  Agree(HeadOf(n, t) \o FlattenSeq(PartPrints(t, inner)),
                 HeadOf(m, u) \o FlattenSeq(PartPrints(u, other)),
                 LayoutOf(n, t, a), LayoutOf(m, u, b))
<1>1. PICK k \in Nat : k = Len(t.parts) /\ DOMAIN t.parts = 1 .. k
  BY SeqFacts
<1>2. PICK l \in Nat : l = Len(u.parts) /\ DOMAIN u.parts = 1 .. l
  BY SeqFacts
<1>3. PICK S : S = PartPrints(t, inner)
  OBVIOUS
<1>4. PICK R : R = PartPrints(u, other)
  OBVIOUS
<1>5. AllSeqs(S) /\ Len(S) = k /\ \A i \in 1 .. k : S[i] = PlaceOf(t.parts[i]) \o inner[t.parts[i].type]
  BY <1>1, <1>3, PartPrintsFacts
<1>6. AllSeqs(R) /\ Len(R) = l /\ \A i \in 1 .. l : R[i] = PlaceOf(u.parts[i]) \o other[u.parts[i].type]
  BY <1>2, <1>4, PartPrintsFacts
<1>7. IsSeq(FlattenSeq(S)) /\ IsSeq(FlattenSeq(R))
  BY <1>5, <1>6, FlattenIsSeq
<1>8. IsSeq(HeadOf(n, t)) /\ IsSeq(HeadOf(m, u)) /\ Len(HeadOf(n, t)) = 5 /\ Len(HeadOf(m, u)) = 5
  BY HeadFacts
\* A part: where both are in one place, they are the same throughout.
<1>9. ASSUME NEW i \in 1 .. k, i \in 1 .. l, NEW w, NEW q \in Nat, At(w, q, S[i]), At(w, q, R[i])
      PROVE  /\ S[i] = R[i]
             /\ t.parts[i].label = u.parts[i].label /\ t.parts[i].offset = u.parts[i].offset
             /\ a[t.parts[i].type] = b[u.parts[i].type]
  <2>1. PICK x, y, c, d : /\ x = PlaceOf(t.parts[i]) /\ y = PlaceOf(u.parts[i])
                          /\ c = inner[t.parts[i].type] /\ d = other[u.parts[i].type]
    OBVIOUS
  <2>2. IsSeq(x) /\ IsSeq(y) /\ Len(x) = 2 /\ Len(y) = 2
    BY <2>1, PlaceFacts
  <2>3. IsSeq(c) /\ IsSeq(d)
    BY <1>1, <1>2, <1>9, <2>1
  <2>4. S[i] = x \o c /\ R[i] = y \o d
    BY <1>5, <1>6, <1>9, <2>1
  <2>5. At(w, q, x) /\ At(w, q + 2, c) /\ At(w, q, y) /\ At(w, q + 2, d) /\ q + 2 \in Nat
    <3>1. At(w, q, x \o c) /\ At(w, q, y \o d)
      BY <1>9, <2>4
    <3>2. At(w, q, x) /\ At(w, q + Len(x), c)
      BY <2>2, <2>3, <3>1, AtJoined
    <3>3. At(w, q, y) /\ At(w, q + Len(y), d)
      BY <2>2, <2>3, <3>1, AtJoined
    <3>4. QED
      BY <2>2, <3>2, <3>3
  <2>6. x = y
    BY <2>2, <2>5, AtSame
  <2>7. Agree(c, d, a[t.parts[i].type], b[u.parts[i].type])
    BY <1>1, <1>2, <1>9, <2>1
  <2>8. c = d /\ a[t.parts[i].type] = b[u.parts[i].type]
    BY <2>5, <2>7 DEF Agree
  <2>9. t.parts[i].label = u.parts[i].label /\ t.parts[i].offset = u.parts[i].offset
    BY <2>1, <2>6, SamePlace
  <2>10. QED
    BY <2>4, <2>6, <2>8, <2>9
<1>10. ASSUME NEW w, NEW p \in Nat,
              At(w, p, HeadOf(n, t) \o FlattenSeq(S)), At(w, p, HeadOf(m, u) \o FlattenSeq(R))
       PROVE  /\ HeadOf(n, t) \o FlattenSeq(S) = HeadOf(m, u) \o FlattenSeq(R)
              /\ LayoutOf(n, t, a) = LayoutOf(m, u, b)
  <2>1. /\ At(w, p, HeadOf(n, t)) /\ At(w, p + 5, FlattenSeq(S))
        /\ At(w, p, HeadOf(m, u)) /\ At(w, p + 5, FlattenSeq(R)) /\ p + 5 \in Nat
    BY <1>7, <1>8, <1>10, AtJoined
  <2>2. HeadOf(n, t) = HeadOf(m, u)
    BY <1>8, <2>1, AtSame
  <2>3. n = m /\ t.kind = u.kind /\ t.size = u.size /\ t.shape = u.shape /\ k = l
    BY <1>1, <1>2, <2>2, SameHead
  <2>4. \A i \in 1 .. k : OnePart(S[i], R[i])
    BY <1>9, <2>3 DEF OnePart
  <2>5. /\ FlattenSeq(S) = FlattenSeq(R)
        /\ \A i \in 1 .. k : \E q \in Nat : At(w, q, S[i]) /\ At(w, q, R[i])
    BY <1>5, <1>6, <2>1, <2>3, <2>4, FlattenAgree
  <2>6. \A i \in 1 .. k : /\ t.parts[i].label = u.parts[i].label
                          /\ t.parts[i].offset = u.parts[i].offset
                          /\ a[t.parts[i].type] = b[u.parts[i].type]
    BY <1>9, <2>3, <2>5
  <2>7. DOMAIN t.parts = 1 .. k /\ DOMAIN u.parts = 1 .. k
    BY <1>1, <1>2, <2>3
  <2>8. LayoutOf(n, t, a) = LayoutOf(m, u, b)
    <3>1. LayoutOf(n, t, a) = LayoutOf(m, u, b) <=> Alike(n, t, a, m, u, b, k)
      BY <2>7, SameLayout
    <3>2. Alike(n, t, a, m, u, b, k)
      BY <2>3, <2>6 DEF Alike
    <3>3. QED
      BY <3>1, <3>2
  <2>9. QED
    BY <2>2, <2>5, <2>8
<1>11. ASSUME LayoutOf(n, t, a) = LayoutOf(m, u, b)
       PROVE  HeadOf(n, t) \o FlattenSeq(S) = HeadOf(m, u) \o FlattenSeq(R)
  <2>1. DOMAIN u.parts = 1 .. k
    BY <1>1, <1>11, LayoutParts
  <2>2. k = l
    BY <1>2, <2>1
  <2>3. /\ n = m /\ t.kind = u.kind /\ t.size = u.size /\ t.shape = u.shape
        /\ \A i \in 1 .. k : /\ t.parts[i].label = u.parts[i].label
                             /\ t.parts[i].offset = u.parts[i].offset
                             /\ a[t.parts[i].type] = b[u.parts[i].type]
    <3>1. LayoutOf(n, t, a) = LayoutOf(m, u, b) <=> Alike(n, t, a, m, u, b, k)
      <4>1. DOMAIN t.parts = 1 .. k /\ DOMAIN u.parts = 1 .. k
        BY <1>1, <2>1
      <4>2. QED
        BY <4>1, SameLayout
    <3>2. Alike(n, t, a, m, u, b, k)
      BY <1>11, <3>1
    <3>3. QED
      BY <3>2 DEF Alike
  <2>4. HeadOf(n, t) = HeadOf(m, u)
    BY <1>1, <1>2, <2>2, <2>3, SameHead
  <2>5. ASSUME NEW i \in 1 .. k PROVE S[i] = R[i]
    <3>1. Agree(inner[t.parts[i].type], other[u.parts[i].type], a[t.parts[i].type], b[u.parts[i].type])
      BY <1>1, <1>2, <2>2
    <3>2. inner[t.parts[i].type] = other[u.parts[i].type]
      BY <2>3, <3>1 DEF Agree
    <3>3. PlaceOf(t.parts[i]) = PlaceOf(u.parts[i])
      BY <2>3, SamePlace
    <3>4. QED
      BY <1>5, <1>6, <2>2, <3>2, <3>3
  <2>6. S = R
    BY <1>5, <1>6, <2>2, <2>5, SameSeq DEF AllSeqs
  <2>7. QED
    BY <2>4, <2>6
<1>12. QED
  BY <1>3, <1>4, <1>10, <1>11 DEF Agree

\* Deep enough fingerprints of any two types agree with their layouts.
LEMMA PrintsAgree ==
    ASSUME NEW types, NEW r, NEW f, NEW g, Unfolded(types, r, f, g),
           NEW more, NEW s, NEW h, NEW l, Unfolded(more, s, h, l),
           NEW n \in DOMAIN types, NEW m \in DOMAIN more,
           NEW N \in Nat, N = Cardinality(DOMAIN types), NEW M \in Nat, M = Cardinality(DOMAIN more)
    PROVE  Agree(f[N][n], h[M][m], g[N][n], l[M][m])
<1> DEFINE Pairs(d) == \A x \in DOMAIN types, y \in DOMAIN more, e \in 0 .. M :
               r[x] < d /\ s[y] < e => Agree(f[d][x], h[e][y], g[d][x], l[e][y])
           Off == {d \in 0 .. N : ~Pairs(d)}
<1>1. Off = {}
  <2>1. SUFFICES ASSUME Off # {} PROVE FALSE
    OBVIOUS
  <2>2. Off \in SUBSET Nat
    OBVIOUS
  <2>3. PICK d \in Off : \A k \in Off : <<k, d>> \notin OpToRel(<, Nat)
    BY <2>1, <2>2, NatLessThanWellFounded, WFMin
  <2>4. PICK x \in DOMAIN types, y \in DOMAIN more, e \in 0 .. M :
           r[x] < d /\ s[y] < e /\ ~Agree(f[d][x], h[e][y], g[d][x], l[e][y])
    OBVIOUS
  <2>5. \A k \in Off : ~(k < d)
    BY <2>2, <2>3 DEF OpToRel
  <2>6. d \in Nat /\ d <= N /\ e \in Nat /\ e <= M
    OBVIOUS
  <2>7. /\ d - 1 \in Nat
        /\ f[d][x] = HeadOf(x, types[x]) \o FlattenSeq(PartPrints(types[x], f[d - 1]))
        /\ \A i \in 1 .. Len(types[x].parts) :
              /\ types[x].parts[i].type \in DOMAIN types
              /\ r[types[x].parts[i].type] < d - 1
              /\ IsSeq(f[d - 1][types[x].parts[i].type])
    BY <2>4, <2>6, PrintFacts
  <2>8. /\ e - 1 \in Nat
        /\ h[e][y] = HeadOf(y, more[y]) \o FlattenSeq(PartPrints(more[y], h[e - 1]))
        /\ \A i \in 1 .. Len(more[y].parts) :
              /\ more[y].parts[i].type \in DOMAIN more
              /\ s[more[y].parts[i].type] < e - 1
              /\ IsSeq(h[e - 1][more[y].parts[i].type])
    BY <2>4, <2>6, PrintFacts
  <2>9. d \in 1 .. N /\ e \in 1 .. M /\ d - 1 \in 0 .. N /\ e - 1 \in 0 .. M
    BY <2>6, <2>7, <2>8
  <2>10. g[d][x] = LayoutOf(x, types[x], g[d - 1]) /\ l[e][y] = LayoutOf(y, more[y], l[e - 1])
    BY <2>9 DEF Unfolded, LayoutsOf
  <2>11. d - 1 \notin Off
    BY <2>5, <2>6
  <2>12. Pairs(d - 1)
    BY <2>9, <2>11
  <2>13. IsSeq(types[x].parts) /\ IsSeq(more[y].parts)
    BY DEF Unfolded, Shaped
  <2>14. \A i \in 1 .. Len(types[x].parts) : i \in 1 .. Len(more[y].parts) =>
            Agree(f[d - 1][types[x].parts[i].type], h[e - 1][more[y].parts[i].type],
                  g[d - 1][types[x].parts[i].type], l[e - 1][more[y].parts[i].type])
    BY <2>7, <2>8, <2>9, <2>12
  <2> HIDE DEF Pairs, Off
  <2>15. Agree(HeadOf(x, types[x]) \o FlattenSeq(PartPrints(types[x], f[d - 1])),
               HeadOf(y, more[y]) \o FlattenSeq(PartPrints(more[y], h[e - 1])),
               LayoutOf(x, types[x], g[d - 1]), LayoutOf(y, more[y], l[e - 1]))
    BY <2>7, <2>8, <2>13, <2>14, TypesAgree
  <2>16. QED
    BY <2>4, <2>7, <2>8, <2>10, <2>15
<1>2. N \in 0 .. N /\ M \in 0 .. M /\ N \notin Off
  BY <1>1
<1>3. r[n] < N /\ s[m] < M
  BY DEF Unfolded, Above
<1>4. QED
  BY <1>2, <1>3

-----------------------------------------------------------------------------
(* Operation ids. *)

CallOf(o) ==
    <<<<"api", o.api>>, <<"wire", o.wire>>, <<"version", o.version>>,
      <<"capability", o.capability>>, <<"limits", o.limits>>>>

LEMMA CallFacts ==
    ASSUME NEW o
    PROVE  IsSeq(CallOf(o)) /\ Len(CallOf(o)) = 5
<1> DEFINE a == <<"api", o.api>>  b == <<"wire", o.wire>>  c == <<"version", o.version>>
           d == <<"capability", o.capability>>  e == <<"limits", o.limits>>
<1>1. CallOf(o) = <<a, b, c, d, e>>
  BY DEF CallOf
<1> HIDE DEF a, b, c, d, e
<1>2. <<a, b, c, d, e>> \in Seq({a, b, c, d, e}) /\ Len(<<a, b, c, d, e>>) = 5
  OBVIOUS
<1>3. QED
  BY <1>1, <1>2 DEF IsSeq

LEMMA SameCall ==
    ASSUME NEW o, NEW q
    PROVE  CallOf(o) = CallOf(q)
           <=> <<o.api, o.wire, o.version, o.capability, o.limits>>
                 = <<q.api, q.wire, q.version, q.capability, q.limits>>
  BY DEF CallOf

\* Types that are in order have fingerprints which agree with their layouts.
LEMMA FingerprintsAgree ==
    ASSUME NEW types, Shaped(types), ValidTypes(types), NEW more, Shaped(more), ValidTypes(more),
           NEW n \in DOMAIN types, NEW m \in DOMAIN more
    PROVE  /\ Agree(Fingerprint(types, n), Fingerprint(more, m), Layout(types, n), Layout(more, m))
           /\ IsSeq(Fingerprint(types, n)) /\ IsSeq(Fingerprint(more, m))
<1>1. PICK N \in Nat : N = Cardinality(DOMAIN types)
  BY FS_CardinalityType DEF Shaped
<1>2. PICK M \in Nat : M = Cardinality(DOMAIN more)
  BY FS_CardinalityType DEF Shaped
<1>3. PICK r : Above(r, types)
  BY OrderExists
<1>4. PICK s : Above(s, more)
  BY OrderExists
<1>5. PICK f : PrintsOf(f, types, N) /\ \A x : Fingerprint(types, x) = f[N][x]
  BY <1>1, FingerprintIsLast
<1>6. PICK g : LayoutsOf(g, types, N) /\ \A x : Layout(types, x) = g[N][x]
  BY <1>1, LayoutIsLast
<1>7. PICK h : PrintsOf(h, more, M) /\ \A x : Fingerprint(more, x) = h[M][x]
  BY <1>2, FingerprintIsLast
<1>8. PICK l : LayoutsOf(l, more, M) /\ \A x : Layout(more, x) = l[M][x]
  BY <1>2, LayoutIsLast
<1>9. Unfolded(types, r, f, g) /\ Unfolded(more, s, h, l)
  BY <1>1, <1>2, <1>3, <1>4, <1>5, <1>6, <1>7, <1>8 DEF Unfolded
<1>10. Agree(f[N][n], h[M][m], g[N][n], l[M][m])
  BY <1>1, <1>2, <1>9, PrintsAgree
<1>11. IsSeq(f[N][n]) /\ IsSeq(h[M][m])
  <2>1. r[n] < N /\ N <= N /\ s[m] < M /\ M <= M
    BY <1>1, <1>2, <1>3, <1>4 DEF Above
  <2>2. IsSeq(f[N][n])
    BY <1>1, <1>9, <2>1, PrintFacts
  <2>3. IsSeq(h[M][m])
    BY <1>2, <1>9, <2>1, PrintFacts
  <2>4. QED
    BY <2>2, <2>3
<1>12. QED
  BY <1>5, <1>6, <1>7, <1>8, <1>10, <1>11

\* Two operations have one id just when calls and layouts are the same.
LEMMA IdsAgree ==
    ASSUME NEW types, Shaped(types), ValidTypes(types), NEW more, Shaped(more), ValidTypes(more),
           NEW o, o.request \in DOMAIN types, o.response \in DOMAIN types,
           NEW q, q.request \in DOMAIN more, q.response \in DOMAIN more
    PROVE  OperationId(types, o) = OperationId(more, q)
           <=> /\ CallOf(o) = CallOf(q)
               /\ Layout(types, o.request) = Layout(more, q.request)
               /\ Layout(types, o.response) = Layout(more, q.response)
<1>1. PICK a, b, c, d : /\ a = Fingerprint(types, o.request) /\ b = Fingerprint(types, o.response)
                        /\ c = Fingerprint(more, q.request) /\ d = Fingerprint(more, q.response)
  OBVIOUS
<1>2. PICK x, y : x = CallOf(o) /\ y = CallOf(q)
  OBVIOUS
<1>3. OperationId(types, o) = (x \o a) \o b /\ OperationId(more, q) = (y \o c) \o d
  BY <1>1, <1>2 DEF OperationId, CallOf
<1>4. /\ IsSeq(a) /\ IsSeq(c)
      /\ Agree(a, c, Layout(types, o.request), Layout(more, q.request))
  BY <1>1, FingerprintsAgree
<1>5. /\ IsSeq(b) /\ IsSeq(d)
      /\ Agree(b, d, Layout(types, o.response), Layout(more, q.response))
  BY <1>1, FingerprintsAgree
<1>6. IsSeq(x) /\ IsSeq(y) /\ Len(x) = 5 /\ Len(y) = 5
  BY <1>2, CallFacts
<1>7. IsSeq(x \o a) /\ IsSeq(y \o c)
  BY <1>4, <1>6, JoinSeqs
<1>8. ASSUME (x \o a) \o b = (y \o c) \o d
      PROVE  /\ x = y
             /\ Layout(types, o.request) = Layout(more, q.request)
             /\ Layout(types, o.response) = Layout(more, q.response)
  <2>1. PICK w : w = [i \in Nat |-> ((x \o a) \o b)[i]]
    OBVIOUS
  <2>2. At(w, 0, (x \o a) \o b)
    <3>1. IsSeq((x \o a) \o b)
      BY <1>5, <1>7, JoinSeqs
    <3>2. Len((x \o a) \o b) \in Nat
      BY <3>1, SeqFacts
    <3>3. \A i \in 1 .. Len((x \o a) \o b) : 0 + i \in Nat /\ 0 + i = i
      BY <3>2
    <3>4. QED
      BY <2>1, <3>3 DEF At
  <2>3. At(w, 0, (y \o c) \o d)
    BY <1>8, <2>2
  <2>4. At(w, 0, x \o a) /\ At(w, 0 + Len(x \o a), b) /\ 0 + Len(x \o a) \in Nat
    BY <1>5, <1>7, <2>2, AtJoined
  <2>5. At(w, 0, y \o c) /\ At(w, 0 + Len(y \o c), d)
    BY <1>5, <1>7, <2>3, AtJoined
  <2>6. At(w, 0, x) /\ At(w, 0 + Len(x), a) /\ 0 + Len(x) \in Nat
    BY <1>4, <1>6, <2>4, AtJoined
  <2>7. At(w, 0, y) /\ At(w, 0 + Len(y), c)
    BY <1>4, <1>6, <2>5, AtJoined
  <2>8. x = y
    BY <1>6, <2>6, <2>7, AtSame
  <2>9. a = c /\ Layout(types, o.request) = Layout(more, q.request)
    BY <1>4, <2>6, <2>7, <2>8 DEF Agree
  <2>10. Layout(types, o.response) = Layout(more, q.response)
    BY <1>5, <2>4, <2>5, <2>8, <2>9 DEF Agree
  <2>11. QED
    BY <2>8, <2>9, <2>10
<1>9. ASSUME x = y, Layout(types, o.request) = Layout(more, q.request),
             Layout(types, o.response) = Layout(more, q.response)
      PROVE  (x \o a) \o b = (y \o c) \o d
  BY <1>4, <1>5, <1>9 DEF Agree
<1>10. QED
  BY <1>2, <1>3, <1>8, <1>9

-----------------------------------------------------------------------------
(* Schemas. *)

\* A schema's types and operations are those of a bridge that was in order, and
\* its ids were computed from them.
SchemaOf(s, b) ==
    /\ BridgeOK(b) /\ s.types = b.types
    /\ \A entry \in s.operations :
          entry.operation \in ToSet(b.operations) /\ entry.id = OperationId(b.types, entry.operation)
IdsInv ==
    /\ gen.pc = "write" => BridgeOK(gen.bridge)
    /\ schema \notin {Missing, Torn} => \E b \in Bridges : SchemaOf(schema, b)

LEMMA SchemaOfBuilt ==
    ASSUME NEW i, NEW p, NEW b, BridgeOK(b)
    PROVE  SchemaOf(BuildSchema(i, p, b), b)
<1>1. PICK s : s = BuildSchema(i, p, b)
  OBVIOUS
<1>2. s.types = b.types /\ s.operations = SchemaOperations(b.types, ToSet(b.operations), i.symbols)
  BY <1>1 DEF BuildSchema
<1>3. \A entry \in s.operations :
          entry.operation \in ToSet(b.operations) /\ entry.id = OperationId(b.types, entry.operation)
  <2> SUFFICES ASSUME NEW entry \in s.operations
               PROVE  entry.operation \in ToSet(b.operations) /\ entry.id = OperationId(b.types, entry.operation)
    OBVIOUS
  <2>1. PICK o \in ToSet(b.operations) :
           entry = [operation |-> o, id |-> OperationId(b.types, o), symbol |-> i.symbols[o.api].abi]
    BY <1>2 DEF SchemaOperations
  <2>2. QED
    BY <2>1
<1>4. QED
  BY <1>1, <1>2, <1>3 DEF SchemaOf

\* Every schema that is whole has the ids of a bridge in order.
THEOREM IdsInductive == PackageSpec => []IdsInv
<1>1. PackageInit => IdsInv
  <2> SUFFICES ASSUME PackageInit PROVE IdsInv
    OBVIOUS
  <2>1. gen.pc # "write"
    BY DEF PackageInit, IdleGen
  <2>2. bridge \in Bridges
    BY DEF PackageInit
  <2>3. ASSUME schema \notin {Missing, Torn} PROVE SchemaOf(schema, bridge)
    <3>1. \E i, p : BridgeOK(bridge) /\ schema = BuildSchema(i, p, bridge)
      BY <2>3 DEF PackageInit
    <3>2. QED
      BY <3>1, SchemaOfBuilt
  <2>4. QED
    BY <2>1, <2>2, <2>3 DEF IdsInv
<1>2. PackageInv /\ IdsInv /\ [PackageNext]_packageVars => IdsInv'
  <2> SUFFICES ASSUME PackageInv, IdsInv, [PackageNext]_packageVars PROVE IdsInv'
    OBVIOUS
  <2>1. ASSUME UNCHANGED schema, gen'.pc # "write" \/ UNCHANGED gen PROVE IdsInv'
    BY <2>1 DEF IdsInv
  <2>2. CASE GenerateBridge
    <3>1. CASE BridgeOK(bridge) /\ CanBuild(gen.interface, gen.package, bridge)
      <4>1. schema' = Torn /\ gen' = [gen EXCEPT !.pc = "write", !.bridge = bridge]
        BY <2>2, <3>1 DEF GenerateBridge
      <4>2. gen'.bridge = bridge
        BY <4>1 DEF PackageInv, GenInv
      <4>3. BridgeOK(gen'.bridge)
        BY <3>1, <4>2
      <4>4. QED
        BY <4>1, <4>3 DEF IdsInv
    <3>2. CASE ~(BridgeOK(bridge) /\ CanBuild(gen.interface, gen.package, bridge))
      <4>1. UNCHANGED schema /\ gen' = IdleGen
        BY <2>2, <3>2 DEF GenerateBridge
      <4>2. QED
        BY <2>1, <4>1 DEF IdleGen
    <3>3. QED
      BY <3>1, <3>2
  <2>3. CASE GenerateWrite
    <3>1. schema' = BuildSchema(gen.interface, gen.package, gen.bridge) /\ gen' = IdleGen
          /\ gen.bridge \in Bridges /\ BridgeOK(gen.bridge)
      BY <2>3 DEF GenerateWrite, PackageInv, GenInv, IdsInv
    <3>2. PICK b \in Bridges : b = gen.bridge /\ BridgeOK(b)
      BY <3>1
    <3>3. SchemaOf(schema', b)
      BY <3>1, <3>2, SchemaOfBuilt
    <3>4. gen'.pc # "write"
      BY <3>1 DEF IdleGen
    <3>5. QED
      BY <3>3, <3>4 DEF IdsInv
  <2>4. CASE \E t \in Target, bound \in BOOLEAN : GenerateInterface(t, bound)
    <3>1. UNCHANGED schema /\ gen'.pc # "write"
      BY <2>4 DEF GenerateInterface, IdleGen, files
    <3>2. QED
      BY <2>1, <3>1
  <2>5. CASE GeneratePackage \/ GenerateKilled
    <3>1. UNCHANGED schema
      BY <2>5 DEF GeneratePackage, GenerateKilled, files
    <3>2. gen'.pc # "write"
      <4>1. DOMAIN gen = {"pc", "interface", "package", "bridge"}
        BY DEF PackageInv, GenInv
      <4>2. gen' = [gen EXCEPT !.pc = "bridge", !.package = package] \/ gen' = IdleGen
        BY <2>5 DEF GeneratePackage, GenerateKilled
      <4>3. [gen EXCEPT !.pc = "bridge", !.package = package].pc = "bridge"
        BY <4>1
      <4>4. IdleGen.pc = "idle"
        BY DEF IdleGen
      <4>5. PICK g : g = [gen EXCEPT !.pc = "bridge", !.package = package]
        OBVIOUS
      <4>6. gen' = g \/ gen' = IdleGen
        BY <4>2, <4>5
      <4>7. gen'.pc = "bridge" \/ gen'.pc = "idle"
        BY <4>3, <4>4, <4>5, <4>6
      <4>8. QED
        BY <4>7
    <3>3. QED
      BY <2>1, <3>1, <3>2
  <2>6. CASE UNCHANGED <<schema, gen>>
    BY <2>1, <2>6
  <2>7. QED
    BY <2>2, <2>3, <2>4, <2>5, <2>6 DEF PackageNext, Edit, Develop, Generate, Check, packageVars, files,
       CheckPackage, CheckInterface, CheckBridge, CheckEki, CheckArtifact, Reading,
       UpdateKernel, Rebuild, EditBridge, EnterArtifacts, EnterBridge, EnterInterface, EditManifest
<1>3. QED
  BY <1>1, <1>2, PackageInductive, PTL DEF PackageSpec

LEMMA BridgeShaped ==
    ASSUME NEW b \in Bridges, BridgeOK(b)
    PROVE  /\ Shaped(b.types) /\ ValidTypes(b.types)
           /\ \A o \in ToSet(b.operations) : o.request \in DOMAIN b.types /\ o.response \in DOMAIN b.types
<1>1. Shaped(b.types)
  BY PackageAssumption DEF Shaped, IsSeq
<1>2. QED
  BY <1>1 DEF BridgeOK, ValidOperations

\* An operation has the id that an old schema has for one just when the two agree
\* on the call and on all that the layouts of request and response are made of,
\* for any types that do not contain one another: a module and its runtime, which
\* find one another by these ids, never disagree on a byte (operation_id,
\* append_type_fingerprint).
THEOREM SameIdSameLayoutHolds == PackageSpec => []SameIdSameLayout
<1>1. PackageInv /\ IdsInv => SameIdSameLayout
  <2> SUFFICES ASSUME PackageInv, IdsInv, schema \notin {Missing, Torn}, BridgeOK(bridge),
                      NEW entry \in schema.operations, NEW o \in ToSet(bridge.operations),
                      NEW old, old = entry.operation
               PROVE  entry.id = OperationId(bridge.types, o)
                      <=> /\ <<old.api, old.wire, old.version, old.capability, old.limits>>
                               = <<o.api, o.wire, o.version, o.capability, o.limits>>
                          /\ Layout(schema.types, old.request) = Layout(bridge.types, o.request)
                          /\ Layout(schema.types, old.response) = Layout(bridge.types, o.response)
    BY DEF SameIdSameLayout
  <2>1. PICK b \in Bridges : SchemaOf(schema, b)
    BY DEF IdsInv
  <2>2. BridgeOK(b) /\ schema.types = b.types /\ old \in ToSet(b.operations)
        /\ entry.id = OperationId(b.types, old)
    BY <2>1 DEF SchemaOf
  <2>3. bridge \in Bridges
    BY DEF PackageInv, FilesTyped
  <2>4. Shaped(b.types) /\ ValidTypes(b.types) /\ old.request \in DOMAIN b.types /\ old.response \in DOMAIN b.types
    BY <2>2, BridgeShaped
  <2>5. /\ Shaped(bridge.types) /\ ValidTypes(bridge.types)
        /\ o.request \in DOMAIN bridge.types /\ o.response \in DOMAIN bridge.types
    BY <2>3, BridgeShaped
  <2>6. OperationId(b.types, old) = OperationId(bridge.types, o)
        <=> /\ CallOf(old) = CallOf(o)
            /\ Layout(b.types, old.request) = Layout(bridge.types, o.request)
            /\ Layout(b.types, old.response) = Layout(bridge.types, o.response)
    BY <2>4, <2>5, IdsAgree
  <2>7. QED
    BY <2>2, <2>6, SameCall
<1>2. QED
  BY <1>1, PackageInductive, IdsInductive, PTL
=============================================================================
