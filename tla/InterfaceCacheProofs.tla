------------------------ MODULE InterfaceCacheProofs ------------------------
(***************************************************************************)
(* The interface cache of a project, for any targets, profiles, packages   *)
(* and repositories, any number of commands, failures, skipped lookups and *)
(* kills, and any moves of the kernel between the commands.                *)
(***************************************************************************)
EXTENDS InterfaceCache, FiniteSetTheorems, SequenceTheorems, WellFoundedInduction, TLAPS

\* The world, the command and what it has chosen stay, and what has been missed
\* is not forgotten.
Kept == UNCHANGED <<world, call, chosen>> /\ missed \subseteq missed'

\* So does what a link leads to.
Quiet == Kept /\ link' = link

\* The parts of FoundInv that do not depend on the step.
FoundCore ==
    /\ chosen.commit # 0
    /\ call.project => \A t \in Target : Loads(t) => Suits(<<t, link[t]>>)
SearchCore == \A t \in Target : Found(t) => \A q \in Available(t) : Suits(<<t, q>>)

\* What is still to be built suits.
TodoCore == \A i \in DOMAIN todo : Suits(todo[i]) /\ Wanted(todo[i][2])

-----------------------------------------------------------------------------
(* What a command finds. *)

LEMMA LowestIsLeast ==
    ASSUME NEW S, S \subseteq Nat, S # {}
    PROVE  Lowest(S) \in S /\ \A q \in S : Lowest(S) <= q
<1>1. S \in SUBSET Nat /\ S # {}
  OBVIOUS
<1>2. PICK i \in S : \A j \in S : <<j, i>> \notin OpToRel(<, Nat)
  BY <1>1, NatLessThanWellFounded, WFMin
<1>3. \A j \in S : ~(j < i)
  BY <1>1, <1>2 DEF OpToRel
<1>4. \A j \in S : i <= j
  BY <1>1, <1>3
<1>5. QED
  BY <1>4 DEF Lowest

\* A link that loads leads to a package with a commit.
LEMMA LinkLoads ==
    ASSUME CacheTyped, NEW t \in Target, Loads(t)
    PROVE  /\ link[t] \in Package /\ <<t, link[t]>> \in Target \X Package
           /\ CommitOf(<<t, link[t]>>) # 0 /\ <<t, link[t]>> \in Links
<1>1. link[t] \in Package /\ repository[t][link[t]] # 0
  BY DEF CacheTyped, Loads
<1>2. QED
  BY <1>1 DEF CommitOf, Links, Exists

\* Whatever is available has a commit, and is in the directory searched.
LEMMA AvailableIsThere ==
    ASSUME CacheTyped, NEW t \in Target, NEW q \in Available(t)
    PROVE  /\ q \in Package /\ <<t, q>> \in Target \X Package /\ CommitOf(<<t, q>>) # 0
           /\ ~call.project => <<t, q>> \in call.root
  BY DEF Available, CommitOf, Searched

\* From within the project each link that loads is found, and nothing else of
\* its target.
LEMMA ProjectFinds ==
    ASSUME CacheTyped, call.project, Links # {}, NEW t \in Target
    PROVE  /\ Found(t) <=> Loads(t)
           /\ Loads(t) => Available(t) = {link[t]}
<1>1. Searched = Links /\ ~call.single
  BY DEF Searched, CacheTyped
<1>2. \A x \in Links : x[1] = t => x = <<t, link[t]>>
  BY DEF Links
<1>3. ASSUME Loads(t) PROVE Available(t) = {link[t]} /\ ~Fails(t)
  <2>1. link[t] \in Package /\ <<t, link[t]>> \in Links /\ repository[t][link[t]] # 0
    BY <1>3, LinkLoads DEF Loads
  <2>2. \A q \in Package : <<t, q>> \in Links => q = link[t]
    BY DEF Links
  <2>3. Available(t) = {link[t]}
    BY <1>1, <2>1, <2>2 DEF Available
  <2>4. <<t, link[t]>> \notin outdated
    BY <2>1 DEF CacheTyped
  <2>5. QED
    BY <1>1, <1>2, <2>3, <2>4 DEF Fails
<1>4. ASSUME Found(t) PROVE Loads(t)
  <2>1. PICK q \in Available(t) : TRUE
    BY <1>4 DEF Found
  <2>2. q \in Package /\ <<t, q>> \in Links /\ repository[t][q] # 0
    BY <1>1, <2>1 DEF Available
  <2>3. link[t] = q /\ q # 0
    BY <2>2, CacheAssumption DEF Links
  <2>4. QED
    BY <2>2, <2>3 DEF Loads
<1>5. QED
  BY <1>3, <1>4 DEF Found

\* Without a link that leads anywhere none loads.
LEMMA NoLinks ==
    ASSUME CacheTyped, Links = {}, NEW t \in Target
    PROVE  ~Loads(t)
  BY LinkLoads

\* What is available suits what was chosen, but while a link is missing that
\* is being replaced.
LEMMA AvailableSuits ==
    ASSUME CacheTyped, FoundCore, SearchesRoot => SearchCore, pc # "link",
           NEW t \in Target, Found(t), NEW q \in Available(t)
    PROVE  Suits(<<t, q>>)
<1>1. CASE SearchesRoot
  BY <1>1 DEF SearchCore
<1>2. CASE ~SearchesRoot
  <2>1. call.project /\ Links # {}
    BY <1>2 DEF SearchesRoot
  <2>2. Loads(t) /\ q = link[t]
    BY <2>1, ProjectFinds
  <2>3. QED
    BY <2>1, <2>2 DEF FoundCore
<1>3. QED
  BY <1>1, <1>2

LEMMA WantsTyped ==
    ASSUME CacheTyped
    PROVE  /\ wants \in Seq({ProfileOf[q] : q \in Package}) /\ DOMAIN wants \subseteq Nat
           /\ DOMAIN wants = 1 .. Len(wants) /\ Len(wants) \in Nat
<1>1. wants \in Seq({ProfileOf[q] : q \in Package})
  BY CacheAssumption DEF CacheTyped
<1>2. QED
  BY <1>1

LEMMA TargetsTyped ==
    /\ Targets \in Seq(Target) /\ DOMAIN Targets = 1 .. Len(Targets) /\ Len(Targets) \in Nat
    /\ \A i \in DOMAIN Targets : Targets[i] \in Target
    /\ \A t \in Target : \E i \in DOMAIN Targets : t = Targets[i]
    /\ \A i, j \in DOMAIN Targets : Targets[i] = Targets[j] => i = j
<1>1. Targets \in Seq(Target)
  BY CacheAssumption
<1>2. QED
  BY <1>1, CacheAssumption DEF Target

\* The package that a sync installs is one it found.
LEMMA ChoiceIsAvailable ==
    ASSUME CacheTyped, NEW t \in Target, Available(t) # {}
    PROVE  Choice(t) \in Available(t)
<1>0. Available(t) \subseteq Nat
  BY AvailableIsThere, CacheAssumption
<1>1. CASE Asked(t) = {}
  <2>1. Lowest(Available(t)) \in Available(t)
    BY <1>0, LowestIsLeast
  <2>2. QED
    BY <1>1, <2>1 DEF Choice
<1>2. CASE Asked(t) # {}
  <2> DEFINE with == {q \in Available(t) : ProfileOf[q] = wants[Lowest(Asked(t))]}
  <2>1. Asked(t) \subseteq Nat
    BY WantsTyped DEF Asked
  <2>2. Lowest(Asked(t)) \in Asked(t)
    BY <1>2, <2>1, LowestIsLeast
  <2>3. with # {} /\ with \subseteq Nat
    BY <1>0, <2>2 DEF Asked
  <2>4. Lowest(with) \in with
    BY <2>3, LowestIsLeast
  <2>5. QED
    BY <1>2, <2>4 DEF Choice
<1>3. QED
  BY <1>1, <1>2

LEMMA FirstPackageIsPackage ==
    ASSUME NEW S, S \subseteq Target \X Package, S # {}
    PROVE  FirstPackage(S) \in S
<1> DEFINE places == {i \in DOMAIN Targets : \E x \in S : x[1] = Targets[i]}
<1> DEFINE t == Targets[Lowest(places)]
<1> DEFINE found == {q \in Package : <<t, q>> \in S}
<1>2. places # {} /\ places \subseteq Nat
  BY TargetsTyped
<1>3. Lowest(places) \in places
  BY <1>2, LowestIsLeast
<1>4. PICK x \in S : x[1] = t
  BY <1>3
<1>5. x = <<t, x[2]>> /\ x[2] \in Package
  BY <1>4
<1>6. found # {} /\ found \subseteq Nat
  BY <1>4, <1>5, CacheAssumption
<1>7. Lowest(found) \in found
  BY <1>6, LowestIsLeast
<1>8. QED
  BY <1>7 DEF FirstPackage

-----------------------------------------------------------------------------
(* What stays with the world, the command and the links. *)

LEMMA QuietSearch ==
    ASSUME UNCHANGED <<world, call, link>>
    PROVE  /\ Links' = Links /\ Searched' = Searched
           /\ \A t \in Target : /\ Loads(t)' = Loads(t) /\ Available(t)' = Available(t)
                                /\ Fails(t)' = Fails(t) /\ Found(t)' = Found(t)
<1>1. Links' = Links
  BY DEF Links, Exists, world
<1>2. Searched' = Searched
  BY <1>1 DEF Searched
<1>3. \A t \in Target : Loads(t)' = Loads(t) /\ Available(t)' = Available(t) /\ Fails(t)' = Fails(t)
  BY <1>2 DEF Loads, Available, Fails, Exists, world
<1>4. QED
  BY <1>1, <1>2, <1>3 DEF Found

\* Outside a project the links do not matter.
LEMMA RootSearch ==
    ASSUME UNCHANGED <<world, call>>, ~call.project
    PROVE  \A t \in Target : Available(t)' = Available(t) /\ Fails(t)' = Fails(t) /\ Found(t)' = Found(t)
<1>1. Searched = call.root /\ Searched' = call.root
  BY DEF Searched
<1>2. \A t \in Target : Available(t)' = Available(t) /\ Fails(t)' = Fails(t)
  BY <1>1 DEF Available, Fails, Exists, world
<1>3. QED
  BY <1>2 DEF Found

LEMMA KeptSuits ==
    ASSUME Kept, NEW x
    PROVE  Suits(x) => Suits(x)'
  BY DEF Suits, CommitOf, Wanted, Kept, world

LEMMA KeptWanted ==
    ASSUME UNCHANGED world, NEW q
    PROVE  Wanted(q)' = Wanted(q)
  BY DEF Wanted, world

\* A step that skips lookups.
LEMMA SkippedKept ==
    ASSUME NEW T, Skipped(T)
    PROVE  UNCHANGED <<world, call, had>> /\ missed' = missed \cup T
  BY DEF Skipped

-----------------------------------------------------------------------------
(* Types. *)

LEMMA PackagesTyped ==
    ASSUME CacheTyped, NEW T, NEW x \in Packages(T)
    PROVE  /\ x \in Target \X Package /\ x[1] \in Target /\ x[2] \in Available(x[1]) /\ x = <<x[1], x[2]>>
           /\ CommitOf(x) # 0
<1>1. x \in Target \X Package /\ x[1] \in Target /\ x[2] \in Available(x[1]) /\ x = <<x[1], x[2]>>
  BY DEF Packages
<1>2. QED
  BY <1>1 DEF Available, CommitOf

LEMMA FrameworkOfTyped ==
    ASSUME CacheTyped, NEW x \in Target \X Package
    PROVE  IsFramework(FrameworkOf(x)) /\ FrameworkOf(x).commit = CommitOf(x)
<1>1. CommitOf(x) \in Nat
  BY DEF CommitOf, CacheTyped
<1>2. QED
  BY <1>1 DEF FrameworkOf, IsFramework

LEMMA NoFrameworkTyped == IsFramework(NoFramework) /\ NoFramework.commit = 0
  BY DEF NoFramework, IsFramework

\* A framework with another identity, or with that of another host.
LEMMA IdentityTyped ==
    ASSUME NEW f, IsFramework(f), NEW t \in Target, NEW h
    PROVE  LET with == [f EXCEPT !.identity = [f.identity EXCEPT ![t] = h]] IN
           /\ IsFramework(with) /\ with.commit = f.commit /\ with.host = f.host
           /\ with.identity[t] = h
           /\ \A u \in Target \ {t} : with.identity[u] = f.identity[u]
<1> DEFINE identity == [f.identity EXCEPT ![t] = h]
<1> DEFINE with == [f EXCEPT !.identity = identity]
<1>1. f = [commit |-> f.commit, identity |-> f.identity, host |-> f.host] /\ f.commit \in Nat
  BY DEF IsFramework
<1>2. f.identity = [u \in Target |-> f.identity[u]]
  BY DEF IsFramework
<1>3. /\ identity = [u \in Target |-> identity[u]] /\ identity[t] = h
      /\ \A u \in Target \ {t} : identity[u] = f.identity[u]
  BY <1>2
<1> HIDE DEF identity
<1>4. with = [commit |-> f.commit, identity |-> identity, host |-> f.host]
  BY <1>1
<1>5. with.commit = f.commit /\ with.identity = identity /\ with.host = f.host
  BY <1>4
<1>6. IsFramework(with)
  BY <1>1, <1>3, <1>4, <1>5 DEF IsFramework
<1>7. QED
  BY <1>3, <1>5, <1>6 DEF identity

LEMMA HostTyped ==
    ASSUME NEW f, IsFramework(f), NEW h
    PROVE  LET with == [f EXCEPT !.host = h] IN
           IsFramework(with) /\ with.commit = f.commit /\ with.host = h /\ with.identity = f.identity
<1> DEFINE with == [f EXCEPT !.host = h]
<1>1. f = [commit |-> f.commit, identity |-> f.identity, host |-> f.host]
  BY DEF IsFramework
<1>2. with = [commit |-> f.commit, identity |-> f.identity, host |-> h]
  BY <1>1
<1>3. QED
  BY <1>2 DEF IsFramework

\* The job of a step that installs something.
LEMMA JobTyped ==
    ASSUME CacheTyped, FoundInv, AtJob
    PROVE  /\ job \in Target \X Package /\ job[1] \in Target /\ job[2] \in Package /\ job = <<job[1], job[2]>>
           /\ Suits(job) /\ CommitOf(job) # 0 /\ job[2] # 0 /\ job # <<>>
<1>1. pc \notin Waiting \cup {"choose"}
  BY DEF AtJob, Waiting, Installing
<1>2. Suits(job)
  BY <1>1 DEF FoundInv
<1>3. job \in Target \X Package /\ CommitOf(job) # 0
  BY <1>2 DEF Suits
<1>4. job[2] \in Package /\ 0 \notin Package
  BY <1>3, CacheAssumption
<1>5. QED
  BY <1>2, <1>3, <1>4

LEMMA BeginTyped == ASSUME CacheTyped, Begin PROVE CacheTyped'
<1>1. /\ world' = world /\ local' = local /\ loop' = "sync" /\ index' = 1 /\ installed' = FALSE /\ todo' = <<>>
      /\ job' = <<>> /\ chosen' = NoFramework
      /\ aside' = [framework |-> NoFramework, sources |-> <<>>] /\ pc' = "choose"
  BY DEF Begin, Go, world, local
<1>2. PICK targets \in {<<>>, Targets} \cup {<<t>> : t \in Target}, kernel \in BOOLEAN :
      \E place \in Places(kernel) :
          call' = [targets |-> targets, kernel |-> kernel, project |-> place.project,
                   root |-> place.root, single |-> place.single]
  BY DEF Begin
<1>3. targets \in Seq(Target)
  <2>1. \A t \in Target : <<t>> \in Seq(Target)
    OBVIOUS
  <2>2. <<>> \in Seq(Target)
    OBVIOUS
  <2>3. Targets \in Seq(Target)
    BY TargetsTyped
  <2>4. QED
    BY <2>1, <2>2, <2>3
<1>4. /\ call'.targets \in Seq(Target) /\ call'.root \subseteq Offered
      /\ call'.kernel \in BOOLEAN /\ call'.project \in BOOLEAN /\ call'.single \in BOOLEAN
      /\ call'.single => ~call'.project /\ \A x, y \in call'.root : x = y
  <2>1. PICK place \in Places(kernel) :
          call' = [targets |-> targets, kernel |-> kernel, project |-> place.project,
                   root |-> place.root, single |-> place.single]
    BY <1>2
  <2>2. /\ place.project \in BOOLEAN /\ place.single \in BOOLEAN
        /\ place.root \in Repositories \cup {Checkout, Home}
        /\ place.single => ~place.project /\ \A x, y \in place.root : x = y
    BY DEF Places
  <2>3. place.root \subseteq Offered
    BY <2>2, CacheAssumption
  <2>4. QED
    BY <1>3, <2>1, <2>2, <2>3
<1>5. aside'.framework = NoFramework /\ aside'.sources = <<>>
  BY <1>1
<1>6. todo' \in Seq(Target \X Package)
  BY <1>1
<1>7. "choose" \in Steps /\ 1 \in Nat \ {0}
  BY DEF Steps
<1>8. QED
  BY <1>1, <1>4, <1>5, <1>6, <1>7, NoFrameworkTyped DEF CacheTyped, world, local

LEMMA NoCallTyped ==
    /\ NoCall.targets \in Seq(Target) /\ NoCall.root \subseteq Offered
    /\ NoCall.kernel \in BOOLEAN /\ NoCall.project \in BOOLEAN /\ NoCall.single \in BOOLEAN
    /\ NoCall.single => ~NoCall.project /\ \A x, y \in NoCall.root : x = y
<1>1. /\ NoCall.targets = <<>> /\ NoCall.root = {} /\ NoCall.kernel = FALSE /\ NoCall.project = FALSE
      /\ NoCall.single = FALSE
  BY DEF NoCall
<1>2. <<>> \in Seq(Target)
  OBVIOUS
<1>3. NoCall.kernel \in BOOLEAN /\ NoCall.project \in BOOLEAN /\ NoCall.single \in BOOLEAN
  BY <1>1
<1>4. QED
  BY <1>1, <1>2, <1>3

LEMMA ForgetTyped == ASSUME CacheTyped, Forget, Commit \/ Export \/ Edit PROVE CacheTyped'
<1>1. /\ local' = local /\ loop' = "sync" /\ index' = 1 /\ installed' = FALSE /\ todo' = <<>>
      /\ job' = <<>> /\ chosen' = NoFramework
      /\ aside' = [framework |-> NoFramework, sources |-> <<>>] /\ pc' = "idle"
      /\ call' = NoCall
  BY DEF Forget, Go, local
<1>2. /\ commit' \in Nat \ {0} /\ repository' \in [Target -> [Package -> Nat]] /\ wants' \in Wants
      /\ outdated' \subseteq Offered /\ \A x \in outdated' : repository'[x[1]][x[2]] = 0
  <2>1. CASE Commit
    BY <2>1 DEF Commit, CacheTyped
  <2>2. CASE Export
    <3>1. PICK x \in Offered, c \in {0, commit}, old \in BOOLEAN :
             /\ old => c = 0
             /\ repository' = [repository EXCEPT ![x[1]][x[2]] = c]
             /\ outdated' = IF old THEN outdated \cup {x} ELSE outdated \ {x}
      BY <2>2 DEF Export
    <3>2. c \in Nat /\ x[1] \in Target /\ x[2] \in Package /\ x = <<x[1], x[2]>>
      BY <3>1, CacheAssumption DEF CacheTyped
    <3>3. repository' \in [Target -> [Package -> Nat]]
      BY <3>1, <3>2 DEF CacheTyped
    <3>4. ASSUME NEW y \in outdated' PROVE repository'[y[1]][y[2]] = 0
      <4>1. y \in Offered /\ y[1] \in Target /\ y[2] \in Package /\ y = <<y[1], y[2]>>
        BY <3>1, CacheAssumption DEF CacheTyped
      <4>2. CASE y = x
        <5>1. c = 0
          BY <3>1, <3>4, <4>2
        <5>2. repository'[x[1]][x[2]] = c
          BY <3>1, <3>2 DEF CacheTyped
        <5>3. QED
          BY <4>2, <5>1, <5>2
      <4>3. CASE y # x
        <5>1. repository[y[1]][y[2]] = 0
          BY <3>1, <4>3 DEF CacheTyped
        <5>2. repository'[y[1]][y[2]] = repository[y[1]][y[2]]
          BY <3>1, <3>2, <4>1, <4>3 DEF CacheTyped
        <5>3. QED
          BY <5>1, <5>2
      <4>4. QED
        BY <4>2, <4>3
    <3>5. outdated' \subseteq Offered
      BY <3>1 DEF CacheTyped
    <3>6. QED
      BY <2>2, <3>3, <3>4, <3>5 DEF Export, CacheTyped
  <2>3. CASE Edit
    BY <2>3 DEF Edit, CacheTyped
  <2>4. QED
    BY <2>1, <2>2, <2>3
<1>3. /\ call'.targets \in Seq(Target) /\ call'.root \subseteq Offered
      /\ call'.kernel \in BOOLEAN /\ call'.project \in BOOLEAN /\ call'.single \in BOOLEAN
      /\ call'.single => ~call'.project /\ \A x, y \in call'.root : x = y
  BY <1>1, NoCallTyped
<1>4. aside'.framework = NoFramework /\ aside'.sources = <<>>
  BY <1>1
<1>5. todo' \in Seq(Target \X Package)
  BY <1>1
<1>6. "idle" \in Steps /\ 1 \in Nat \ {0}
  BY DEF Steps, Waiting
<1>7. QED
  BY <1>1, <1>2, <1>3, <1>4, <1>5, <1>6, NoFrameworkTyped DEF CacheTyped, local


LEMMA SyncTyped == ASSUME CacheTyped, Sync PROVE CacheTyped'
<1> USE DEF Stay, Go, world, local, history, had
<1>0. {"away", "failed", "swap", "targets", "unlink", "config"} \subseteq Steps
  BY DEF Steps, Waiting, Installing
<1>1. CASE ChooseFramework
  <2>0. PICK T \in SUBSET Target :
          /\ Skipped(T)
          /\ \/ /\ Packages(T) # {} /\ chosen' = FrameworkOf(FirstPackage(Packages(T))) /\ pc' = "away"
             \/ chosen' = [NoFramework EXCEPT !.commit = commit] /\ pc' = "away"
             \/ chosen' = chosen /\ pc' = "failed"
    BY <1>1 DEF ChooseFramework
  <2>1. \/ chosen' = chosen /\ pc' = "failed"
        \/ IsFramework(chosen') /\ pc' = "away"
    <3>1. CASE Packages(T) # {} /\ chosen' = FrameworkOf(FirstPackage(Packages(T))) /\ pc' = "away"
      <4>1. Packages(T) \subseteq Target \X Package
        BY DEF Packages
      <4>2. FirstPackage(Packages(T)) \in Target \X Package
        BY <3>1, <4>1, FirstPackageIsPackage
      <4>3. QED
        BY <3>1, <4>2, FrameworkOfTyped
    <3>2. CASE chosen' = [NoFramework EXCEPT !.commit = commit] /\ pc' = "away"
      <4>1. chosen' = [commit |-> commit, identity |-> NoFramework.identity, host |-> NoFramework.host]
        BY <3>2 DEF NoFramework
      <4>2. commit \in Nat /\ IsFramework(NoFramework)
        BY NoFrameworkTyped DEF CacheTyped
      <4>3. QED
        BY <3>2, <4>1, <4>2 DEF IsFramework
    <3>3. QED
      BY <2>0, <3>1, <3>2
  <2>2. UNCHANGED <<world, local, call, loop, index, installed, job, todo, aside>> /\ pc = "choose"
    BY <1>1, <2>0, SkippedKept DEF ChooseFramework
  <2>3. IsFramework(chosen') /\ pc' \in {"away", "failed"}
    BY <2>1 DEF CacheTyped
  <2>4. QED
    BY <1>0, <2>2, <2>3 DEF CacheTyped
<1>2. CASE FrameworkAway
  <2>1. aside' = [aside EXCEPT !.framework = framework] /\ framework' = NoFramework /\ pc = "away" /\ pc' = "swap"
        /\ UNCHANGED <<world, link, sources, cargoConfig, lock, call, loop, index, installed, chosen, job, todo>>
    BY <1>2 DEF FrameworkAway
  <2>2. aside' = [framework |-> framework, sources |-> aside.sources]
    BY <2>1 DEF CacheTyped
  <2>3. aside'.framework = framework /\ aside'.sources = aside.sources
    BY <2>2
  <2>4. QED
    BY <1>0, <2>1, <2>2, <2>3, NoFrameworkTyped DEF CacheTyped
<1>3. CASE FrameworkIn
  <2>1. aside' = [aside EXCEPT !.framework = NoFramework] /\ framework' = chosen /\ pc = "swap" /\ pc' = "targets"
        /\ UNCHANGED <<world, link, sources, cargoConfig, lock, call, loop, index, installed, chosen, job, todo>>
    BY <1>3 DEF FrameworkIn
  <2>2. aside' = [framework |-> NoFramework, sources |-> aside.sources]
    BY <2>1 DEF CacheTyped
  <2>3. aside'.framework = NoFramework /\ aside'.sources = aside.sources
    BY <2>2
  <2>4. QED
    BY <1>0, <2>1, <2>2, <2>3, NoFrameworkTyped DEF CacheTyped
<1>4. CASE NextTarget
  <2>0. PICK T \in SUBSET {Targets[index]} :
          /\ Skipped(T)
          /\ \/ /\ Found(Targets[index]) /\ pc' = "unlink"
                /\ job' = <<Targets[index], Choice(Targets[index])>>
             \/ job' = job /\ pc' = "targets"
    BY <1>4 DEF NextTarget
  <2>1. pc = "targets" /\ index <= Len(Targets) /\ index' = index + 1
        /\ UNCHANGED <<world, local, call, loop, installed, chosen, todo, aside>>
    BY <1>4, <2>0, SkippedKept DEF NextTarget
  <2>2. Targets[index] \in Target
    BY <2>1, TargetsTyped DEF CacheTyped
  <2>3. \/ job' = job /\ pc' = "targets"
        \/ job' \in Target \X Package /\ pc' = "unlink"
    <3>1. ASSUME Found(Targets[index]) PROVE Choice(Targets[index]) \in Package
      BY <2>2, <3>1, ChoiceIsAvailable, AvailableIsThere DEF Found
    <3>2. QED
      BY <2>0, <2>2, <3>1
  <2>4. job' \in {<<>>} \cup (Target \X Package) /\ pc' \in {"targets", "unlink"}
    BY <2>3 DEF CacheTyped
  <2>5. index' \in Nat \ {0}
    BY <2>1 DEF CacheTyped
  <2>6. QED
    BY <1>0, <2>1, <2>4, <2>5 DEF CacheTyped
<1>5. CASE TargetsDone
  BY <1>0, <1>5 DEF TargetsDone, CacheTyped
<1>6. QED
  BY <1>1, <1>2, <1>3, <1>4, <1>5 DEF Sync

LEMMA InstallTyped == ASSUME CacheTyped, FoundInv, Install PROVE CacheTyped'
<1> USE DEF Stay, Go, world, local, history, had
<1>0. {"link", "identity", "host", "targets", "aside", "sources", "config"} \subseteq Steps
  BY DEF Steps, Waiting, Installing
<1>1. pc \in Installing
  BY DEF Install, Unlink, Link, CopyIdentity, CopyHostIdentity, SourcesAside, SourcesIn, Installing
<1>2. job \in Target \X Package /\ job[1] \in Target /\ job[2] \in Package
  BY <1>1, JobTyped DEF AtJob
<1>3. CASE Unlink
  BY <1>0, <1>2, <1>3 DEF Unlink, CacheTyped
<1>4. CASE Link
  BY <1>0, <1>2, <1>4 DEF Link, CacheTyped
<1>5. CASE CopyIdentity
  <2>1. IsFramework(framework') /\ pc = "identity" /\ pc' = "host"
        /\ UNCHANGED <<world, link, sources, cargoConfig, lock, call, loop, index, installed, chosen, job, todo, aside>>
    <3>1. IsFramework(framework)
      BY DEF CacheTyped
    <3>2. QED
      BY <1>2, <1>5, <3>1, IdentityTyped DEF CopyIdentity
  <2>2. QED
    BY <1>0, <2>1 DEF CacheTyped
<1>6. CASE CopyHostIdentity
  <2>1. IsFramework(framework') /\ pc = "host" /\ pc' \in {"targets", "aside"} /\ (pc' = "targets" => loop = "sync")
        /\ UNCHANGED <<world, link, sources, cargoConfig, lock, call, loop, index, installed, chosen, job, todo, aside>>
    <3>1. IsFramework(framework)
      BY DEF CacheTyped
    <3>2. IsFramework(framework')
      BY <1>6, <3>1, HostTyped DEF CopyHostIdentity
    <3>3. QED
      BY <1>6, <3>2 DEF CopyHostIdentity
  <2>2. QED
    BY <1>0, <2>1 DEF CacheTyped
<1>7. CASE SourcesAside
  <2> DEFINE there == sources # <<>> /\ Exists(sources)
  <2>1. aside' = [aside EXCEPT !.sources = IF there THEN sources ELSE <<>>]
        /\ sources' = (IF there THEN <<>> ELSE sources) /\ pc = "aside" /\ pc' = "sources"
        /\ UNCHANGED <<world, framework, link, cargoConfig, lock, call, loop, index, installed, chosen, job, todo>>
    BY <1>7 DEF SourcesAside
  <2> HIDE DEF there
  <2>2. aside' = [framework |-> aside.framework, sources |-> IF there THEN sources ELSE <<>>]
    BY <2>1 DEF CacheTyped
  <2>3. aside'.framework = aside.framework /\ aside'.sources = IF there THEN sources ELSE <<>>
    BY <2>2
  <2>4. QED
    BY <1>0, <2>1, <2>2, <2>3 DEF CacheTyped
<1>8. CASE SourcesIn
  <2>1. aside' = [aside EXCEPT !.sources = <<>>] /\ sources' = job /\ installed' = TRUE /\ pc = "sources"
        /\ pc' \in {"targets", "config"} /\ (pc' = "targets" => loop = "sync")
        /\ UNCHANGED <<world, framework, link, cargoConfig, lock, call, loop, index, chosen, job, todo>>
    BY <1>8 DEF SourcesIn
  <2>2. aside' = [framework |-> aside.framework, sources |-> <<>>]
    BY <2>1 DEF CacheTyped
  <2>3. aside'.framework = aside.framework /\ aside'.sources = <<>>
    BY <2>2
  <2>4. QED
    BY <1>0, <1>2, <2>1, <2>2, <2>3 DEF CacheTyped
<1>9. QED
  BY <1>3, <1>4, <1>5, <1>6, <1>7, <1>8 DEF Install


\* What a build of a target is to work through: pairs of it and a package that
\* is available and asked for.
LEMMA SelectedTodo ==
    ASSUME CacheTyped, Select
    PROVE  /\ pc = "select" /\ index' = index + 1 /\ pc' \in {"failed", "activate"}
           /\ UNCHANGED <<world, local, history, call, loop, installed, chosen, job, aside>>
           /\ \/ todo' = todo
              \/ /\ todo' \in Seq(Target \X Package)
                 /\ \A i \in DOMAIN todo' : /\ Found(todo'[i][1]) /\ todo'[i][2] \in Available(todo'[i][1])
                                            /\ Wanted(todo'[i][2])
<1>1. /\ pc = "select" /\ index <= Len(call.targets) /\ index' = index + 1
      /\ UNCHANGED <<world, local, history, call, loop, installed, chosen, job, aside>>
  BY DEF Select, Stay
<1> DEFINE t == call.targets[index]
<1>2. t \in Target
  BY <1>1 DEF CacheTyped
<1>3. CASE ~Buildable(t)
  BY <1>1, <1>3 DEF Select, Go
<1>4. CASE Buildable(t) /\ wants # <<>>
  <2>1. /\ todo' \in [DOMAIN wants -> {t} \X Available(t)] /\ pc' = "activate"
        /\ \A i \in DOMAIN todo' : ProfileOf[todo'[i][2]] = wants[i]
    BY <1>4 DEF Select, Go
  <2> HIDE DEF t
  <2>2. DOMAIN wants = 1 .. Len(wants) /\ Len(wants) \in Nat
    BY WantsTyped
  <2>3. Available(t) \subseteq Package
    BY <1>2, AvailableIsThere
  <2>4. {t} \X Available(t) \subseteq Target \X Package
    BY <1>2, <2>3
  <2>5. todo' \in Seq({t} \X Available(t))
    BY <2>1, <2>2, SeqDef
  <2>6. todo' \in Seq(Target \X Package)
    BY <2>4, <2>5
  <2>7. \A i \in DOMAIN todo' : i \in DOMAIN wants /\ todo'[i][1] = t /\ todo'[i][2] \in Available(t)
    BY <2>1
  <2>8. \A i \in DOMAIN todo' : Wanted(todo'[i][2])
    BY <2>1, <2>7 DEF Wanted
  <2>9. QED
    BY <1>1, <1>4, <2>1, <2>6, <2>7, <2>8 DEF Buildable
<1>5. CASE Buildable(t) /\ wants = <<>>
  <2>1. todo' \in [1 .. Cardinality(Available(t)) -> {t} \X Available(t)] /\ pc' = "activate"
    BY <1>5 DEF Select, Go
  <2> HIDE DEF t
  <2>2. Available(t) \subseteq Package
    BY <1>2, AvailableIsThere
  <2>3. IsFiniteSet(Available(t))
    BY <2>2, CacheAssumption, FS_Subset
  <2>4. Cardinality(Available(t)) \in Nat
    BY <2>3, FS_CardinalityType
  <2>5. \A i \in DOMAIN todo' : todo'[i][1] = t /\ todo'[i][2] \in Available(t)
    BY <2>1
  <2>6. todo' \in Seq({t} \X Available(t))
    BY <2>1, <2>4, SeqDef
  <2>7. {t} \X Available(t) \subseteq Target \X Package
    BY <1>2, <2>2
  <2>8. todo' \in Seq(Target \X Package)
    BY <2>6, <2>7
  <2>9. \A i \in DOMAIN todo' : Wanted(todo'[i][2])
    BY <1>5 DEF Wanted
  <2>10. QED
    BY <1>1, <1>5, <2>1, <2>5, <2>8, <2>9 DEF Buildable
<1>6. QED
  BY <1>3, <1>4, <1>5

\* The configuration of an interface.
LEMMA Configured ==
    ASSUME Configure
    PROVE  /\ pc = "config" /\ pc' \in {"lock", "failed"} /\ missed \subseteq missed'
           /\ UNCHANGED <<framework, link, sources, lock, loop, index, installed, chosen, job, todo, aside, world, call, had>>
           /\ loop # "sync" /\ pc' = "lock" =>
                  missed' = missed /\ cargoConfig' = Hash(job[1], job[2]) /\ Buildable(job[1])
           /\ loop = "sync" => /\ pc' = "lock"
                               /\ \E T \in SUBSET {t \in Target : Loads(t)} :
                                      missed' = missed \cup T /\ cargoConfig' = Active(T)
<1>1. /\ pc = "config"
      /\ UNCHANGED <<framework, link, sources, lock, loop, index, installed, chosen, job, todo, aside, world, call, had>>
  BY DEF Configure
<1>2. CASE loop = "sync"
  BY <1>1, <1>2 DEF Configure, Go
<1>3. CASE loop # "sync"
  BY <1>1, <1>3 DEF Configure, Go
<1>4. QED
  BY <1>2, <1>3

\* The lock file.
LEMMA LockWritten ==
    ASSUME WriteLock
    PROVE  /\ pc = "lock" /\ loop' = "build" /\ missed \subseteq missed' /\ index' \in {1, index}
           /\ pc' = IF loop = "build" THEN "cargo" ELSE IF call.targets = <<>> THEN "ok" ELSE "select"
           /\ UNCHANGED <<framework, link, sources, cargoConfig, installed, chosen, job, todo, aside, world, call, had>>
           /\ \E T \in SUBSET Target : /\ missed' = missed \cup T
                                        /\ lock' = {Hash(x[1], x[2]) : x \in Packages(T)}
<1>1. PICK T \in SUBSET Target : Skipped(T) /\ lock' = {Hash(x[1], x[2]) : x \in Packages(T)}
  BY DEF WriteLock
<1>2. UNCHANGED <<world, call, had>> /\ missed' = missed \cup T
  BY <1>1, SkippedKept
<1>3. /\ pc = "lock" /\ loop' = "build" /\ index' \in {1, index}
      /\ pc' = IF loop = "build" THEN "cargo" ELSE IF call.targets = <<>> THEN "ok" ELSE "select"
      /\ UNCHANGED <<framework, link, sources, cargoConfig, installed, chosen, job, todo, aside>>
  BY DEF WriteLock, Go
<1>4. QED
  BY <1>1, <1>2, <1>3

LEMMA BuildTyped == ASSUME CacheTyped, Build PROVE CacheTyped'
<1> USE DEF Stay, Go, world, local, history, had
<1>0. {"lock", "cargo", "ok", "select", "failed", "activate", "unlink"} \subseteq Steps
  BY DEF Steps, Waiting, Installing
<1>1. CASE Configure
  BY <1>0, <1>1, Configured DEF CacheTyped
<1>2. CASE WriteLock
  <2>1. pc = "lock" /\ pc' \in {"cargo", "ok", "select"} /\ loop' = "build" /\ index' \in {1, index}
        /\ (pc' # "ok" => call.targets # <<>> \/ loop = "build")
        /\ UNCHANGED <<world, framework, link, sources, cargoConfig, call, installed, chosen, job, todo, aside>>
    BY <1>2, LockWritten DEF CacheTyped
  <2>2. pc' # "ok" => call.targets # <<>>
    BY <2>1 DEF CacheTyped
  <2>3. index' \in Nat \ {0}
    BY <2>1 DEF CacheTyped
  <2>4. QED
    BY <1>0, <2>1, <2>2, <2>3 DEF CacheTyped
<1>3. CASE Select
  <2>1. /\ pc = "select" /\ index' = index + 1 /\ pc' \in {"failed", "activate"}
        /\ UNCHANGED <<world, local, call, loop, installed, chosen, job, aside>>
        /\ todo' = todo \/ todo' \in Seq(Target \X Package)
    BY <1>3, SelectedTodo
  <2>2. todo' \in Seq(Target \X Package) /\ index' \in Nat \ {0}
    BY <2>1 DEF CacheTyped
  <2>3. QED
    BY <1>0, <2>1, <2>2 DEF CacheTyped
<1>4. CASE Activate
  <2>1. /\ pc = "activate" /\ todo # <<>> /\ job' = Head(todo) /\ todo' = Tail(todo) /\ pc' = "unlink"
        /\ UNCHANGED <<world, local, call, loop, index, installed, chosen, aside>>
    BY <1>4 DEF Activate
  <2>2. job' \in Target \X Package /\ todo' \in Seq(Target \X Package)
    BY <2>1 DEF CacheTyped
  <2>3. QED
    BY <1>0, <2>1, <2>2 DEF CacheTyped
<1>5. CASE CargoEnds \/ InterfacesDone \/ BuildDone
  BY <1>0, <1>5 DEF CargoEnds, InterfacesDone, BuildDone, CacheTyped
<1>6. QED
  BY <1>1, <1>2, <1>3, <1>4, <1>5 DEF Build

LEMMA FailTyped == ASSUME CacheTyped, Fail \/ Kill PROVE CacheTyped'
<1>1. /\ pc' = "failed" /\ pc \notin Waiting
      /\ UNCHANGED <<world, link, cargoConfig, lock, call, loop, index, installed, chosen, job, todo, aside>>
      /\ framework' \in {framework, aside.framework} /\ sources' \in {sources, aside.sources}
  BY DEF Fail, Kill, MayFail, Go, local, control
<1>2. IsFramework(framework') /\ sources' \in {<<>>} \cup (Target \X Package)
  BY <1>1 DEF CacheTyped
<1>3. "failed" \in Steps /\ "ok" \in Waiting
  BY DEF Steps, Waiting
<1>4. QED
  BY <1>1, <1>2, <1>3 DEF CacheTyped, world

LEMMA TypedStep == ASSUME CacheTyped, FoundInv, Next PROVE CacheTyped'
  BY BeginTyped, ForgetTyped, SyncTyped, InstallTyped, BuildTyped, FailTyped DEF Next



-----------------------------------------------------------------------------
(* What a command finds suits what it has chosen. *)

LEMMA FoundSplit ==
    ASSUME FoundInv, pc \notin Waiting \cup {"choose"}
    PROVE  /\ FoundCore /\ TodoCore /\ (SearchesRoot => SearchCore)
           /\ pc \notin {"away", "swap"} => framework.commit = chosen.commit
           /\ AtJob => Suits(job) /\ (loop = "build" => Wanted(job[2]))
           /\ loop = "build" /\ pc = "lock" => ~Fails(job[1])
  BY DEF FoundInv, FoundCore, TodoCore, SearchCore

\* The same after a step that keeps or takes over what suits.
LEMMA FoundAfter ==
    ASSUME FoundCore', TodoCore', SearchesRoot' => SearchCore',
           pc' \notin {"away", "swap"} => framework'.commit = chosen'.commit,
           AtJob' => Suits(job)' /\ (loop' = "build" => Wanted(job[2])'),
           loop' = "build" /\ pc' = "lock" => ~Fails(job[1])'
    PROVE  FoundInv'
  BY DEF FoundInv, FoundCore, TodoCore, SearchCore

\* A step that leaves the links leaves all this.
LEMMA QuietCore ==
    ASSUME Quiet, pc # "link", FoundCore, SearchesRoot => SearchCore
    PROVE  FoundCore' /\ (SearchesRoot' => SearchCore')
<1>1. /\ Links' = Links
      /\ \A t \in Target : Loads(t)' = Loads(t) /\ Available(t)' = Available(t) /\ Found(t)' = Found(t)
  BY QuietSearch DEF Quiet, Kept
<1>2. FoundCore'
  <2>1. ASSUME call.project, NEW t \in Target, Loads(t)' PROVE Suits(<<t, link[t]>>)'
    <3>1. Suits(<<t, link[t]>>)
      BY <1>1, <2>1 DEF FoundCore
    <3>2. PICK x : x = <<t, link[t]>>
      OBVIOUS
    <3>3. Suits(x)'
      BY <3>1, <3>2, KeptSuits DEF Quiet
    <3>4. QED
      BY <3>2, <3>3 DEF Suits, CommitOf, Wanted, Quiet
  <2>2. QED
    BY <2>1 DEF FoundCore, Quiet, Kept
<1>3. ASSUME SearchesRoot' PROVE SearchCore'
  <2>1. SearchesRoot
    BY <1>1, <1>3 DEF SearchesRoot, Quiet, Kept
  <2>2. \A t \in Target : Found(t)' => \A q \in Available(t)' : Suits(<<t, q>>)'
    BY <1>1, <2>1, KeptSuits DEF SearchCore, Quiet
  <2>3. QED
    BY <2>2 DEF SearchCore
<1>4. QED
  BY <1>2, <1>3

LEMMA KeptTodo ==
    ASSUME Kept, todo' = todo, TodoCore
    PROVE  TodoCore'
<1>1. \A i \in DOMAIN todo : Suits(todo[i])' /\ Wanted(todo[i][2])'
  BY KeptSuits, KeptWanted DEF TodoCore, Kept, Suits, CommitOf, Wanted, world
<1>2. QED
  BY <1>1 DEF TodoCore

LEMMA KeptJob ==
    ASSUME Kept, job' = job
    PROVE  (Suits(job) => Suits(job)') /\ (Wanted(job[2]) => Wanted(job[2])')
  BY DEF Suits, CommitOf, Wanted, Kept, world

LEMMA ChooseFound == ASSUME CacheTyped, ChooseFramework PROVE FoundInv'
<1>0. PICK T \in SUBSET Target :
          /\ Skipped(T)
          /\ \/ /\ Packages(T) # {} /\ Agreed(Packages(T))
                /\ chosen' = FrameworkOf(FirstPackage(Packages(T))) /\ pc' = "away"
             \/ /\ Packages(T) = {} /\ chosen' = [NoFramework EXCEPT !.commit = commit] /\ pc' = "away"
             \/ pc' = "failed"
  BY DEF ChooseFramework, Go
<1>1. /\ UNCHANGED <<world, local, call, loop, index, installed, job, todo, aside>> /\ pc = "choose"
      /\ pc' \in {"away", "failed"} /\ missed' = missed \cup T /\ loop = "sync"
  BY <1>0, SkippedKept DEF ChooseFramework, CacheTyped
<1>2. CASE pc' = "failed"
  BY <1>2 DEF FoundInv, Waiting
<1>3. CASE pc' = "away"
  <2>1. /\ Links' = Links
        /\ \A t \in Target : Loads(t)' = Loads(t) /\ Available(t)' = Available(t) /\ Found(t)' = Found(t)
    BY <1>1, QuietSearch DEF local
  <2>2. /\ chosen'.commit # 0
        /\ \A x \in Packages(T) : CommitOf(x) = chosen'.commit
    <3>1. CASE /\ Packages(T) # {} /\ Agreed(Packages(T)) /\ chosen' = FrameworkOf(FirstPackage(Packages(T)))
      <4>1. Packages(T) \subseteq Target \X Package
        BY DEF Packages
      <4>2. FirstPackage(Packages(T)) \in Packages(T)
        BY <3>1, <4>1, FirstPackageIsPackage
      <4>3. PICK x \in Packages(T) : x = FirstPackage(Packages(T))
        BY <4>2
      <4>4. chosen'.commit = CommitOf(x) /\ CommitOf(x) # 0
        BY <3>1, <4>3, PackagesTyped, FrameworkOfTyped
      <4>5. QED
        BY <3>1, <4>4 DEF Agreed
    <3>2. CASE Packages(T) = {} /\ chosen' = [NoFramework EXCEPT !.commit = commit]
      <4>1. chosen'.commit = commit
        BY <3>2 DEF NoFramework
      <4>2. QED
        BY <3>2, <4>1 DEF CacheTyped
    <3>3. QED
      BY <1>0, <1>3, <3>1, <3>2
  <2>3. ASSUME NEW t \in Target, Found(t), NEW q \in Available(t) PROVE Suits(<<t, q>>)'
    <3>1. PICK x : x = <<t, q>>
      OBVIOUS
    <3>2. x \in Target \X Package /\ CommitOf(x) # 0 /\ x[1] = t /\ x[2] = q /\ (~call.project => x \in call.root)
      BY <2>3, <3>1, AvailableIsThere
    <3>3. Wanted(q) /\ t \notin T => x \in Packages(T)
      BY <2>3, <3>2 DEF Packages, Found
    <3>4. Wanted(q) /\ t \notin T => CommitOf(x) = chosen'.commit
      BY <2>2, <3>3
    <3>5. Wanted(q)' = Wanted(q) /\ CommitOf(x)' = CommitOf(x)
      BY <1>1, <3>1 DEF Wanted, CommitOf, world
    <3>6. Suits(x)'
      BY <1>1, <3>1, <3>2, <3>4, <3>5 DEF Suits, Wanted
    <3>7. QED
      BY <3>1, <3>6 DEF Suits, CommitOf, Wanted
  <2>4. SearchCore'
    BY <2>1, <2>3 DEF SearchCore
  <2>5. FoundCore'
    <3>1. ASSUME call.project, NEW t \in Target, Loads(t) PROVE Suits(<<t, link[t]>>)'
      <4>1. Links # {}
        BY <3>1, LinkLoads
      <4>2. Found(t) /\ Available(t) = {link[t]}
        BY <3>1, <4>1, ProjectFinds
      <4>3. PICK q \in Available(t) : q = link[t]
        BY <4>2
      <4>4. Suits(<<t, q>>)'
        BY <2>3, <4>2, <4>3
      <4>5. link' = link
        BY <1>1 DEF local
      <4>6. QED
        BY <4>3, <4>4, <4>5 DEF Suits, CommitOf, Wanted
    <3>2. QED
      BY <1>1, <2>1, <2>2, <3>1 DEF FoundCore
  <2>7. TodoCore'
    BY <1>1 DEF TodoCore, CacheTyped
  <2>8. ~AtJob' /\ pc' # "lock"
    BY <1>3 DEF Installing, AtJob
  <2>9. QED
    BY <1>3, <2>4, <2>5, <2>7, <2>8, FoundAfter
<1>4. QED
  BY <1>1, <1>2, <1>3

\* What the step that takes up the next target does.
LEMMA NextTargetSteps ==
    ASSUME CacheTyped, NextTarget
    PROVE  /\ pc = "targets" /\ index \in DOMAIN Targets /\ index' = index + 1 /\ loop = "sync" /\ Kept
           /\ index \in Nat /\ Targets[index] \in Target
           /\ UNCHANGED <<world, call, had, local, loop, installed, chosen, todo, aside>>
           /\ \/ /\ pc' = "unlink" /\ Found(Targets[index]) /\ missed' = missed
                 /\ job' = <<Targets[index], Choice(Targets[index])>>
              \/ /\ pc' = "targets" /\ job' = job
                 /\ Targets[index] \in missed' \/ (~Found(Targets[index]) /\ missed' = missed)
<1>1. PICK T \in SUBSET {Targets[index]} :
          /\ Skipped(T)
          /\ IF T = {} /\ Found(Targets[index])
             THEN job' = <<Targets[index], Choice(Targets[index])>> /\ pc' = "unlink"
             ELSE job' = job /\ pc' = "targets"
  BY DEF NextTarget, Go
<1>2. UNCHANGED <<world, call, had>> /\ missed' = missed \cup T
  BY <1>1, SkippedKept
<1>3. /\ pc = "targets" /\ index' = index + 1 /\ loop = "sync" /\ index \in Nat \ {0} /\ index <= Len(Targets)
      /\ UNCHANGED <<local, loop, installed, chosen, todo, aside>>
  BY DEF NextTarget, CacheTyped
<1>4. index \in DOMAIN Targets /\ Targets[index] \in Target
  BY <1>3, TargetsTyped
<1>5. T = {} \/ T = {Targets[index]}
  BY <1>1
<1>6. QED
  BY <1>1, <1>2, <1>3, <1>4, <1>5 DEF Kept

LEMMA SyncFound == ASSUME CacheTyped, FoundInv, Sync PROVE FoundInv'
<1>1. CASE ChooseFramework
  BY <1>1, ChooseFound
<1>2. CASE FrameworkAway \/ FrameworkIn \/ TargetsDone
  <2>1. /\ Quiet /\ UNCHANGED <<job, todo, loop>> /\ loop = "sync"
        /\ pc \in {"away", "swap", "targets"} /\ pc' \in {"swap", "targets", "config"}
    BY <1>2 DEF FrameworkAway, FrameworkIn, TargetsDone, Stay, Go, Quiet, Kept, local, history, CacheTyped
  <2>2. FoundCore /\ (SearchesRoot => SearchCore) /\ TodoCore
    BY <2>1, FoundSplit DEF Waiting
  <2>3. FoundCore' /\ (SearchesRoot' => SearchCore') /\ TodoCore'
    BY <2>1, <2>2, QuietCore, KeptTodo DEF Quiet
  <2>4. pc' \notin {"away", "swap"} => framework'.commit = chosen'.commit
    BY <1>2, <2>1, FoundSplit DEF FrameworkAway, FrameworkIn, TargetsDone, Go, Stay, local, Waiting
  <2>5. ~AtJob' /\ loop' = "sync"
    BY <2>1 DEF Installing, AtJob
  <2>6. QED
    BY <2>3, <2>4, <2>5, FoundAfter
<1>3. CASE NextTarget
  <2>1. /\ Quiet /\ UNCHANGED <<framework, todo, loop>> /\ loop = "sync"
        /\ pc = "targets" /\ pc' \in {"targets", "unlink"} /\ Targets[index] \in Target
    BY <1>3, NextTargetSteps DEF Quiet, local
  <2>2. FoundCore /\ (SearchesRoot => SearchCore) /\ TodoCore /\ framework.commit = chosen.commit
    BY <2>1, FoundSplit DEF Waiting
  <2>3. FoundCore' /\ (SearchesRoot' => SearchCore') /\ TodoCore'
    BY <2>1, <2>2, QuietCore, KeptTodo DEF Quiet
  <2>4. pc' = "unlink" => Suits(job)'
    <3>1. PICK x : x = <<Targets[index], Choice(Targets[index])>>
      OBVIOUS
    <3>2. pc' = "unlink" => Found(Targets[index]) /\ job' = x
      BY <1>3, <3>1, NextTargetSteps
    <3>3. Found(Targets[index]) => Choice(Targets[index]) \in Available(Targets[index])
      BY <2>1, ChoiceIsAvailable DEF Found
    <3>4. pc' = "unlink" => Suits(x)
      BY <2>1, <2>2, <3>1, <3>2, <3>3, AvailableSuits
    <3>5. pc' = "unlink" => Suits(x)'
      BY <2>1, <3>4, KeptSuits DEF Quiet
    <3>6. QED
      BY <3>2, <3>5 DEF Suits, CommitOf, Wanted
  <2>5. AtJob' => pc' = "unlink"
    BY <2>1 DEF Installing, AtJob
  <2>6. QED
    BY <2>1, <2>2, <2>3, <2>4, <2>5, FoundAfter DEF Quiet, Kept
<1>4. QED
  BY <1>1, <1>2, <1>3 DEF Sync

\* A link that is removed leads nowhere, and one that is set leads to the job.
LEMMA RelinkFound == ASSUME CacheTyped, FoundInv, Unlink \/ Link PROVE FoundInv'
<1>1. /\ UNCHANGED <<world, call, chosen, framework, job, todo, loop, missed>> /\ pc \in Installing /\ AtJob /\ Kept
      /\ AtJob' /\ pc' # "lock" /\ pc' \notin {"away", "swap"}
  BY DEF Unlink, Link, Stay, Installing, AtJob, Kept, history, Go
<1>2. /\ job[1] \in Target /\ job[2] \in Package /\ job = <<job[1], job[2]>> /\ Suits(job) /\ CommitOf(job) # 0
      /\ job[2] # 0
  BY <1>1, JobTyped
<1>3. pc \notin Waiting \cup {"choose", "away", "swap"}
  BY <1>1 DEF Waiting, Installing
<1>4. /\ FoundCore /\ TodoCore /\ (SearchesRoot => SearchCore) /\ framework.commit = chosen.commit
      /\ loop = "build" => Wanted(job[2])
  BY <1>1, <1>3, FoundSplit
<1>5. TodoCore' /\ Suits(job)' /\ (loop' = "build" => Wanted(job[2])')
  BY <1>1, <1>2, <1>4, KeptTodo, KeptJob
<1>6. ASSUME NEW t \in Target, t # job[1] PROVE link'[t] = link[t] /\ (Loads(t)' <=> Loads(t))
  <2>1. link'[t] = link[t]
    BY <1>6 DEF Unlink, Link, CacheTyped
  <2>2. QED
    BY <1>1, <2>1 DEF Loads, world
<1>7. FoundCore'
  <2>1. ASSUME call.project, NEW t \in Target, Loads(t)' PROVE Suits(<<t, link[t]>>)'
    <3>0. PICK x : x = <<t, link'[t]>>
      OBVIOUS
    <3>1. CASE t # job[1]
      <4>1. Loads(t) /\ link'[t] = link[t]
        BY <1>6, <2>1, <3>1
      <4>2. Suits(x)
        BY <1>4, <2>1, <3>0, <4>1 DEF FoundCore
      <4>3. Suits(x)'
        BY <1>1, <4>2, KeptSuits
      <4>4. QED
        BY <3>0, <4>3 DEF Suits, CommitOf, Wanted
    <3>2. CASE t = job[1] /\ Unlink
      BY <1>2, <2>1, <3>2 DEF Unlink, Loads, CacheTyped
    <3>3. CASE t = job[1] /\ Link
      <4>1. link'[t] = job[2]
        BY <1>2, <3>3 DEF Link, CacheTyped
      <4>2. x = job
        BY <1>2, <3>0, <3>3, <4>1
      <4>3. Suits(x)'
        BY <1>1, <1>2, <4>2, KeptSuits
      <4>4. QED
        BY <3>0, <4>3 DEF Suits, CommitOf, Wanted
    <3>4. QED
      BY <3>1, <3>2, <3>3
  <2>2. QED
    BY <1>1, <1>4, <2>1 DEF FoundCore
<1>8. ASSUME call.project PROVE ~SearchesRoot'
  <2>1. CASE Unlink
    BY <1>1, <1>8, <2>1 DEF Unlink, Go, SearchesRoot
  <2>2. CASE Link
    <3>1. link'[job[1]] = job[2]
      BY <1>2, <2>2 DEF Link, CacheTyped
    <3>2. job \in Links'
      BY <1>1, <1>2, <3>1 DEF Links, Exists, CommitOf, world
    <3>3. QED
      BY <1>1, <1>8, <3>2 DEF SearchesRoot
  <2>3. QED
    BY <2>1, <2>2
<1>9. ASSUME ~call.project PROVE SearchCore'
  <2>1. SearchCore
    BY <1>4, <1>9 DEF SearchesRoot
  <2>2. \A t \in Target : Available(t)' = Available(t) /\ Found(t)' = Found(t)
    BY <1>1, <1>9, RootSearch
  <2>3. \A t \in Target : Found(t)' => \A q \in Available(t)' : Suits(<<t, q>>)'
    BY <1>1, <2>1, <2>2, KeptSuits DEF SearchCore
  <2>4. QED
    BY <2>3 DEF SearchCore
<1>10. QED
  BY <1>1, <1>4, <1>5, <1>7, <1>8, <1>9, FoundAfter

LEMMA InstallFound == ASSUME CacheTyped, FoundInv, Install PROVE FoundInv'
<1>1. CASE Unlink \/ Link
  BY <1>1, RelinkFound
<1>2. CASE CopyIdentity \/ CopyHostIdentity \/ SourcesAside \/ SourcesIn
  <2>1. /\ Quiet /\ UNCHANGED <<job, todo, loop>> /\ pc \in Installing \ {"link"} /\ AtJob
        /\ pc' \in {"host", "targets", "aside", "sources", "config"}
    BY <1>2 DEF CopyIdentity, CopyHostIdentity, SourcesAside, SourcesIn, Stay, Go, Quiet, Kept, history,
       Installing, AtJob
  <2>2. framework'.commit = framework.commit
    <3>1. CASE CopyIdentity
      BY <2>1, <3>1, JobTyped, IdentityTyped DEF CopyIdentity, CacheTyped
    <3>2. CASE CopyHostIdentity
      BY <3>2, HostTyped DEF CopyHostIdentity, CacheTyped
    <3>3. CASE SourcesAside \/ SourcesIn
      BY <3>3 DEF SourcesAside, SourcesIn
    <3>4. QED
      BY <1>2, <3>1, <3>2, <3>3
  <2>3. pc \notin Waiting \cup {"choose", "away", "swap", "link"}
    BY <2>1 DEF Waiting, Installing
  <2>4. /\ FoundCore /\ (SearchesRoot => SearchCore) /\ TodoCore /\ framework.commit = chosen.commit /\ Suits(job)
        /\ loop = "build" => Wanted(job[2])
    BY <2>1, <2>3, FoundSplit
  <2>5. /\ FoundCore' /\ (SearchesRoot' => SearchCore') /\ TodoCore' /\ Suits(job)'
        /\ loop' = "build" => Wanted(job[2])'
    BY <2>1, <2>3, <2>4, QuietCore, KeptTodo, KeptJob DEF Quiet
  <2>6. framework'.commit = chosen'.commit
    BY <2>1, <2>2, <2>4 DEF Quiet, Kept
  <2>7. QED
    BY <2>1, <2>5, <2>6, FoundAfter
<1>3. QED
  BY <1>1, <1>2 DEF Install

LEMMA BuildQuiet ==
    ASSUME Build
    PROVE  /\ Quiet /\ UNCHANGED <<framework, sources, had>> /\ pc \in {"config", "lock", "select", "activate", "cargo"}
<1>1. CASE Configure
  BY <1>1, Configured DEF Quiet, Kept
<1>2. CASE WriteLock
  BY <1>2, LockWritten DEF Quiet, Kept
<1>3. CASE Select \/ Activate \/ CargoEnds \/ InterfacesDone \/ BuildDone
  BY <1>3 DEF Select, Activate, CargoEnds, InterfacesDone, BuildDone, Stay, Quiet, Kept, local, history
<1>4. QED
  BY <1>1, <1>2, <1>3 DEF Build

LEMMA BuildFound == ASSUME CacheTyped, FoundInv, Build PROVE FoundInv'
<1>1. Quiet /\ UNCHANGED framework /\ pc \in {"config", "lock", "select", "activate", "cargo"}
  BY BuildQuiet
<1>2. pc \notin Waiting \cup {"choose", "away", "swap", "link"}
  BY <1>1 DEF Waiting
<1>3. FoundCore /\ (SearchesRoot => SearchCore) /\ TodoCore /\ framework.commit = chosen.commit
  BY <1>2, FoundSplit
<1>4. FoundCore' /\ (SearchesRoot' => SearchCore') /\ framework'.commit = chosen'.commit
  BY <1>1, <1>2, <1>3, QuietCore DEF Quiet, Kept
<1>5. CASE Configure \/ WriteLock
  <2>1. /\ UNCHANGED <<job, todo>> /\ pc \in {"config", "lock"}
        /\ pc' \in {"lock", "failed", "cargo", "ok", "select"}
        /\ AtJob' => AtJob /\ loop = "build"
        /\ pc' = "lock" => pc = "config" /\ loop' = loop
    BY <1>5, Configured, LockWritten DEF CacheTyped, AtJob, Installing
  <2>2. TodoCore'
    BY <1>1, <1>3, <2>1, KeptTodo DEF Quiet
  <2>3. AtJob' => Suits(job) /\ Wanted(job[2])
    BY <1>2, <2>1, FoundSplit
  <2>4. AtJob' => Suits(job)' /\ Wanted(job[2])'
    BY <1>1, <2>1, <2>3, KeptJob DEF Quiet
  <2>5. ASSUME loop' = "build", pc' = "lock" PROVE ~Fails(job[1])'
    <3>1. Configure /\ loop # "sync"
      BY <1>5, <2>1, <2>5, LockWritten
    <3>2. ~Fails(job[1])
      BY <2>5, <3>1, Configured DEF Buildable, Found
    <3>3. AtJob
      BY <2>1, <2>5 DEF AtJob
    <3>4. job[1] \in Target
      BY <3>3, JobTyped
    <3>5. PICK t \in Target : t = job[1]
      BY <3>4
    <3>6. Fails(t)' = Fails(t)
      BY <1>1, QuietSearch DEF Quiet, Kept
    <3>7. ~Fails(t)'
      BY <3>2, <3>5, <3>6
    <3>8. QED
      BY <2>1, <3>5, <3>7 DEF Fails
  <2>6. QED
    BY <1>4, <2>2, <2>4, <2>5, FoundAfter
<1>6. CASE Select
  <2>1. /\ pc' \in {"failed", "activate"} /\ job' = job
        /\ \/ todo' = todo
           \/ /\ todo' \in Seq(Target \X Package)
              /\ \A i \in DOMAIN todo' : /\ Found(todo'[i][1]) /\ todo'[i][2] \in Available(todo'[i][1])
                                         /\ Wanted(todo'[i][2])
    BY <1>6, SelectedTodo
  <2>2. TodoCore'
    <3>1. CASE todo' = todo
      BY <1>1, <1>3, <3>1, KeptTodo DEF Quiet
    <3>2. CASE /\ todo' \in Seq(Target \X Package)
               /\ \A i \in DOMAIN todo' : /\ Found(todo'[i][1]) /\ todo'[i][2] \in Available(todo'[i][1])
                                          /\ Wanted(todo'[i][2])
      <4>1. PICK s \in Seq(Target \X Package) : s = todo'
        BY <3>2
      <4>2. \A i \in DOMAIN s : s[i] \in Target \X Package /\ s[i] = <<s[i][1], s[i][2]>>
        BY <4>1
      <4>3. \A i \in DOMAIN s : Found(s[i][1]) /\ s[i][2] \in Available(s[i][1]) /\ Wanted(s[i][2])
        BY <3>2, <4>1
      <4>4. \A i \in DOMAIN s : Suits(s[i])
        BY <1>2, <1>3, <4>2, <4>3, AvailableSuits
      <4>5. \A i \in DOMAIN s : Suits(s[i])' /\ Wanted(s[i][2])'
        BY <1>1, <4>3, <4>4, KeptSuits, KeptWanted DEF Quiet, Kept
      <4>6. QED
        BY <4>1, <4>5 DEF TodoCore, Suits, CommitOf, Wanted
    <3>3. QED
      BY <2>1, <3>1, <3>2
  <2>3. ~AtJob' /\ pc' # "lock"
    BY <2>1 DEF Installing, AtJob
  <2>4. QED
    BY <1>4, <2>2, <2>3, FoundAfter
<1>7. CASE Activate
  <2>1. todo # <<>> /\ todo \in Seq(Target \X Package) /\ job' = Head(todo) /\ todo' = Tail(todo) /\ pc' = "unlink"
    BY <1>7 DEF Activate, Go, CacheTyped
  <2>2. 1 \in DOMAIN todo /\ job' = todo[1]
    BY <2>1
  <2>3. \A i \in DOMAIN todo' : i + 1 \in DOMAIN todo /\ todo'[i] = todo[i + 1]
    BY <2>1
  <2>4. PICK j : j = job'
    OBVIOUS
  <2>5. Suits(j) /\ Wanted(j[2])
    BY <1>3, <2>2, <2>4 DEF TodoCore
  <2>6. Suits(j)' /\ Wanted(j[2])'
    BY <1>1, <2>5, KeptSuits, KeptWanted DEF Quiet, Kept
  <2>7. Suits(job)' /\ Wanted(job[2])'
    BY <2>4, <2>6 DEF Suits, CommitOf, Wanted
  <2>8. PICK s : s = todo
    OBVIOUS
  <2>9. TodoCore'
    <3>1. \A i \in DOMAIN s : Suits(s[i])' /\ Wanted(s[i][2])'
      BY <1>1, <1>3, <2>8, KeptSuits, KeptWanted DEF Quiet, Kept, TodoCore
    <3>2. \A i \in DOMAIN todo' : i + 1 \in DOMAIN s /\ todo'[i] = s[i + 1]
      BY <2>3, <2>8
    <3>3. QED
      BY <3>1, <3>2 DEF TodoCore, Suits, CommitOf, Wanted
  <2>10. QED
    BY <1>4, <2>1, <2>7, <2>9, FoundAfter
<1>8. CASE CargoEnds \/ InterfacesDone \/ BuildDone
  <2>1. UNCHANGED <<job, todo>> /\ pc' \in {"activate", "select", "ok"}
    BY <1>8 DEF CargoEnds, InterfacesDone, BuildDone, Go
  <2>2. TodoCore'
    BY <1>1, <1>3, <2>1, KeptTodo DEF Quiet
  <2>3. ~AtJob' /\ pc' # "lock"
    BY <2>1 DEF Installing, AtJob
  <2>4. QED
    BY <1>4, <2>2, <2>3, FoundAfter
<1>9. QED
  BY <1>5, <1>6, <1>7, <1>8 DEF Build

LEMMA FoundStep == ASSUME CacheTyped, FoundInv, Next PROVE FoundInv'
<1>1. CASE Begin \/ Fail \/ Kill \/ Forget
  <2>1. pc' \in Waiting \cup {"choose"}
    BY <1>1 DEF Begin, Fail, Kill, Forget, Go, Waiting
  <2>2. QED
    BY <2>1 DEF FoundInv
<1>2. QED
  BY <1>1, SyncFound, InstallFound, BuildFound DEF Next

-----------------------------------------------------------------------------
(* What of an interface is installed. *)

\* The package a build has installed is one that Elm.lock is to list, unless the
\* lookup of its target is skipped.
LEMMA JobIsLocked ==
    ASSUME CacheTyped, FoundInv, JobInv, pc = "lock", loop = "build", NEW T, job[1] \notin T
    PROVE  job \in Packages(T)
<1>0. AtJob
  BY DEF AtJob
<1>1. /\ job \in Target \X Package /\ job[1] \in Target /\ job[2] \in Package /\ job = <<job[1], job[2]>>
      /\ Suits(job) /\ CommitOf(job) # 0 /\ job[2] # 0
  BY <1>0, JobTyped
<1>2. pc \notin Waiting \cup {"choose"}
  BY DEF Waiting
<1>3. ~Fails(job[1]) /\ Wanted(job[2])
  BY <1>0, <1>2, FoundSplit
<1>4. link[job[1]] = job[2]
  BY DEF JobInv
<1>5. Loads(job[1])
  BY <1>1, <1>4 DEF Loads, CommitOf
<1>6. job \in Links
  BY <1>1, <1>4, <1>5, LinkLoads
<1>7. job \in Searched
  BY <1>1, <1>6 DEF Searched, Suits
<1>8. job[2] \in Available(job[1])
  BY <1>1, <1>7 DEF Available, CommitOf
<1>9. QED
  BY <1>1, <1>3, <1>8 DEF Packages

LEMMA JobStep == ASSUME CacheTyped, FoundInv, JobInv, Next PROVE JobInv'
<1> DEFINE steps == {"identity", "host", "aside", "sources"}
<1>1. ASSUME pc' \notin steps \cup {"config", "lock", "cargo"} PROVE JobInv'
  BY <1>1 DEF JobInv
<1>2. CASE Begin \/ Fail \/ Kill \/ Forget
  BY <1>1, <1>2 DEF Begin, Fail, Kill, Forget, Go
<1>3. CASE Sync
  <2>1. pc' \in {"away", "failed", "swap", "targets", "unlink"} \/ (pc' = "config" /\ loop' = "sync")
    BY <1>3, NextTargetSteps DEF Sync, ChooseFramework, FrameworkAway, FrameworkIn, TargetsDone, Go, CacheTyped
  <2>2. CASE pc' = "config" /\ loop' = "sync"
    BY <2>2 DEF JobInv
  <2>3. QED
    BY <1>1, <2>1, <2>2
<1>4. CASE Install
  <2>1. pc \in Installing
    BY <1>4 DEF Install, Unlink, Link, CopyIdentity, CopyHostIdentity, SourcesAside, SourcesIn, Installing
  <2>2. job[1] \in Target /\ job[2] \in Package
    BY <2>1, JobTyped DEF AtJob
  <2>3. CASE Unlink
    BY <1>1, <2>3 DEF Unlink, Go
  <2>4. CASE Link
    <3>1. pc' = "identity" /\ link'[job[1]] = job[2] /\ job' = job
      BY <2>2, <2>4 DEF Link, Go, CacheTyped
    <3>2. QED
      BY <3>1 DEF JobInv
  <2>5. CASE CopyIdentity
    <3>1. IsFramework(framework)
      BY DEF CacheTyped
    <3>2. framework' = [framework EXCEPT !.identity = [framework.identity EXCEPT ![job[1]] = Hash(job[1], job[2])]]
      BY <2>5 DEF CopyIdentity
    <3>3. framework'.identity[job[1]] = Hash(job[1], job[2])
      BY <2>2, <3>1, <3>2, IdentityTyped
    <3>4. pc = "identity" /\ pc' = "host" /\ UNCHANGED <<link, repository, job>>
      BY <2>5 DEF CopyIdentity, Go, Stay, world
    <3>5. QED
      BY <3>3, <3>4 DEF JobInv, Hash
  <2>6. CASE CopyHostIdentity
    <3>1. /\ pc = "host" /\ pc' \in {"targets", "aside"} /\ UNCHANGED <<link, repository, job>>
          /\ framework'.identity = framework.identity /\ framework'.host = Hash(job[1], job[2])
      BY <2>6, HostTyped DEF CopyHostIdentity, Go, Stay, world, CacheTyped
    <3>2. QED
      BY <3>1 DEF JobInv, Hash
  <2>7. CASE SourcesAside
    BY <2>7 DEF SourcesAside, Go, Stay, world, JobInv, Hash
  <2>8. CASE SourcesIn
    BY <2>8 DEF SourcesIn, Go, Stay, world, JobInv, Hash
  <2>9. QED
    BY <1>4, <2>3, <2>4, <2>5, <2>6, <2>7, <2>8 DEF Install
<1>5. CASE Configure
  <2>1. CASE loop = "sync"
    BY <1>5, <2>1, Configured DEF JobInv
  <2>2. CASE loop # "sync" /\ pc' = "lock"
    <3>1. /\ pc = "config" /\ loop = "build" /\ cargoConfig' = Hash(job[1], job[2])
          /\ UNCHANGED <<framework, link, sources, job, world>>
      BY <1>5, <2>2, Configured DEF CacheTyped
    <3>2. QED
      BY <2>2, <3>1 DEF JobInv, Hash, world
  <2>3. CASE pc' = "failed"
    BY <1>1, <2>3
  <2>4. QED
    BY <1>5, <2>1, <2>2, <2>3, Configured
<1>6. CASE WriteLock
  <2>1. CASE loop = "build"
    <3>1. /\ pc = "lock" /\ pc' = "cargo" /\ UNCHANGED <<link, repository, job, framework, sources, cargoConfig>>
      BY <1>6, <2>1, LockWritten DEF world
    <3>2. PICK T \in SUBSET Target : missed' = missed \cup T /\ lock' = {Hash(x[1], x[2]) : x \in Packages(T)}
      BY <1>6, LockWritten
    <3>3. job[1] \notin missed' => Hash(job[1], job[2]) \in lock'
      BY <2>1, <3>1, <3>2, JobIsLocked
    <3>4. QED
      BY <2>1, <3>1, <3>3 DEF JobInv, Hash
  <2>2. CASE loop # "build"
    BY <1>1, <1>6, <2>2, LockWritten
  <2>3. QED
    BY <2>1, <2>2
<1>7. CASE Select
  BY <1>1, <1>7, SelectedTodo
<1>8. CASE Activate \/ CargoEnds \/ InterfacesDone \/ BuildDone
  BY <1>1, <1>8 DEF Activate, CargoEnds, InterfacesDone, BuildDone, Go
<1>9. QED
  BY <1>2, <1>3, <1>4, <1>5, <1>6, <1>7, <1>8 DEF Next, Build

-----------------------------------------------------------------------------
(* The backups. *)

LEMMA BackupStep == ASSUME CacheTyped, FoundInv, BackupInv, Next PROVE BackupInv'
<1> USE DEF Go, Stay, history, had, world, local
<1>1. CASE Begin
  BY <1>1 DEF Begin, BackupInv, BackupsRestored
<1>2. CASE Forget
  BY <1>2 DEF Forget, BackupInv, BackupsRestored, Waiting
<1>3. CASE Fail
  BY <1>3 DEF Fail, MayFail, control, BackupInv, BackupsRestored, Waiting
<1>4. CASE Kill
  BY <1>4 DEF Kill, control, BackupInv, BackupsRestored, Waiting
<1>5. CASE ChooseFramework \/ NextTarget \/ TargetsDone \/ Unlink \/ Link
  <2>1. UNCHANGED <<had, framework, sources>> /\ pc \notin Waiting \cup {"swap", "sources"} /\ pc' # "swap"
    <3>1. CASE ChooseFramework
      BY <3>1, SkippedKept DEF ChooseFramework, Waiting
    <3>2. CASE NextTarget
      BY <3>2, NextTargetSteps DEF Waiting
    <3>3. CASE TargetsDone \/ Unlink \/ Link
      BY <3>3 DEF TargetsDone, Unlink, Link, Waiting
    <3>4. QED
      BY <1>5, <3>1, <3>2, <3>3
  <2>2. QED
    BY <2>1 DEF BackupInv, BackupsRestored
<1>6. CASE FrameworkAway
  <2>1. aside'.framework = framework
    BY <1>6 DEF FrameworkAway, CacheTyped
  <2>2. QED
    BY <1>6, <2>1 DEF FrameworkAway, BackupInv, BackupsRestored, Waiting
<1>7. CASE FrameworkIn
  <2>1. chosen.commit # 0
    BY <1>7, FoundSplit DEF FrameworkIn, Waiting, FoundCore
  <2>2. QED
    BY <1>7, <2>1 DEF FrameworkIn, BackupInv, BackupsRestored, Waiting
<1>8. CASE CopyIdentity \/ CopyHostIdentity
  <2>1. framework'.commit = framework.commit
    <3>1. IsFramework(framework) /\ job[1] \in Target
      BY <1>8, JobTyped DEF CacheTyped, CopyIdentity, CopyHostIdentity, Installing, AtJob
    <3>2. CASE CopyIdentity
      BY <3>1, <3>2, IdentityTyped DEF CopyIdentity
    <3>3. CASE CopyHostIdentity
      BY <3>1, <3>3, HostTyped DEF CopyHostIdentity
    <3>4. QED
      BY <1>8, <3>2, <3>3
  <2>2. UNCHANGED <<had, sources>> /\ pc \notin Waiting \cup {"swap", "sources"} /\ pc' # "swap" /\ pc' # "failed"
    BY <1>8 DEF CopyIdentity, CopyHostIdentity, Waiting
  <2>3. QED
    BY <2>1, <2>2 DEF BackupInv, BackupsRestored
<1>9. CASE SourcesAside
  <2> DEFINE there == sources # <<>> /\ Exists(sources)
  <2>1. aside' = [aside EXCEPT !.sources = IF there THEN sources ELSE <<>>]
        /\ sources' = (IF there THEN <<>> ELSE sources) /\ pc = "aside" /\ pc' = "sources" /\ framework' = framework
        /\ UNCHANGED had
    BY <1>9 DEF SourcesAside
  <2>2. there => sources # <<>>
    OBVIOUS
  <2> HIDE DEF there
  <2>3. aside'.sources = IF there THEN sources ELSE <<>>
    BY <2>1 DEF CacheTyped
  <2>4. QED
    BY <2>1, <2>2, <2>3 DEF BackupInv, BackupsRestored, Waiting
<1>10. CASE SourcesIn
  <2>1. job # <<>>
    BY <1>10, JobTyped DEF SourcesIn, Installing, AtJob
  <2>2. QED
    BY <1>10, <2>1 DEF SourcesIn, BackupInv, BackupsRestored, Waiting
<1>11. CASE Build
  <2>1. /\ UNCHANGED <<had, framework, sources>> /\ pc \in {"config", "lock", "select", "activate", "cargo"}
    BY <1>11, BuildQuiet
  <2>2. pc' # "swap"
    BY <1>11, SelectedTodo, Configured, LockWritten DEF Build, Activate, CargoEnds, InterfacesDone, BuildDone
  <2>3. QED
    BY <2>1, <2>2 DEF BackupInv, BackupsRestored, Waiting
<1>12. QED
  BY <1>1, <1>2, <1>3, <1>4, <1>5, <1>6, <1>7, <1>8, <1>9, <1>10, <1>11 DEF Next, Sync, Install


-----------------------------------------------------------------------------
(* A sync. *)

LEMMA SyncSplit ==
    ASSUME SyncInv, loop = "sync", pc \in Installing \cup {"targets", "config", "lock"}
    PROVE  /\ Covered
           /\ pc \in Installing => index - 1 \in DOMAIN Targets /\ job[1] = Targets[index - 1]
           /\ pc \in {"aside", "sources"} => ~installed
           /\ pc \in {"config", "lock"} => index > Len(Targets)
           /\ pc = "lock" /\ (\A t \in Target : Loads(t) => t \notin missed) => cargoConfig = Active({})
  BY DEF SyncInv

LEMMA SyncAfter ==
    ASSUME Covered',
           pc' \in Installing => index' - 1 \in DOMAIN Targets /\ job'[1] = Targets[index' - 1],
           pc' \in {"aside", "sources"} => ~installed',
           pc' \in {"config", "lock"} => index' > Len(Targets),
           pc' = "lock" /\ (\A t \in Target : Loads(t)' => t \notin missed') => cargoConfig' = Active({})'
    PROVE  SyncInv'
  BY DEF SyncInv

\* A target whose link and identity stay.
LEMMA KeptTarget ==
    ASSUME Kept, NEW t \in Target, link'[t] = link[t]
    PROVE  /\ Serves(t)' => Serves(t)
           /\ framework'.identity[t] = framework.identity[t] /\ Served(t) => Served(t)'
           /\ Loads(t)' <=> Loads(t)
           /\ Hash(t, link[t])' = Hash(t, link[t])
<1>1. (Loads(t)' <=> Loads(t)) /\ Hash(t, link[t])' = Hash(t, link[t])
  BY DEF Loads, Hash, Kept, world
<1>2. ~call.project => (Found(t)' <=> Found(t))
  BY RootSearch DEF Kept
<1>3. Serves(t)' => Serves(t)
  BY <1>1, <1>2 DEF Serves, Kept
<1>4. framework'.identity[t] = framework.identity[t] /\ Served(t) => Served(t)'
  BY <1>1 DEF Served, Kept
<1>5. QED
  BY <1>1, <1>3, <1>4

\* A step that leaves alone the targets a sync is through with.
LEMMA CoveredKept ==
    ASSUME CacheTyped, Covered, Kept, installed' = installed, sources' = sources,
           \A i \in DOMAIN Targets : Through(i)' <=> Through(i),
           \A i \in DOMAIN Targets : Through(i) =>
               /\ link'[Targets[i]] = link[Targets[i]]
               /\ framework'.identity[Targets[i]] = framework.identity[Targets[i]],
           pc' = "link" \/ Links' # {} \/ (link' = link /\ pc # "link")
    PROVE  Covered'
<1>0. \A i \in DOMAIN Targets : Targets[i] \in Target
  BY TargetsTyped
<1>1. \A i \in DOMAIN Targets : Through(i) =>
          /\ Serves(Targets[i])' => Serves(Targets[i])
          /\ Served(Targets[i]) => Served(Targets[i])'
          /\ Loads(Targets[i])' <=> Loads(Targets[i])
  BY <1>0, KeptTarget
<1>2. \A i \in DOMAIN Targets : Through(i)' /\ Serves(Targets[i])' => Served(Targets[i])'
  BY <1>1 DEF Covered
<1>3. call'.project /\ SearchesRoot' =>
          \A i \in DOMAIN Targets : Through(i)' /\ Targets[i] \notin missed' => ~Found(Targets[i])'
  <2> SUFFICES ASSUME call'.project, SearchesRoot'
               PROVE  \A i \in DOMAIN Targets : Through(i)' /\ Targets[i] \notin missed' => ~Found(Targets[i])'
    OBVIOUS
  <2>1. call.project /\ link' = link /\ pc # "link"
    BY DEF SearchesRoot, Kept
  <2>2. Links' = Links /\ \A t \in Target : Found(t)' = Found(t)
    BY <2>1, QuietSearch DEF Kept
  <2>3. SearchesRoot
    BY <2>1, <2>2 DEF SearchesRoot
  <2>4. QED
    BY <1>0, <2>1, <2>2, <2>3 DEF Covered, Kept
<1>4. ~installed' => \A i \in DOMAIN Targets : Through(i)' => ~Serves(Targets[i])'
  BY <1>1 DEF Covered
<1>5. ASSUME installed'
      PROVE  \E k \in DOMAIN Targets :
               /\ Through(k)' /\ Loads(Targets[k])' /\ sources' = <<Targets[k], link'[Targets[k]]>>
               /\ \A j \in DOMAIN Targets : j < k => ~Serves(Targets[j])'
  <2>1. PICK k \in DOMAIN Targets :
               /\ Through(k) /\ Loads(Targets[k]) /\ sources = <<Targets[k], link[Targets[k]]>>
               /\ \A j \in DOMAIN Targets : j < k => ~Serves(Targets[j])
    BY <1>5 DEF Covered
  <2>2. \A j \in DOMAIN Targets : j < k => Through(j)
    <3>1. index \in Nat /\ \A j \in DOMAIN Targets : j \in Nat
      BY TargetsTyped DEF CacheTyped
    <3>2. QED
      BY <2>1, <3>1 DEF Through
  <2>3. \A j \in DOMAIN Targets : j < k => ~Serves(Targets[j])'
    BY <1>1, <2>1, <2>2
  <2>4. Through(k)' /\ Loads(Targets[k])' /\ sources' = <<Targets[k], link'[Targets[k]]>>
    BY <1>1, <2>1
  <2>5. QED
    BY <2>3, <2>4
<1>6. QED
  BY <1>2, <1>3, <1>4, <1>5 DEF Covered

\* A target that is skipped is one that a sync does not serve.
LEMMA SkippedTarget ==
    ASSUME CacheTyped, Quiet, NEW t \in Target, t \in missed' \/ ~Found(t)
    PROVE  ~Serves(t)' /\ (t \notin missed' => ~Found(t)')
<1>1. Found(t)' = Found(t) /\ Loads(t)' = Loads(t)
  BY QuietSearch DEF Quiet, Kept
<1>2. call.project /\ Loads(t) => Found(t)
  <2> SUFFICES ASSUME call.project, Loads(t) PROVE Found(t)
    OBVIOUS
  <2>1. Links # {}
    BY LinkLoads
  <2>2. QED
    BY <2>1, ProjectFinds
<1>3. QED
  BY <1>1, <1>2 DEF Serves, Quiet, Kept

LEMMA NextTargetSync == ASSUME CacheTyped, FoundInv, SyncInv, NextTarget PROVE SyncInv'
<1>1. PICK n \in DOMAIN Targets : n = index
  BY NextTargetSteps
<1>2. PICK t \in Target : t = Targets[n]
  BY TargetsTyped
<1>3. /\ Quiet /\ UNCHANGED <<local, loop, installed>> /\ loop = "sync" /\ pc = "targets"
      /\ index' = n + 1 /\ pc' \in {"targets", "unlink"}
      /\ pc' = "targets" => t \in missed' \/ ~Found(t)
      /\ pc' = "unlink" => job'[1] = t
  BY <1>1, <1>2, NextTargetSteps DEF Quiet, local
<1>4. Covered
  BY <1>3, SyncSplit
<1>5. "targets" \notin Installing /\ "unlink" \in Installing /\ n \in Nat
  BY TargetsTyped DEF Installing
<1>6. CASE pc' = "unlink"
  <2>1. \A i \in DOMAIN Targets : Through(i)' <=> Through(i)
    BY <1>1, <1>3, <1>5, <1>6, TargetsTyped DEF Through
  <2>2. Covered'
    BY <1>3, <1>4, <2>1, CoveredKept DEF local, Quiet
  <2>3. QED
    BY <1>1, <1>2, <1>3, <1>5, <1>6, <2>2, SyncAfter
<1>7. CASE pc' = "targets"
  <2>1. \A i \in DOMAIN Targets : Through(i)' <=> Through(i) \/ i = n
    BY <1>1, <1>3, <1>5, <1>7, TargetsTyped DEF Through
  <2>2. ~Serves(t)' /\ (t \notin missed' => ~Found(t)')
    BY <1>3, <1>7, SkippedTarget
  <2>3. \A u \in Target : /\ Serves(u)' => Serves(u)
                          /\ Served(u) => Served(u)'
                          /\ Loads(u)' <=> Loads(u)
    BY <1>3, KeptTarget DEF Quiet, local
  <2>4. Covered'
    <3>0. \A i \in DOMAIN Targets : Targets[i] \in Target
      BY TargetsTyped
    <3>1. ASSUME NEW i \in DOMAIN Targets, NEW u \in Target, u = Targets[i], Through(i)', Serves(u)'
          PROVE  Through(i) /\ Serves(u) /\ Served(u)'
      <4>1. u # t /\ i # n
        BY <1>2, <2>2, <3>1
      <4>2. Through(i) /\ Serves(u)
        BY <2>1, <2>3, <3>1, <4>1
      <4>3. Served(u)
        BY <1>4, <3>1, <4>2 DEF Covered
      <4>4. QED
        BY <2>3, <4>2, <4>3
    <3>2. \A i \in DOMAIN Targets : Through(i)' /\ Serves(Targets[i])' => Served(Targets[i])'
      BY <3>0, <3>1
    <3>3. call'.project /\ SearchesRoot' =>
              \A i \in DOMAIN Targets : Through(i)' /\ Targets[i] \notin missed' => ~Found(Targets[i])'
      <4>1. Links' = Links /\ \A u \in Target : Found(u)' = Found(u)
        BY <1>3, QuietSearch DEF Quiet, Kept
      <4>2. SearchesRoot' => SearchesRoot
        BY <1>3, <4>1 DEF SearchesRoot, Quiet, Kept
      <4>3. call'.project /\ SearchesRoot' =>
               \A i \in DOMAIN Targets : Through(i) /\ Targets[i] \notin missed => ~Found(Targets[i])
        BY <1>3, <1>4, <4>2 DEF Covered, Quiet, Kept
      <4>4. missed \subseteq missed'
        BY <1>3 DEF Quiet, Kept
      <4>5. ASSUME NEW i \in DOMAIN Targets, NEW u \in Target, u = Targets[i],
                   call'.project /\ SearchesRoot', Through(i)', u \notin missed'
            PROVE  ~Found(u)'
        <5>1. CASE i = n
          BY <1>2, <2>2, <4>5, <5>1
        <5>2. CASE i # n
          BY <2>1, <4>1, <4>3, <4>4, <4>5, <5>2
        <5>3. QED
          BY <5>1, <5>2
      <4>6. QED
        BY <3>0, <4>5
    <3>4. ~installed' => \A i \in DOMAIN Targets : Through(i)' => ~Serves(Targets[i])'
      <4>1. ~installed' => \A i \in DOMAIN Targets : Through(i) => ~Serves(Targets[i])
        BY <1>3, <1>4 DEF Covered
      <4>2. QED
        BY <3>0, <3>1, <4>1
    <3>5. installed' => \E k \in DOMAIN Targets :
               /\ Through(k)' /\ Loads(Targets[k])' /\ sources' = <<Targets[k], link'[Targets[k]]>>
               /\ \A j \in DOMAIN Targets : j < k => ~Serves(Targets[j])'
      <4>1. installed' => \E k \in DOMAIN Targets :
               /\ Through(k) /\ Loads(Targets[k]) /\ sources = <<Targets[k], link[Targets[k]]>>
               /\ \A j \in DOMAIN Targets : j < k => ~Serves(Targets[j])
        BY <1>3, <1>4 DEF Covered
      <4>2. sources' = sources /\ link' = link
        BY <1>3 DEF local
      <4>3. ASSUME NEW k \in DOMAIN Targets, NEW u \in Target, u = Targets[k], Through(k), Loads(u),
                   sources = <<u, link[u]>>, \A j \in DOMAIN Targets : j < k => ~Serves(Targets[j])
            PROVE  /\ Through(k)' /\ Loads(u)' /\ sources' = <<u, link'[u]>>
                   /\ \A j \in DOMAIN Targets : j < k => ~Serves(Targets[j])'
        <5>1. Through(k)' /\ Loads(u)' /\ sources' = <<u, link'[u]>>
          BY <2>1, <2>3, <4>2, <4>3
        <5>2. ASSUME NEW j \in DOMAIN Targets, j < k, NEW v \in Target, v = Targets[j] PROVE ~Serves(v)'
          <6>1. ~Serves(v)
            BY <4>3, <5>2
          <6>2. QED
            BY <2>3, <6>1
        <5>3. QED
          BY <3>0, <5>1, <5>2
      <4>4. QED
        BY <3>0, <4>1, <4>3
    <3>6. QED
      BY <3>2, <3>3, <3>4, <3>5 DEF Covered
  <2>5. QED
    BY <1>5, <1>7, <2>4, SyncAfter
<1>8. QED
  BY <1>3, <1>6, <1>7

\* Two targets are two places of the list.
LEMMA ThroughIsOther ==
    ASSUME CacheTyped, pc \in Installing, index - 1 \in DOMAIN Targets, job[1] = Targets[index - 1]
    PROVE  \A i \in DOMAIN Targets : Through(i) => Targets[i] # job[1] /\ Targets[i] \in Target
<1>1. \A i \in DOMAIN Targets : Through(i) => i # index - 1
  BY TargetsTyped DEF Through, CacheTyped
<1>2. QED
  BY <1>1, TargetsTyped

\* A target is installed: its link loads, and a sync is through with it.
LEMMA CoveredMore ==
    ASSUME CacheTyped, Covered, Quiet, NEW n \in DOMAIN Targets,
           \A i \in DOMAIN Targets : Through(i)' <=> Through(i) \/ i = n,
           \A i \in DOMAIN Targets : framework'.identity[Targets[i]] = framework.identity[Targets[i]],
           Loads(Targets[n]), Served(Targets[n]), installed',
           \E k \in DOMAIN Targets :
               /\ Through(k)' /\ Loads(Targets[k]) /\ sources' = <<Targets[k], link[Targets[k]]>>
               /\ \A j \in DOMAIN Targets : j < k => ~Serves(Targets[j])
    PROVE  Covered'
<1>0. \A i \in DOMAIN Targets : Targets[i] \in Target
  BY TargetsTyped
<1>1. \A i \in DOMAIN Targets : /\ Serves(Targets[i])' => Serves(Targets[i])
                                /\ Served(Targets[i]) => Served(Targets[i])'
                                /\ Loads(Targets[i])' <=> Loads(Targets[i])
  BY <1>0, KeptTarget DEF Quiet
<1>2. \A i \in DOMAIN Targets : Through(i)' /\ Serves(Targets[i])' => Served(Targets[i])'
  BY <1>1 DEF Covered
<1>3. Links' # {}
  <2>1. Links # {}
    BY <1>0, LinkLoads
  <2>2. Links' = Links
    BY QuietSearch DEF Quiet, Kept
  <2>3. QED
    BY <2>1, <2>2
<1>4. ~(call'.project /\ SearchesRoot')
  BY <1>3 DEF SearchesRoot
<1>5. \E k \in DOMAIN Targets :
         /\ Through(k)' /\ Loads(Targets[k])' /\ sources' = <<Targets[k], link'[Targets[k]]>>
         /\ \A j \in DOMAIN Targets : j < k => ~Serves(Targets[j])'
  BY <1>1 DEF Quiet
<1>6. QED
  BY <1>2, <1>4, <1>5 DEF Covered

LEMMA InstallSync == ASSUME CacheTyped, FoundInv, JobInv, SyncInv, Install PROVE SyncInv'
<1> USE DEF Stay, Go
<1>1. pc \in Installing /\ AtJob /\ loop' = loop /\ index' = index /\ job' = job /\ Kept
  BY DEF Install, Unlink, Link, CopyIdentity, CopyHostIdentity, SourcesAside, SourcesIn, Installing, AtJob,
     Kept, history
<1>2. CASE loop # "sync"
  BY <1>1, <1>2 DEF SyncInv
<1>3. CASE loop = "sync"
  <2>1. /\ Covered /\ index - 1 \in DOMAIN Targets /\ job[1] = Targets[index - 1] /\ index \in Nat
        /\ pc \in {"aside", "sources"} => ~installed
    BY <1>1, <1>3, SyncSplit DEF CacheTyped
  <2>2. /\ job \in Target \X Package /\ job[1] \in Target /\ job[2] \in Package /\ job = <<job[1], job[2]>>
        /\ CommitOf(job) # 0 /\ job[2] # 0 /\ (~call.project => job \in call.root)
    BY <1>1, JobTyped DEF Suits
  <2>3. \A i \in DOMAIN Targets : Through(i) => Targets[i] # job[1] /\ Targets[i] \in Target
    BY <1>1, <2>1, ThroughIsOther
  <2>4. ASSUME pc' \in Installing PROVE \A i \in DOMAIN Targets : Through(i)' <=> Through(i)
    BY <1>1, <2>4 DEF Through
  <2>5. CASE Unlink \/ Link
    <3>1. pc' \in Installing /\ pc' \in {"link", "identity"} /\ UNCHANGED <<installed, sources, framework>>
      BY <2>5 DEF Unlink, Link, Installing
    <3>2. \A i \in DOMAIN Targets : Through(i) => link'[Targets[i]] = link[Targets[i]]
      BY <2>2, <2>3, <2>5 DEF Unlink, Link, CacheTyped
    <3>3. pc' = "link" \/ Links' # {}
      <4>1. CASE Unlink
        BY <4>1 DEF Unlink
      <4>2. CASE Link
        <5>1. link'[job[1]] = job[2]
          BY <2>2, <4>2 DEF Link, CacheTyped
        <5>2. job \in Links'
          BY <1>1, <2>2, <5>1 DEF Links, Exists, CommitOf, Kept, world
        <5>3. QED
          BY <5>2
      <4>3. QED
        BY <2>5, <4>1, <4>2
    <3>4. Covered'
      BY <1>1, <2>1, <2>4, <3>1, <3>2, <3>3, CoveredKept
    <3>5. QED
      BY <1>1, <2>1, <3>1, <3>4, SyncAfter
  <2>6. CASE CopyIdentity
    <3>1. pc = "identity" /\ pc' \in Installing /\ pc' = "host" /\ UNCHANGED <<installed, sources, link>>
      BY <2>6 DEF CopyIdentity, Installing
    <3>2. IsFramework(framework)
      BY DEF CacheTyped
    <3>3. framework' = [framework EXCEPT !.identity = [framework.identity EXCEPT ![job[1]] = Hash(job[1], job[2])]]
      BY <2>6 DEF CopyIdentity
    <3>4. \A u \in Target \ {job[1]} : framework'.identity[u] = framework.identity[u]
      BY <2>2, <3>2, <3>3, IdentityTyped
    <3>5. \A i \in DOMAIN Targets : Through(i) => framework'.identity[Targets[i]] = framework.identity[Targets[i]]
      BY <2>3, <3>4
    <3>6. Covered'
      BY <1>1, <2>1, <2>4, <3>1, <3>5, CoveredKept
    <3>7. QED
      BY <1>1, <2>1, <3>1, <3>6, SyncAfter
  <2>7. CASE SourcesAside
    <3>1. /\ pc = "aside" /\ pc' \in Installing /\ pc' = "sources" /\ UNCHANGED <<installed, framework, link>>
      BY <2>7 DEF SourcesAside, Installing
    <3>2. ~installed /\ ~installed' /\ Quiet
      BY <1>1, <2>1, <3>1 DEF Quiet
    <3>3. \A i \in DOMAIN Targets : Through(i)' => ~Serves(Targets[i])'
      BY <2>1, <2>3, <2>4, <3>1, <3>2, KeptTarget DEF Covered, Quiet
    <3>4. Links' = Links /\ \A t \in Target : Found(t)' = Found(t)
      BY <3>2, QuietSearch DEF Quiet, Kept
    <3>5. SearchesRoot' => SearchesRoot
      BY <3>1, <3>2, <3>4 DEF SearchesRoot, Quiet, Kept
    <3>6. call'.project /\ SearchesRoot' =>
              \A i \in DOMAIN Targets : Through(i)' /\ Targets[i] \notin missed' => ~Found(Targets[i])'
      BY <2>1, <2>3, <2>4, <3>1, <3>2, <3>4, <3>5 DEF Covered, Quiet, Kept
    <3>7. Covered'
      BY <3>2, <3>3, <3>6 DEF Covered
    <3>8. QED
      BY <1>1, <2>1, <3>1, <3>2, <3>7, SyncAfter
  <2>8. PICK n \in DOMAIN Targets : n = index - 1
    BY <2>1
  <2>9. ASSUME pc' = "targets" PROVE \A i \in DOMAIN Targets : Through(i)' <=> Through(i) \/ i = n
    <3>1. pc' \notin Installing
      BY <2>9 DEF Installing
    <3>2. QED
      BY <1>1, <2>1, <2>8, <3>1, TargetsTyped DEF Through
  <2>10. pc \in {"host", "sources"} => Loads(Targets[n]) /\ Served(Targets[n]) /\ link[Targets[n]] = job[2]
    <3> SUFFICES ASSUME pc \in {"host", "sources"}
                 PROVE  Loads(Targets[n]) /\ Served(Targets[n]) /\ link[Targets[n]] = job[2]
      OBVIOUS
    <3>1. link[Targets[n]] = job[2] /\ framework.identity[Targets[n]] = Hash(job[1], job[2]) /\ Targets[n] = job[1]
      BY <2>1, <2>8 DEF JobInv
    <3>2. Loads(Targets[n])
      BY <2>2, <3>1 DEF Loads, CommitOf
    <3>3. QED
      BY <2>2, <3>1, <3>2 DEF Served
  <2>11. CASE CopyHostIdentity
    <3>1. pc = "host" /\ UNCHANGED <<installed, sources, link>> /\ framework'.identity = framework.identity /\ Quiet
      BY <1>1, <2>11, HostTyped DEF CopyHostIdentity, CacheTyped, Quiet
    <3>2. CASE installed
      <4>1. pc' = "targets"
        BY <1>3, <2>11, <3>2 DEF CopyHostIdentity
      <4>2. PICK k \in DOMAIN Targets :
               /\ Through(k) /\ Loads(Targets[k]) /\ sources = <<Targets[k], link[Targets[k]]>>
               /\ \A j \in DOMAIN Targets : j < k => ~Serves(Targets[j])
        BY <2>1, <3>2 DEF Covered
      <4>3. \A i \in DOMAIN Targets : Through(i)' <=> Through(i) \/ i = n
        BY <2>9, <4>1
      <4>4. Covered'
        BY <2>1, <2>10, <3>1, <3>2, <4>2, <4>3, CoveredMore
      <4>5. pc' \notin Installing
        BY <4>1 DEF Installing
      <4>6. QED
        BY <4>1, <4>4, <4>5, SyncAfter
    <3>3. CASE ~installed
      <4>1. pc' = "aside" /\ pc' \in Installing
        BY <2>11, <3>3 DEF CopyHostIdentity, Installing
      <4>2. Covered'
        BY <1>1, <2>1, <2>4, <3>1, <4>1, CoveredKept
      <4>3. QED
        BY <1>1, <2>1, <3>1, <3>3, <4>1, <4>2, SyncAfter
    <3>4. QED
      BY <3>2, <3>3
  <2>12. CASE SourcesIn
    <3>1. /\ pc = "sources" /\ UNCHANGED <<framework, link>> /\ sources' = job /\ installed' = TRUE
          /\ pc' = "targets" /\ ~installed /\ Quiet
      BY <1>1, <1>3, <2>1, <2>12 DEF SourcesIn, Quiet
    <3>2. \A i \in DOMAIN Targets : Through(i)' <=> Through(i) \/ i = n
      BY <2>9, <3>1
    <3>3. Through(n)' /\ Loads(Targets[n]) /\ Served(Targets[n]) /\ sources' = <<Targets[n], link[Targets[n]]>>
      <4>1. Targets[n] = job[1]
        BY <2>1, <2>8
      <4>2. QED
        BY <2>2, <2>10, <3>1, <3>2, <4>1
    <3>4. \A j \in DOMAIN Targets : j < n => ~Serves(Targets[j])
      <4>1. \A j \in DOMAIN Targets : j < n => Through(j)
        BY <1>1, <2>8 DEF Through
      <4>2. QED
        BY <2>1, <3>1, <4>1 DEF Covered
    <3>5. Covered'
      BY <2>1, <3>1, <3>2, <3>3, <3>4, CoveredMore
    <3>6. pc' \notin Installing
      BY <3>1 DEF Installing
    <3>7. QED
      BY <3>1, <3>5, <3>6, SyncAfter
  <2>13. QED
    BY <2>5, <2>6, <2>7, <2>11, <2>12 DEF Install
<1>4. QED
  BY <1>2, <1>3

LEMMA SyncStep == ASSUME CacheTyped, FoundInv, JobInv, SyncInv, Next PROVE SyncInv'
<1>0. ASSUME loop' # "sync" \/ pc' \notin Installing \cup {"targets", "config", "lock"} PROVE SyncInv'
  BY <1>0 DEF SyncInv
<1>1. CASE Begin \/ Fail \/ Kill \/ Forget \/ ChooseFramework \/ FrameworkAway
  <2>1. pc' \in Waiting \cup {"choose", "away", "swap"}
    BY <1>1 DEF Begin, Fail, Kill, Forget, ChooseFramework, FrameworkAway, Go, Waiting
  <2>2. QED
    BY <1>0, <2>1 DEF Waiting, Installing
<1>2. CASE FrameworkIn
  <2>1. pc' = "targets" /\ pc' \notin Installing /\ index' = 1 /\ ~installed'
    BY <1>2 DEF FrameworkIn, Go, Installing, CacheTyped
  <2>2. \A i \in DOMAIN Targets : ~Through(i)'
    BY <2>1, TargetsTyped DEF Through
  <2>3. Covered'
    BY <2>1, <2>2 DEF Covered
  <2>4. QED
    BY <2>1, <2>3, SyncAfter
<1>3. CASE NextTarget
  BY <1>3, NextTargetSync
<1>4. CASE TargetsDone
  <2>1. /\ pc = "targets" /\ pc' = "config" /\ UNCHANGED <<local, installed, index>> /\ index > Len(Targets)
        /\ loop = "sync" /\ {pc, pc'} \cap Installing = {} /\ Kept
    BY <1>4 DEF TargetsDone, Go, Stay, Installing, CacheTyped, Kept, history
  <2>2. Covered
    BY <2>1, SyncSplit
  <2>3. \A i \in DOMAIN Targets : Through(i)' <=> Through(i)
    BY <2>1 DEF Through
  <2>4. Covered'
    BY <2>1, <2>2, <2>3, CoveredKept DEF local
  <2>5. QED
    BY <2>1, <2>4, SyncAfter
<1>5. CASE Install
  BY <1>5, InstallSync
<1>6. CASE Configure
  <2>1. CASE loop = "sync"
    <3>1. /\ pc = "config" /\ pc' = "lock" /\ UNCHANGED <<framework, link, sources, installed, index>>
          /\ {pc, pc'} \cap Installing = {} /\ Quiet
      BY <1>6, <2>1, Configured DEF Installing, Quiet, Kept
    <3>2. Covered /\ index > Len(Targets)
      BY <2>1, <3>1, SyncSplit
    <3>3. \A i \in DOMAIN Targets : Through(i)' <=> Through(i)
      BY <3>1 DEF Through
    <3>4. Covered'
      BY <3>1, <3>2, <3>3, CoveredKept DEF Quiet
    <3>5. (\A t \in Target : Loads(t)' => t \notin missed') => cargoConfig' = Active({})'
      <4>1. PICK T \in SUBSET {t \in Target : Loads(t)} : missed' = missed \cup T /\ cargoConfig' = Active(T)
        BY <1>6, <2>1, Configured
      <4>2. \A t \in Target : Loads(t)' = Loads(t)
        BY <3>1, QuietSearch DEF Quiet, Kept
      <4>3. (\A t \in Target : Loads(t)' => t \notin missed') => T = {}
        BY <4>1, <4>2
      <4>4. Active({})' = Active({})
        BY <3>1 DEF Active, Loads, Hash, Quiet, Kept, world
      <4>5. QED
        BY <4>1, <4>3, <4>4
    <3>6. QED
      BY <3>1, <3>2, <3>4, <3>5, SyncAfter
  <2>2. CASE loop # "sync"
    BY <1>0, <1>6, <2>2, Configured
  <2>3. QED
    BY <2>1, <2>2
<1>7. CASE WriteLock \/ Select \/ Activate \/ CargoEnds \/ InterfacesDone \/ BuildDone
  <2>1. loop' = "build"
    BY <1>7, SelectedTodo, LockWritten DEF Activate, CargoEnds, InterfacesDone, BuildDone, CacheTyped
  <2>2. QED
    BY <1>0, <2>1
<1>8. QED
  BY <1>1, <1>2, <1>3, <1>4, <1>5, <1>6, <1>7 DEF Next, Sync, Build


\* A target that a sync has to have served, after its last step.
LEMMA ServedCoherent ==
    ASSUME CacheTyped, FoundInv, SyncInv, pc = "lock", loop = "sync",
           NEW t \in Target, Found(t), t \notin missed
    PROVE  /\ Serves(t) /\ Loads(t) /\ link[t] \in Available(t) /\ framework.identity[t] = Hash(t, link[t])
           /\ Wanted(link[t]) => framework.commit = CommitOf(<<t, link[t]>>)
<1>1. pc \notin Waiting \cup {"choose", "away", "swap", "link"} /\ pc \notin Installing
  BY DEF Waiting, Installing
<1>2. Covered /\ index > Len(Targets)
  BY SyncSplit
<1>3. PICK i \in DOMAIN Targets : t = Targets[i]
  BY TargetsTyped
<1>4. Through(i)
  BY <1>1, <1>2, TargetsTyped DEF Through, CacheTyped
<1>5. call.project => ~SearchesRoot
  BY <1>2, <1>3, <1>4 DEF Covered
<1>6. call.project => Links # {}
  BY <1>1, <1>5 DEF SearchesRoot
<1>7. Serves(t)
  BY <1>6, ProjectFinds DEF Serves
<1>8. Served(t)
  BY <1>2, <1>3, <1>4, <1>7 DEF Covered
<1>9. link[t] \in Available(t)
  <2>1. CASE call.project
    BY <1>6, <2>1, ProjectFinds
  <2>2. CASE ~call.project
    <3>1. link[t] \in Package /\ repository[t][link[t]] # 0
      BY <1>8, LinkLoads DEF Served, Loads
    <3>2. <<t, link[t]>> \in Searched
      BY <1>8, <2>2 DEF Served, Searched
    <3>3. QED
      BY <3>1, <3>2 DEF Available
  <2>3. QED
    BY <2>1, <2>2
<1>10. Suits(<<t, link[t]>>)
  BY <1>1, <1>9, FoundSplit, AvailableSuits
<1>11. framework.commit = chosen.commit
  BY <1>1, FoundSplit
<1>12. Wanted(link[t]) => framework.commit = CommitOf(<<t, link[t]>>)
  <2>1. <<t, link[t]>>[1] = t /\ <<t, link[t]>>[2] = link[t]
    OBVIOUS
  <2>2. QED
    BY <1>10, <1>11, <2>1 DEF Suits
<1>13. QED
  BY <1>7, <1>8, <1>9, <1>12 DEF Served

\* If nothing else loads, the sources and the configuration are of the first
\* target that does.
LEMMA FirstCoherent ==
    ASSUME CacheTyped, FoundInv, SyncInv, pc = "lock", loop = "sync",
           NEW t \in Target, Serves(t),
           \A u \in Target : Loads(u) => Serves(u)
    PROVE  /\ sources # <<>> /\ cargoConfig = Hash(sources[1], sources[2])
           /\ link[sources[1]] = sources[2]
<1>1. pc \notin Installing
  BY DEF Installing
<1>2. Covered /\ index > Len(Targets)
  BY SyncSplit
<1>3. cargoConfig = Active({})
  BY SyncSplit DEF Serves
<1>4. \A i \in DOMAIN Targets : Through(i)
  BY <1>1, <1>2, TargetsTyped DEF Through, CacheTyped
<1>5. installed
  BY <1>2, <1>4, TargetsTyped DEF Covered
<1>6. PICK k \in DOMAIN Targets :
           /\ Loads(Targets[k]) /\ sources = <<Targets[k], link[Targets[k]]>>
           /\ \A j \in DOMAIN Targets : j < k => ~Serves(Targets[j])
  BY <1>2, <1>5 DEF Covered
<1> DEFINE loading == {j \in DOMAIN Targets : Loads(Targets[j]) /\ Targets[j] \notin {}}
<1>7. loading \subseteq Nat /\ k \in loading
  BY <1>6, TargetsTyped
<1>8. Lowest(loading) \in loading /\ Lowest(loading) <= k
  BY <1>7, LowestIsLeast
<1>9. Lowest(loading) = k
  <2>1. PICK low \in loading : low = Lowest(loading)
    BY <1>8
  <2>2. Serves(Targets[low])
    BY <2>1, TargetsTyped
  <2>3. low \in Nat /\ k \in Nat /\ low <= k
    BY <1>7, <1>8, <2>1
  <2>4. QED
    BY <1>6, <2>1, <2>2, <2>3
<1>10. Active({}) = Hash(Targets[k], link[Targets[k]])
  BY <1>7, <1>9 DEF Active
<1>11. sources # <<>> /\ sources[1] = Targets[k] /\ sources[2] = link[Targets[k]]
  BY <1>6
<1>12. QED
  BY <1>3, <1>10, <1>11

\* After the last step of a sync everything agrees.
LEMMA LockedCoherent ==
    ASSUME CacheTyped, FoundInv, SyncInv, WriteLock, pc' = "ok"
    PROVE  SyncCoherent'
<1>1. /\ pc = "lock" /\ loop = "sync" /\ missed \subseteq missed'
      /\ UNCHANGED <<world, framework, link, sources, cargoConfig, call>>
  BY LockWritten DEF CacheTyped
<1>2. PICK T \in SUBSET Target : missed' = missed \cup T /\ lock' = {Hash(x[1], x[2]) : x \in Packages(T)}
  BY LockWritten
<1>3. \A t \in Target : /\ Loads(t)' = Loads(t) /\ Available(t)' = Available(t) /\ Found(t)' = Found(t)
  BY <1>1, QuietSearch
<1>4. \A t \in Target : \A q : Wanted(q)' = Wanted(q) /\ Hash(t, q)' = Hash(t, q)
  BY <1>1 DEF Wanted, Hash, world
<1>5. ASSUME NEW t \in Target, Found(t), t \notin missed'
      PROVE  /\ Serves(t) /\ link[t] \in Available(t) /\ framework.identity[t] = Hash(t, link[t])
             /\ Wanted(link[t]) => /\ framework.commit = repository[t][link[t]]
                                   /\ Hash(t, link[t]) \in lock'
  <2>1. t \notin missed /\ t \notin T
    BY <1>2, <1>5
  <2>2. /\ Serves(t) /\ link[t] \in Available(t) /\ framework.identity[t] = Hash(t, link[t])
        /\ Wanted(link[t]) => framework.commit = CommitOf(<<t, link[t]>>)
    BY <1>1, <1>5, <2>1, ServedCoherent
  <2>3. ASSUME Wanted(link[t]) PROVE Hash(t, link[t]) \in lock'
    <3>1. PICK x \in Target \X Package : x = <<t, link[t]>>
      BY <2>2 DEF Available
    <3>2. x \in Packages(T)
      BY <1>5, <2>1, <2>2, <2>3, <3>1 DEF Packages, Found
    <3>3. Hash(x[1], x[2]) = Hash(t, link[t])
      BY <3>1
    <3>4. QED
      BY <1>2, <3>2, <3>3
  <2>4. QED
    BY <2>2, <2>3 DEF CommitOf
<1>6. ASSUME NEW t \in Target, Found(t), t \notin missed',
             \A u \in Target : Loads(u) => Found(u) /\ u \notin missed'
      PROVE  /\ sources # <<>> /\ cargoConfig = Hash(sources[1], sources[2])
             /\ link[sources[1]] = sources[2]
  <2>1. Serves(t)
    BY <1>5, <1>6
  <2>2. \A u \in Target : Loads(u) => Serves(u)
    BY <1>5, <1>6
  <2>3. QED
    BY <1>1, <2>1, <2>2, FirstCoherent
<1>7. SyncCoherent'
  <2> DEFINE served == {t \in Target : Found(t) /\ t \notin missed'}
  <2>1. served = {t \in Target : Found(t)' /\ t \notin missed'}
    BY <1>3
  <2>2. /\ repository' = repository /\ link' = link /\ framework' = framework
        /\ sources' = sources /\ cargoConfig' = cargoConfig
    BY <1>1 DEF world
  <2>3. \A t \in served :
           /\ link'[t] \in Available(t)'
           /\ framework'.identity[t] = Hash(t, link[t])'
           /\ Wanted(link[t])' => framework'.commit = repository'[t][link'[t]] /\ Hash(t, link[t])' \in lock'
    BY <1>3, <1>4, <1>5, <2>2 DEF Hash, Wanted, world
  <2>4. served # {} /\ (\A t \in Target : Loads(t)' => t \in served) =>
           sources' # <<>> /\ cargoConfig' = Hash(sources[1], sources[2])' /\ link'[sources'[1]] = sources'[2]
    BY <1>3, <1>6, <2>2 DEF Hash
  <2>5. QED
    BY <2>1, <2>3, <2>4 DEF SyncCoherent
<1>8. QED
  BY <1>7

LEMMA CoherentStep == ASSUME CacheTyped, FoundInv, SyncInv, SyncCoherent, Next PROVE SyncCoherent'
<1>1. CASE pc' # "ok"
  BY <1>1 DEF SyncCoherent
<1>2. CASE pc' = "ok" /\ WriteLock
  BY <1>2, LockedCoherent
<1>3. CASE pc' = "ok" /\ BuildDone
  <2>1. call'.targets # <<>>
    BY <1>3 DEF BuildDone, Go, Stay, CacheTyped
  <2>2. QED
    BY <2>1 DEF SyncCoherent
<1>4. CASE pc' = "ok" /\ ~WriteLock /\ ~BuildDone
  <2>1. ~(Begin \/ Fail \/ Kill \/ Forget)
    BY <1>4 DEF Begin, Fail, Kill, Forget, Go
  <2>2. ~Sync
    BY <1>4, NextTargetSteps DEF Sync, ChooseFramework, FrameworkAway, FrameworkIn, TargetsDone, Go
  <2>3. ~Install
    BY <1>4 DEF Install, Unlink, Link, CopyIdentity, CopyHostIdentity, SourcesAside, SourcesIn, Go
  <2>4. ~Build
    BY <1>4, SelectedTodo, Configured DEF Build, Activate, CargoEnds, InterfacesDone, Go
  <2>5. QED
    BY <2>1, <2>2, <2>3, <2>4 DEF Next
<1>5. QED
  BY <1>1, <1>2, <1>3, <1>4

-----------------------------------------------------------------------------

LEMMA InitTyped == Init => CacheTyped
<1> SUFFICES ASSUME Init PROVE CacheTyped
  OBVIOUS
<1>1. \A f : f = NoFramework => IsFramework(f)
  BY NoFrameworkTyped
<1>2. repository \in [Target -> [Package -> Nat]]
  <2>1. PICK S : repository = [t \in Target |-> [q \in Package |-> IF <<t, q>> \in S THEN 1 ELSE 0]]
    BY DEF Init
  <2>2. QED
    BY <2>1
<1>3. /\ commit = 1 /\ wants \in Wants /\ framework = NoFramework /\ link = [t \in Target |-> 0] /\ sources = <<>>
      /\ pc = "idle" /\ loop = "sync" /\ index = 1 /\ installed = FALSE /\ chosen = NoFramework
      /\ job = <<>> /\ todo = <<>> /\ aside = [framework |-> NoFramework, sources |-> <<>>]
      /\ call = NoCall /\ outdated = {}
  BY DEF Init
<1>4. aside.framework = NoFramework /\ aside.sources = <<>>
  BY <1>3
<1>5. /\ call.targets \in Seq(Target) /\ call.root \subseteq Offered
      /\ call.kernel \in BOOLEAN /\ call.project \in BOOLEAN /\ call.single \in BOOLEAN
      /\ call.single => ~call.project /\ \A x, y \in call.root : x = y
  BY <1>3, NoCallTyped
<1>6. todo \in Seq(Target \X Package) /\ link \in [Target -> Package \cup {0}] /\ pc \in Steps
  BY <1>3 DEF Steps, Waiting
<1>7. commit \in Nat \ {0} /\ index \in Nat \ {0} /\ installed \in BOOLEAN
  <2>1. 1 \in Nat \ {0} /\ FALSE \in BOOLEAN
    OBVIOUS
  <2>2. commit = 1 /\ index = 1 /\ installed = FALSE
    BY <1>3
  <2>3. installed \in BOOLEAN
    BY <2>2
  <2>4. QED
    BY <2>1, <2>2, <2>3
<1>8. outdated \subseteq Offered /\ \A x \in outdated : repository[x[1]][x[2]] = 0
  BY <1>3
<1>9. QED
  BY <1>1, <1>2, <1>3, <1>4, <1>5, <1>6, <1>7, <1>8 DEF CacheTyped

\* A stutter keeps whatever the search finds.
LEMMA Stutter ==
    ASSUME UNCHANGED vars
    PROVE  /\ CacheTyped => CacheTyped'
           /\ FoundInv => FoundInv'
           /\ JobInv => JobInv'
           /\ SyncInv => SyncInv'
           /\ SyncCoherent => SyncCoherent'
           /\ BackupInv => BackupInv'
<1>1. CacheTyped => CacheTyped'
  BY DEF CacheTyped, vars, world, local, control, history, had
<1>2. FoundInv => FoundInv'
  BY DEF FoundInv, AtJob, SearchesRoot, Suits, CommitOf, Wanted, Loads, Found, Fails, Available, Searched, Links,
     Exists, vars, world, local, control, history, had
<1>3. JobInv => JobInv'
  BY DEF JobInv, Hash, vars, world, local, control, history, had
<1>4. SyncInv => SyncInv'
  <2>1. /\ Links' = Links /\ \A t \in Target : Loads(t)' = Loads(t) /\ Found(t)' = Found(t)
    BY QuietSearch DEF vars, world, local, control
  <2>2. \A i : Through(i)' = Through(i)
    BY DEF Through, vars, control
  <2>3. \A t \in Target : Serves(t)' = Serves(t) /\ Served(t)' = Served(t)
    BY <2>1 DEF Serves, Served, Hash, vars, world, local, control, history
  <2>4. SearchesRoot' = SearchesRoot
    BY <2>1 DEF SearchesRoot, vars, control
  <2>5. Covered => Covered'
    BY <2>1, <2>2, <2>3, <2>4, TargetsTyped DEF Covered, vars, local, control, history
  <2>6. Active({})' = Active({})
    BY DEF Active, Loads, Hash, vars, world, local
  <2>7. QED
    BY <2>1, <2>5, <2>6 DEF SyncInv, vars, local, control, history
<1>5. SyncCoherent => SyncCoherent'
  <2>1. \A t \in Target : /\ Loads(t)' = Loads(t) /\ Available(t)' = Available(t) /\ Found(t)' = Found(t)
    BY QuietSearch DEF vars, world, local, control
  <2>2. QED
    BY <2>1 DEF SyncCoherent, Hash, Wanted, vars, world, local, control, history
<1>6. BackupInv => BackupInv'
  BY DEF BackupInv, BackupsRestored, vars, world, local, control, history, had
<1>7. QED
  BY <1>1, <1>2, <1>3, <1>4, <1>5, <1>6

\* What the proofs of the properties rest on: the types, that what a command
\* finds suits what it has chosen, what is installed at each step, what a sync
\* is through with, its result, and the backups.
THEOREM CacheInductive == Spec => []CacheInv
<1>1. Init => CacheInv
  BY InitTyped DEF CacheInv, Init, FoundInv, AtJob, JobInv, SyncInv, SyncCoherent, BackupInv, BackupsRestored,
     Waiting, Installing
<1>2. CacheInv /\ [Next]_vars => CacheInv'
  <2>1. CASE Next
    BY <2>1, TypedStep, FoundStep, JobStep, SyncStep, CoherentStep, BackupStep DEF CacheInv
  <2>2. CASE UNCHANGED vars
    BY <2>2, Stutter DEF CacheInv
  <2>3. QED
    BY <2>1, <2>2
<1>3. QED
  BY <1>1, <1>2, PTL DEF Spec

\* activate_kernel_interface and cargo_build: Cargo runs with a link, identities,
\* sources and a configuration of one interface; if no lookup of its target was
\* skipped, also with its framework and a lock file that lists it.
THEOREM CargoSeesOneInterfaceHolds == Spec => []CargoSeesOneInterface
<1>1. CacheInv => CargoSeesOneInterface
  <2> SUFFICES ASSUME CacheInv, pc = "cargo" PROVE CargoSeesOneInterface
    BY DEF CargoSeesOneInterface
  <2>1. loop = "build" /\ pc \notin Waiting \cup {"choose", "away", "swap"} /\ AtJob
    BY DEF CacheInv, CacheTyped, Waiting, AtJob
  <2>2. Suits(job) /\ Wanted(job[2]) /\ framework.commit = chosen.commit
    BY <2>1, FoundSplit DEF CacheInv
  <2>3. job[1] \notin missed => framework.commit = CommitOf(job)
    BY <2>2 DEF Suits
  <2>4. QED
    BY <2>1, <2>3 DEF CacheInv, JobInv, CargoSeesOneInterface
<1>2. QED
  BY <1>1, CacheInductive, PTL

\* sync_framework: after Ok the links, identities, sources, the configuration
\* and the lock file agree on all targets that packages are found of and no
\* lookup was skipped of.
THEOREM SyncCoherentHolds == Spec => []SyncCoherent
<1>1. CacheInv => SyncCoherent
  BY DEF CacheInv
<1>2. QED
  BY <1>1, CacheInductive, PTL

\* sync_framework and install_lsp_source: a failure puts back what was set aside.
THEOREM BackupsRestoredHolds == Spec => []BackupsRestored
<1>1. CacheInv => BackupsRestored
  BY DEF CacheInv, BackupInv
<1>2. QED
  BY <1>1, CacheInductive, PTL
=============================================================================
