------------------------- MODULE ProjectBuildProofs -------------------------
(***************************************************************************)
(* What the commands of a project leave in dist, for any targets, packages *)
(* and interfaces, any number of commands at once, stops, and packages     *)
(* that are exported again at any time; and what is in the images: what    *)
(* image-verify accepts was signed, for any files, programs, keys and      *)
(* interfaces, any number of commands and any changes of the files that    *)
(* EkiImage allows.  A signature is never made but by Sign, and it names   *)
(* the program and the key; a proof may say anything.                      *)
(***************************************************************************)
EXTENDS ProjectBuild, EkiImage, WellFoundedInduction, TLAPS

\* The same command, which may have been disturbed since.
Weaker(d, c) ==
    /\ d = [step |-> c.step, mode |-> c.mode, number |-> c.number, targets |-> c.targets,
            sweep |-> c.sweep, todo |-> c.todo, several |-> c.several, flags |-> c.flags,
            variants |-> c.variants, calm |-> d.calm, alone |-> d.alone, solo |-> d.solo]
    /\ d.calm \in BOOLEAN /\ d.alone \in BOOLEAN /\ d.solo \in BOOLEAN /\ (d.calm => c.calm) /\ (d.alone => c.alone) /\ (d.solo => c.solo)

Other(d, c) == IF c = Idle THEN d = Idle ELSE Weaker(d, c)

BuildInv == Typed /\ LatestInv /\ InterfaceInv

\* There is a first choice, and it is one of them.
LEMMA FirstIsChoice ==
    ASSUME NEW S, S # {}, \A b \in S : b.place \in Nat
    PROVE  First(S) \in S /\ \A b \in S : First(S).place <= b.place
<1> DEFINE places == {b.place : b \in S}
<1>1. PICK i \in places : \A j \in places : i <= j
  <2>1. places \in SUBSET Nat /\ places # {}
    OBVIOUS
  <2> HIDE DEF places
  <2>2. PICK i \in places : \A j \in places : <<j, i>> \notin OpToRel(<, Nat)
    BY <2>1, NatLessThanWellFounded, WFMin
  <2>3. \A j \in places : ~(j < i)
    BY <2>1, <2>2 DEF OpToRel
  <2>4. \A j \in places : i <= j
    BY <2>1, <2>3
  <2>5. QED
    BY <2>4
<1>2. \E b \in S : \A other \in S : b.place <= other.place
  BY <1>1
<1>3. QED
  BY <1>2 DEF First

LEMMA CommandNotIdle ==
    ASSUME NEW c, IsCommand(c)
    PROVE  c # Idle
<1>1. c.step # "idle"
  BY DEF IsCommand, Turn
<1>2. QED
  BY <1>1 DEF Idle

LEMMA WeakerIsCommand ==
    ASSUME NEW c, NEW d, IsCommand(c), Weaker(d, c)
    PROVE  IsCommand(d)
<1>1. /\ d.step = c.step /\ d.mode = c.mode /\ d.number = c.number /\ d.targets = c.targets
      /\ d.sweep = c.sweep /\ d.todo = c.todo /\ d.several = c.several /\ d.flags = c.flags
      /\ d.variants = c.variants /\ d.calm \in BOOLEAN /\ d.alone \in BOOLEAN /\ d.solo \in BOOLEAN
  BY DEF Weaker
<1>2. d = [step |-> d.step, mode |-> d.mode, number |-> d.number, targets |-> d.targets,
           sweep |-> d.sweep, todo |-> d.todo, several |-> d.several, flags |-> d.flags,
           variants |-> d.variants, calm |-> d.calm, alone |-> d.alone, solo |-> d.solo]
  BY <1>1 DEF Weaker
<1>3. QED
  BY <1>1, <1>2 DEF IsCommand

\* What there is to choose from is what a command may choose.
LEMMA InterfacesAreChoices ==
    ASSUME Typed, NEW t \in Targets
    PROVE  \A b \in Interfaces(t) : IsChoice(b, t) /\ b.version = packages[b.root] /\ packages[b.root] # 0
<1>1. ASSUME NEW i \in DOMAIN RootOrder[t]
      PROVE  i \in Nat /\ RootOrder[t][i] \in Root /\ TargetOf[RootOrder[t][i]] = t
  BY BuildAssumption
<1>2. QED
  BY <1>1, BuildAssumption DEF Interfaces, IsChoice, Hash, Typed, StoreTyped

LEMMA Chosen ==
    ASSUME NEW c, IsCommand(c), c.step \in Turn
    PROVE  First(c.todo) \in c.todo /\ IsChoice(First(c.todo), Head(c.targets))
<1>1. c.todo # {} /\ \A b \in c.todo : IsChoice(b, Head(c.targets)) /\ b.place \in Nat
  BY DEF IsCommand, IsChoice
<1>2. QED
  BY <1>1, FirstIsChoice

LEMMA TargetsTyped ==
    ASSUME NEW c, IsCommand(c)
    PROVE  /\ Head(c.targets) \in Targets /\ Tail(c.targets) \in Seq(Targets)
           /\ \A i \in DOMAIN Tail(c.targets) : i + 1 \in DOMAIN c.targets /\ Tail(c.targets)[i] = c.targets[i + 1]
           /\ 1 \in DOMAIN c.targets /\ Head(c.targets) = c.targets[1]
BY DEF IsCommand

\* The commands but p, when p does something.
LEMMA TouchOthers ==
    ASSUME Typed, NEW p \in Process, NEW T, NEW x, command' = Touch(p, T, [command EXCEPT ![p] = x])
    PROVE  /\ command' = [q \in Process |-> command'[q]] /\ command'[p] = x
           /\ \A q \in Process \ {p} : Other(command'[q], command[q])
           /\ \A q \in Process \ {p} : command[q] # Idle /\ Head(command[q].targets) \in T => ~command'[q].alone
<1>1. /\ command' = [q \in Process |-> command'[q]] /\ command'[p] = x
      /\ \A q \in Process \ {p} : command'[q] = IF command[q] = Idle THEN command[q]
             ELSE [command[q] EXCEPT !.alone = command[q].alone /\ Head(command[q].targets) \notin T]
  BY DEF Touch, Typed
<1>2. ASSUME NEW c, IsCommand(c), NEW b
      PROVE  /\ [c EXCEPT !.alone = c.alone /\ b] = 
                    [step |-> c.step, mode |-> c.mode, number |-> c.number, targets |-> c.targets,
                     sweep |-> c.sweep, todo |-> c.todo, several |-> c.several, flags |-> c.flags,
                     variants |-> c.variants, calm |-> c.calm, alone |-> c.alone /\ b, solo |-> c.solo]
             /\ c.calm \in BOOLEAN /\ c.alone \in BOOLEAN /\ c.solo \in BOOLEAN
  <2>1. c = [step |-> c.step, mode |-> c.mode, number |-> c.number, targets |-> c.targets,
             sweep |-> c.sweep, todo |-> c.todo, several |-> c.several, flags |-> c.flags,
             variants |-> c.variants, calm |-> c.calm, alone |-> c.alone, solo |-> c.solo]
    BY <1>2 DEF IsCommand
  <2>2. c.calm \in BOOLEAN /\ c.alone \in BOOLEAN /\ c.solo \in BOOLEAN
    BY <1>2 DEF IsCommand
  <2>3. PICK e : e = (c.alone /\ b)
    OBVIOUS
  <2>4. [c EXCEPT !.alone = e] =
            [step |-> c.step, mode |-> c.mode, number |-> c.number, targets |-> c.targets,
             sweep |-> c.sweep, todo |-> c.todo, several |-> c.several, flags |-> c.flags,
             variants |-> c.variants, calm |-> c.calm, alone |-> e, solo |-> c.solo]
    BY <2>1
  <2>5. QED
    BY <2>2, <2>3, <2>4
<1>3. ASSUME NEW q \in Process \ {p}, command[q] # Idle
      PROVE  /\ Weaker(command'[q], command[q])
             /\ Head(command[q].targets) \in T => ~command'[q].alone
  <2>1. IsCommand(command[q])
    BY <1>3 DEF Typed
  <2>2. PICK c, d, b : c = command[q] /\ d = command'[q] /\ b = (Head(command[q].targets) \notin T)
    OBVIOUS
  <2>3. d = [c EXCEPT !.alone = c.alone /\ b]
    BY <1>1, <1>3, <2>2
  <2>4. /\ d = [step |-> c.step, mode |-> c.mode, number |-> c.number, targets |-> c.targets,
                     sweep |-> c.sweep, todo |-> c.todo, several |-> c.several, flags |-> c.flags,
                     variants |-> c.variants, calm |-> c.calm, alone |-> c.alone /\ b, solo |-> c.solo]
        /\ c.calm \in BOOLEAN /\ c.alone \in BOOLEAN /\ c.solo \in BOOLEAN
    BY <1>2, <2>1, <2>2, <2>3
  <2>5. d.calm = c.calm /\ d.alone = (c.alone /\ b)
    BY <2>4
  <2>6. Weaker(d, c)
    BY <2>4, <2>5 DEF Weaker
  <2>7. QED
    BY <2>2, <2>5, <2>6
<1>4. QED
  BY <1>1, <1>3 DEF Other

LEMMA OwnOthers ==
    ASSUME Typed, NEW p \in Process, NEW x, command' = [command EXCEPT ![p] = x]
    PROVE  /\ command' = [q \in Process |-> command'[q]] /\ command'[p] = x
           /\ \A q \in Process \ {p} : Other(command'[q], command[q]) /\ command'[q] = command[q]
<1>1. /\ command' = [q \in Process |-> command'[q]] /\ command'[p] = x
      /\ \A q \in Process \ {p} : command'[q] = command[q]
  BY DEF Typed
<1>2. \A q \in Process : command[q] # Idle => Weaker(command[q], command[q])
  BY DEF Typed, IsCommand, Weaker
<1>3. QED
  BY <1>1, <1>2 DEF Other

-----------------------------------------------------------------------------
(* What a step of one process must see to. *)

LEMMA TypedStep ==
    ASSUME Typed, NEW p \in Process, command' = [q \in Process |-> command'[q]],
           \A q \in Process \ {p} : Other(command'[q], command[q]),
           StoreTyped', count'.exports = 0 => count.exports = 0,
           command'[p] # Idle => IsCommand(command'[p]) /\ FirstVersion(command[p])'
    PROVE  Typed'
<1>1. ASSUME NEW q \in Process \ {p}, command'[q] # Idle
      PROVE  IsCommand(command'[q]) /\ FirstVersion(command[q])'
  <2>1. command[q] # Idle /\ Weaker(command'[q], command[q])
    BY <1>1 DEF Other
  <2>2. IsCommand(command[q]) /\ FirstVersion(command[q])
    BY <2>1 DEF Typed
  <2>3. command'[q].todo = command[q].todo /\ command'[q].step = command[q].step
    BY <2>1 DEF Weaker
  <2>4. QED
    BY <2>1, <2>2, <2>3, WeakerIsCommand DEF FirstVersion
<1>2. QED
  BY <1>1 DEF Typed

\* The same build goes on, with targets that it had.
Continues(d, c) ==
    /\ d.mode = c.mode /\ d.number = c.number /\ d.sweep = c.sweep
    /\ \A i \in DOMAIN d.targets : \E j \in DOMAIN c.targets : d.targets[i] = c.targets[j]

LEMMA LatestStep ==
    ASSUME Typed, LatestInv, NEW p \in Process,
           \A q \in Process \ {p} : Other(command'[q], command[q]),
           command[p] # Idle, command'[p] = Idle \/ Continues(command'[p], command[p]),
           swept' = swept, overlap' = overlap, DistIsLatest'
    PROVE  LatestInv'
<1>1. SUFFICES ASSUME ~overlap
               PROVE  \A q \in Process : Building(q)' =>
                          /\ SweptBy(command[q])'
                          /\ \A o \in Process : Building(o)' => o = q
  BY DEF LatestInv
<1>2. ASSUME NEW q \in Process, Building(q)'
      PROVE  Building(q) /\ SweptBy(command[q])'
  <2>1. CASE q = p
    <3>1. Continues(command'[p], command[p])
      BY <1>2, <2>1 DEF Building
    <3>2. Building(p)
      BY <1>2, <2>1, <3>1 DEF Building, Continues
    <3>3. SweptBy(command[p])
      BY <1>1, <3>2 DEF LatestInv
    <3>4. QED
      BY <2>1, <3>1, <3>2, <3>3 DEF SweptBy, Continues
  <2>2. CASE q # p
    <3>1. command[q] # Idle /\ Weaker(command'[q], command[q])
      BY <1>2, <2>2 DEF Other, Building
    <3>2. /\ command'[q].mode = command[q].mode /\ command'[q].number = command[q].number
          /\ command'[q].sweep = command[q].sweep /\ command'[q].targets = command[q].targets
      BY <3>1 DEF Weaker
    <3>3. Building(q)
      BY <1>2, <3>1, <3>2 DEF Building
    <3>4. SweptBy(command[q])
      BY <1>1, <3>3 DEF LatestInv
    <3>5. QED
      BY <3>2, <3>3, <3>4 DEF SweptBy
  <2>3. QED
    BY <2>1, <2>2
<1>3. QED
  BY <1>1, <1>2 DEF LatestInv

LEMMA SameDistIsLatest ==
    ASSUME DistIsLatest, overlap' = overlap, swept' = swept,
           \A t \in Targets : dist'[t].image = dist[t].image /\ dist'[t].archives = dist[t].archives
    PROVE  DistIsLatest'
BY DEF DistIsLatest

\* One who is alone now was alone before, or has just found nobody else.
JoinsAlone(p) ==
    \A q \in Process \ {p} :
        /\ command[q] # Idle /\ command'[p] # Idle
        /\ command'[p].step \in Turn \ {"unlink"} /\ command'[p].alone
        /\ command'[q].alone /\ Head(command[q].targets) = Head(command'[p].targets)
        => /\ command[p] # Idle /\ command[p].step \in Turn \ {"unlink"} /\ command[p].alone
           /\ Head(command[p].targets) = Head(command'[p].targets)

LEMMA InterfaceStep ==
    ASSUME InterfaceInv, NEW p \in Process,
           \A q \in Process \ {p} : Other(command'[q], command[q]),
           count'.exports = 0 => count.exports = 0,
           command'[p] # Idle => TurnOK(command[p])' /\ VariantsOK(command[p].variants, Now(p))',
           \A q \in Process \ {p} : command[q] # Idle => TurnOK(command[q])',
           JoinsAlone(p),
           \A t \in Targets : dist'[t].image \notin {None, Torn} => VariantsOK(dist[t].image.variants, t)',
           ArchiveAsNamed'
    PROVE  InterfaceInv'
<1>1. \A t : Alike(t)' => Alike(t)
  BY DEF Alike
<1>2. ASSUME NEW q \in Process, command'[q] # Idle
      PROVE  TurnOK(command[q])' /\ VariantsOK(command[q].variants, Now(q))'
  <2>1. CASE q = p
    BY <1>2, <2>1
  <2>2. CASE q # p
    <3>1. command[q] # Idle /\ Weaker(command'[q], command[q])
      BY <1>2, <2>2 DEF Other
    <3>2. command'[q].variants = command[q].variants /\ command'[q].targets = command[q].targets
      BY <3>1 DEF Weaker
    <3>3. VariantsOK(command[q].variants, Head(command[q].targets))
      BY <3>1 DEF InterfaceInv, Now
    <3>4. QED
      BY <1>1, <2>2, <3>1, <3>2, <3>3 DEF VariantsOK, Now
  <2>3. QED
    BY <2>1, <2>2
<1>3. ASSUME NEW q \in Process, NEW o \in Process
      PROVE  Alone(q, o)'
  <2>1. ASSUME NEW r \in Process \ {p}, command'[r] # Idle
        PROVE  /\ command[r] # Idle /\ command'[r].step = command[r].step
               /\ command'[r].targets = command[r].targets /\ (command'[r].alone => command[r].alone)
    <3>1. command[r] # Idle /\ Weaker(command'[r], command[r])
      BY <2>1 DEF Other
    <3>2. QED
      BY <3>1 DEF Weaker
  <2>2. ASSUME NEW r \in Process \ {p}
        PROVE  Alone(r, p)' /\ Alone(p, r)'
    BY <2>1, <2>2 DEF Alone, InterfaceInv, Now, JoinsAlone
  <2>3. ASSUME NEW r \in Process \ {p}, NEW m \in Process \ {p}
        PROVE  Alone(r, m)'
    BY <2>1, <2>3 DEF Alone, InterfaceInv, Now
  <2>4. Alone(p, p)'
    BY DEF Alone
  <2>5. QED
    BY <2>2, <2>3, <2>4
<1>4. QED
  BY <1>2, <1>3 DEF InterfaceInv, Now

\* Nobody had to do with the target or the package of a turn, or it does not matter.
Fine(d, t) == (d.calm /\ d.alone) \/ Alike(t)

\* What one command relies on is not disturbed by the step of another.
LEMMA OtherTurnOK ==
    ASSUME NEW c, NEW d, IsCommand(c), Weaker(d, c), TurnOK(c),
           NEW t, t = Head(c.targets), NEW b, b = First(c.todo),
           count'.exports = 0 => count.exports = 0,
           packages' = packages,
           c.step \in Turn /\ d.alone => link'[t] = link[t],
           c.step \in {"pack", "take"} /\ Fine(d, t) => binary'[t] = binary[t] \/ binary'[t] = Built(b.hash),
           c.step \in {"archive", "rename"} /\ Fine(d, t) => library'[t] = library[t] \/ library'[t] = Built(b.hash),
           c.step = "take" /\ Fine(d, t) =>
               \A v \in dist'[t].variants : v \in dist[t].variants \/ v.hash # b.hash \/ v.content = Stamped(b.hash),
           c.step = "rename" =>
               \A a \in dist'[t].archives : a \in dist[t].archives \/ a.name # None
                   \/ a.main = Built(b.hash) \/ ~((a.alone /\ d.alone) \/ Alike(t))
    PROVE  TurnOK(d)'
<1>1. /\ d.step = c.step /\ d.targets = c.targets /\ d.todo = c.todo /\ d.flags = c.flags
      /\ (d.calm => c.calm) /\ (d.alone => c.alone) /\ (d.solo => c.solo)
  BY DEF Weaker
<1>2. Alike(t)' => Alike(t)
  BY DEF Alike
<1>3. d.step \in Turn \ {"unlink", "link", "snapshot"} /\ d.calm => packages'[b.root] = b.version
  BY <1>1 DEF TurnOK
<1>4. d.step \in Turn \ {"unlink", "link"} /\ d.alone /\ (d.step = "snapshot" \/ d.calm) => link'[t] = b.root
  BY <1>1 DEF TurnOK
<1>5. d.step = "cargo" /\ Fine(d, t) => d.flags.hash = b.hash /\ Hash(d.flags.root)' = b.hash
  BY <1>1 DEF TurnOK, Fine, Hash
<1>6. d.step \in {"pack", "take"} /\ Fine(d, t) => binary'[t] = Built(b.hash)
  BY <1>1 DEF TurnOK, Fine
<1>7. d.step \in {"archive", "rename"} /\ Fine(d, t) => library'[t] = Built(b.hash)
  BY <1>1 DEF TurnOK, Fine
<1>8. d.step = "take" /\ Fine(d, t) => \A v \in dist'[t].variants : v.hash = b.hash => v.content = Stamped(b.hash)
  BY <1>1 DEF TurnOK, Fine
<1>9. d.step = "rename" => \A a \in dist'[t].archives :
          a.name = None /\ a.calm /\ ((a.alone /\ d.alone) \/ Alike(t)) => a.main = Built(b.hash)
  BY <1>1 DEF TurnOK
<1>10. b = First(d.todo) /\ t = Head(d.targets)
  BY <1>1
<1>11. (d.calm /\ d.alone) \/ Alike(t)' => Fine(d, t)
  BY <1>2 DEF Fine
<1>12. QED
  BY <1>2, <1>3, <1>4, <1>5, <1>6, <1>7, <1>8, <1>9, <1>10, <1>11 DEF TurnOK, Built, Stamped

-----------------------------------------------------------------------------
(* What becomes of the record of a command. *)

Restepped(d, c, step) ==
    d = [step |-> step, mode |-> c.mode, number |-> c.number, targets |-> c.targets,
         sweep |-> c.sweep, todo |-> c.todo, several |-> c.several, flags |-> d.flags,
         variants |-> d.variants, calm |-> d.calm, alone |-> d.alone, solo |-> d.solo]

\* A step within a turn.
LEMMA ResteppedOK ==
    ASSUME NEW c, IsCommand(c), c.step \in Turn, NEW step \in Turn, NEW d, Restepped(d, c, step),
           d.calm \in BOOLEAN, d.alone \in BOOLEAN /\ d.solo \in BOOLEAN, d.variants \in Seq({d.variants[i] : i \in DOMAIN d.variants}),
           step \in {"pack", "take"} => c.mode = "m", step \in {"archive", "rename"} => c.mode = "y"
    PROVE  /\ IsCommand(d) /\ Continues(d, c) /\ d.step = step
           /\ d.targets = c.targets /\ d.todo = c.todo /\ (FirstVersion(c) => FirstVersion(d))
<1>1. /\ d.step = step /\ d.mode = c.mode /\ d.number = c.number /\ d.targets = c.targets
      /\ d.sweep = c.sweep /\ d.todo = c.todo /\ d.several = c.several
  BY DEF Restepped
<1>2. d = [step |-> d.step, mode |-> d.mode, number |-> d.number, targets |-> d.targets,
           sweep |-> d.sweep, todo |-> d.todo, several |-> d.several, flags |-> d.flags,
           variants |-> d.variants, calm |-> d.calm, alone |-> d.alone, solo |-> d.solo]
  BY <1>1 DEF Restepped
<1>3. step # "sweep" /\ step # "write" /\ c.step # "sweep"
  BY DEF Turn
<1>4. IsCommand(d)
  BY <1>1, <1>2, <1>3 DEF IsCommand
<1>5. QED
  BY <1>1, <1>4 DEF Continues, FirstVersion

\* The end of a target, and of a turn: what follows has nothing to rely on yet.
Later == {"target", "unlink", "write"}

LEMMA LaterTurnOK ==
    ASSUME NEW d, d.step \in {"sweep", "sync", "target", "write", "unlink", "link"}
    PROVE  TurnOK(d)
BY DEF TurnOK, Turn

LEMMA TargetDoneOK ==
    ASSUME NEW c, IsCommand(c), c.step # "sweep", NEW d, d = TargetDone(c), d # Idle
    PROVE  /\ IsCommand(d) /\ Continues(d, c) /\ d.step = "target" /\ d.variants = <<>>
<1>1. /\ Tail(c.targets) # <<>>
      /\ d = [c EXCEPT !.step = "target", !.targets = Tail(c.targets), !.todo = {}, !.variants = <<>>,
                       !.flags = None]
  BY DEF TargetDone
<1>2. d = [step |-> "target", mode |-> c.mode, number |-> c.number, targets |-> Tail(c.targets),
           sweep |-> c.sweep, todo |-> {}, several |-> c.several, flags |-> None,
           variants |-> <<>>, calm |-> c.calm, alone |-> c.alone, solo |-> c.solo]
  BY <1>1 DEF IsCommand
<1>3. /\ d.step = "target" /\ d.mode = c.mode /\ d.number = c.number /\ d.targets = Tail(c.targets)
      /\ d.sweep = c.sweep /\ d.todo = {} /\ d.several = c.several /\ d.flags = None
      /\ d.variants = <<>> /\ d.calm = c.calm /\ d.alone = c.alone /\ d.solo = c.solo
  BY <1>2
<1>4. d = [step |-> d.step, mode |-> d.mode, number |-> d.number, targets |-> d.targets,
           sweep |-> d.sweep, todo |-> d.todo, several |-> d.several, flags |-> d.flags,
           variants |-> d.variants, calm |-> d.calm, alone |-> d.alone, solo |-> d.solo]
  BY <1>2, <1>3
<1>5. d.variants \in Seq({d.variants[i] : i \in DOMAIN d.variants})
  BY <1>3
<1>6. Tail(c.targets) \in Seq(Targets)
  BY TargetsTyped
<1> HIDE <1>2
<1>7. IsCommand(d)
  BY <1>1, <1>3, <1>4, <1>5, <1>6 DEF IsCommand, Turn
<1>8. Continues(d, c)
  BY <1>3, TargetsTyped DEF Continues
<1>9. QED
  BY <1>3, <1>7, <1>8

LEMMA InterfaceDoneOK ==
    ASSUME NEW c, IsCommand(c), c.step \in Turn, NEW d, d = InterfaceDone(c), d # Idle
    PROVE  /\ IsCommand(d) /\ Continues(d, c) /\ d.step \in Later
           /\ (FirstVersion(c) => FirstVersion(d))
           /\ (d.variants = <<>> \/ (d.variants = c.variants /\ Head(d.targets) = Head(c.targets)))
<1>1. CASE c.todo # {First(c.todo)}
  <2>1. PICK rest : rest = c.todo \ {First(c.todo)}
    OBVIOUS
  <2>2. d = [c EXCEPT !.step = "unlink", !.todo = rest, !.flags = None]
    BY <1>1, <2>1 DEF InterfaceDone
  <2>3. d = [step |-> "unlink", mode |-> c.mode, number |-> c.number, targets |-> c.targets,
             sweep |-> c.sweep, todo |-> rest, several |-> c.several, flags |-> None,
             variants |-> c.variants, calm |-> c.calm, alone |-> c.alone, solo |-> c.solo]
    BY <2>2 DEF IsCommand
  <2>4. /\ d.step = "unlink" /\ d.mode = c.mode /\ d.number = c.number /\ d.targets = c.targets
        /\ d.sweep = c.sweep /\ d.todo = rest /\ d.several = c.several /\ d.flags = None
        /\ d.variants = c.variants /\ d.calm = c.calm /\ d.alone = c.alone /\ d.solo = c.solo
    BY <2>3
  <2>5. d = [step |-> d.step, mode |-> d.mode, number |-> d.number, targets |-> d.targets,
             sweep |-> d.sweep, todo |-> d.todo, several |-> d.several, flags |-> d.flags,
             variants |-> d.variants, calm |-> d.calm, alone |-> d.alone, solo |-> d.solo]
    BY <2>3, <2>4
  <2>6. rest # {} /\ rest \subseteq c.todo
    BY <1>1, <2>1, Chosen
  <2> HIDE <2>3
  <2>7. IsCommand(d)
    BY <2>4, <2>5, <2>6 DEF IsCommand, Turn
  <2>8. QED
    BY <2>4, <2>6, <2>7 DEF Continues, Later, FirstVersion
<1>2. CASE c.todo = {First(c.todo)} /\ c.mode = "m"
  <2>1. d = [c EXCEPT !.step = "write"]
    BY <1>2 DEF InterfaceDone
  <2>2. d = [step |-> "write", mode |-> c.mode, number |-> c.number, targets |-> c.targets,
             sweep |-> c.sweep, todo |-> c.todo, several |-> c.several, flags |-> c.flags,
             variants |-> c.variants, calm |-> c.calm, alone |-> c.alone, solo |-> c.solo]
    BY <2>1 DEF IsCommand
  <2>3. /\ d.step = "write" /\ d.mode = c.mode /\ d.number = c.number /\ d.targets = c.targets
        /\ d.sweep = c.sweep /\ d.todo = c.todo /\ d.several = c.several /\ d.flags = c.flags
        /\ d.variants = c.variants /\ d.calm = c.calm /\ d.alone = c.alone /\ d.solo = c.solo
    BY <2>2
  <2>4. d = [step |-> d.step, mode |-> d.mode, number |-> d.number, targets |-> d.targets,
             sweep |-> d.sweep, todo |-> d.todo, several |-> d.several, flags |-> d.flags,
             variants |-> d.variants, calm |-> d.calm, alone |-> d.alone, solo |-> d.solo]
    BY <2>2, <2>3
  <2> HIDE <2>2
  <2>5. IsCommand(d)
    BY <1>2, <2>3, <2>4 DEF IsCommand, Turn
  <2>6. QED
    BY <2>3, <2>5 DEF Continues, Later, FirstVersion, Turn
<1>3. CASE c.todo = {First(c.todo)} /\ c.mode # "m"
  <2>1. d = TargetDone(c) /\ c.step # "sweep"
    BY <1>3 DEF InterfaceDone, Turn
  <2>2. IsCommand(d) /\ Continues(d, c) /\ d.step = "target" /\ d.variants = <<>>
    BY <2>1, TargetDoneOK
  <2>3. (FirstVersion(c) => FirstVersion(d)) /\ d.step \in Later
    BY <2>2 DEF Later, FirstVersion, Turn
  <2>4. QED
    BY <2>2, <2>3
<1>4. QED
  BY <1>1, <1>2, <1>3

-----------------------------------------------------------------------------
(* Steps that change only the command; the source snapshot and the API       *)
(* crates are nothing a property is about.                                   *)

\* A command alone with a target before it was, if it is not new to it.
Stays(d, c) ==
    d.step \in Turn \ {"unlink"} /\ d.alone =>
        c.step \in Turn \ {"unlink"} /\ c.alone /\ Head(c.targets) = Head(d.targets)

CommandOK(d) == TurnOK(d) /\ VariantsOK(d.variants, Head(d.targets))

LEMMA OthersUndisturbed ==
    ASSUME Typed, InterfaceInv, NEW p \in Process, NEW q \in Process \ {p}, command[q] # Idle,
           Other(command'[q], command[q]),
           UNCHANGED <<packages, link, binary, library, dist>>, count'.exports = count.exports
    PROVE  TurnOK(command[q])'
<1>1. PICK c, d : c = command[q] /\ d = command'[q]
  OBVIOUS
<1>2. IsCommand(c) /\ Weaker(d, c) /\ TurnOK(c)
  BY <1>1 DEF Typed, Other, InterfaceInv
<1>3. PICK t, b : t = Head(c.targets) /\ b = First(c.todo)
  OBVIOUS
<1>4. TurnOK(d)'
  BY <1>2, <1>3, OtherTurnOK
<1>5. QED
  BY <1>1, <1>4

LEMMA QuietStep ==
    ASSUME BuildInv, NEW p \in Process, command[p] # Idle, NEW x, command' = [command EXCEPT ![p] = x],
           UNCHANGED <<packages, link, binary, library, dist, swept, overlap, count>>,
           x # Idle => /\ IsCommand(x) /\ FirstVersion(x) /\ Continues(x, command[p])
                       /\ CommandOK(x) /\ Stays(x, command[p])
    PROVE  BuildInv'
<1>1. Typed /\ LatestInv /\ InterfaceInv
  BY DEF BuildInv
<1>2. /\ command' = [q \in Process |-> command'[q]] /\ command'[p] = x
      /\ \A q \in Process \ {p} : Other(command'[q], command[q]) /\ command'[q] = command[q]
  BY <1>1, OwnOthers
<1>3. StoreTyped' /\ count'.exports = count.exports
  BY <1>1 DEF Typed, StoreTyped
<1>4. Typed'
  <2>1. FirstVersion(x) => FirstVersion(x)'
    BY DEF FirstVersion
  <2>2. QED
    BY <1>1, <1>2, <1>3, <2>1, TypedStep
<1>5. LatestInv'
  <2>1. DistIsLatest'
    BY <1>1, SameDistIsLatest DEF LatestInv
  <2>2. QED
    BY <1>1, <1>2, <2>1, LatestStep
<1>6. InterfaceInv'
  <2>1. \A q \in Process \ {p} : command[q] # Idle => TurnOK(command[q])'
    BY <1>1, <1>2, <1>3, OthersUndisturbed
  <2>2. \A t : Alike(t)' => Alike(t)
    BY DEF Alike
  <2>3. CommandOK(x) => CommandOK(x)'
    BY DEF CommandOK, TurnOK, VariantsOK, Alike, Hash
  <2>4. command'[p] # Idle => TurnOK(command[p])' /\ VariantsOK(command[p].variants, Now(p))'
    BY <1>2, <2>3 DEF CommandOK, Now
  <2>5. JoinsAlone(p)
    BY <1>2 DEF JoinsAlone, Stays
  <2>6. /\ \A t \in Targets : dist'[t].image \notin {None, Torn} => VariantsOK(dist[t].image.variants, t)'
        /\ ArchiveAsNamed'
    BY <1>1, <2>2 DEF InterfaceInv, ArchiveAsNamed, VariantsOK
  <2>7. QED
    BY <1>1, <1>2, <1>3, <2>1, <2>4, <2>5, <2>6, InterfaceStep
<1>7. QED
  BY <1>4, <1>5, <1>6 DEF BuildInv

\* The command fails, or has come to its end.
LEMMA FailStep ==
    ASSUME BuildInv, NEW p \in Process, command[p] # Idle, Fail(p),
           UNCHANGED <<packages, link, binary, library, dist, swept, overlap, count>>
    PROVE  BuildInv'
BY QuietStep DEF Fail

\* What the invariant says of the command of a process.
LEMMA Working ==
    ASSUME BuildInv, NEW p \in Process, NEW step \in {"sweep", "sync", "target", "write"} \cup Turn, At(p, step)
    PROVE  /\ command[p] # Idle /\ IsCommand(command[p]) /\ FirstVersion(command[p]) /\ CommandOK(command[p])
           /\ command[p].step = step /\ Now(p) = Head(command[p].targets) /\ Now(p) \in Targets
<1>1. command[p].step = step /\ step # "idle"
  BY DEF At, Turn
<1>2. command[p] # Idle
  BY <1>1 DEF Idle
<1>3. QED
  BY <1>1, <1>2, TargetsTyped DEF BuildInv, Typed, InterfaceInv, CommandOK, Now

LEMMA NextTargetKeeps ==
    ASSUME BuildInv, NEW p \in Process, NextTarget(p)
    PROVE  BuildInv'
<1>1. PICK c, t, all : c = command[p] /\ t = Head(c.targets) /\ all = Interfaces(t)
  OBVIOUS
<1>2. /\ c # Idle /\ IsCommand(c) /\ FirstVersion(c) /\ c.step = "target" /\ t = Now(p) /\ t \in Targets
  BY <1>1, Working DEF NextTarget
<1>3. UNCHANGED <<packages, link, binary, library, dist, swept, overlap, count>>
  BY DEF NextTarget, projectVars, cargoVars, outputVars
<1>4. CASE all = {}
  BY <1>1, <1>2, <1>3, <1>4, FailStep DEF NextTarget
<1>5. CASE all # {}
  <2>1. \A b \in all : IsChoice(b, t) /\ b.version = packages[b.root]
    BY <1>1, <1>2, InterfacesAreChoices DEF BuildInv
  <2>2. PICK todo : todo = IF c.mode = "m" THEN Distinct(all) ELSE all
    OBVIOUS
  <2>3. todo \subseteq all /\ todo # {}
    <3>1. First(all) \in all /\ \A b \in all : First(all).place <= b.place
      BY <1>5, <2>1, FirstIsChoice DEF IsChoice
    <3>2. First(all) \in Distinct(all)
      BY <3>1 DEF Distinct
    <3>3. QED
      BY <1>5, <2>2, <3>2 DEF Distinct
  <2>4. PICK x : x = [c EXCEPT !.step = "unlink", !.todo = todo, !.several = Cardinality(all) > 1,
                               !.variants = <<>>]
    OBVIOUS
  <2>5. command' = [command EXCEPT ![p] = x]
    BY <1>1, <1>2, <1>5, <2>2, <2>4 DEF NextTarget
  <2>6. x = [step |-> "unlink", mode |-> c.mode, number |-> c.number, targets |-> c.targets,
             sweep |-> c.sweep, todo |-> todo, several |-> Cardinality(all) > 1, flags |-> c.flags,
             variants |-> <<>>, calm |-> c.calm, alone |-> c.alone, solo |-> c.solo]
    BY <1>2, <2>4 DEF IsCommand
  <2>7. /\ x.step = "unlink" /\ x.mode = c.mode /\ x.number = c.number /\ x.targets = c.targets
        /\ x.sweep = c.sweep /\ x.todo = todo /\ x.flags = c.flags
        /\ x.variants = <<>> /\ x.calm = c.calm /\ x.alone = c.alone /\ x.solo = c.solo
    BY <2>6
  <2>8. x = [step |-> x.step, mode |-> x.mode, number |-> x.number, targets |-> x.targets,
             sweep |-> x.sweep, todo |-> x.todo, several |-> x.several, flags |-> x.flags,
             variants |-> x.variants, calm |-> x.calm, alone |-> x.alone, solo |-> x.solo]
    BY <2>6
  <2> HIDE <2>4, <2>6
  <2>9. IsCommand(x)
    BY <1>1, <1>2, <2>1, <2>3, <2>7, <2>8 DEF IsCommand, Turn
  <2>10. FirstVersion(x)
    BY <2>1, <2>3, <2>7, <1>2 DEF FirstVersion, BuildInv, Typed, StoreTyped, IsChoice
  <2>11. Continues(x, c) /\ Stays(x, c)
    BY <2>7 DEF Continues, Stays
  <2>12. CommandOK(x)
    BY <2>7, LaterTurnOK DEF CommandOK, VariantsOK
  <2>13. QED
    BY <1>1, <1>2, <1>3, <2>5, <2>9, <2>10, <2>11, <2>12, QuietStep
<1>6. QED
  BY <1>4, <1>5

LEMMA SnapshotKeeps ==
    ASSUME BuildInv, NEW p \in Process, Snapshot(p)
    PROVE  BuildInv'
<1>1. PICK c, t, b : c = command[p] /\ t = Head(c.targets) /\ b = First(c.todo)
  OBVIOUS
<1>2. /\ c # Idle /\ IsCommand(c) /\ FirstVersion(c) /\ CommandOK(c) /\ c.step = "snapshot"
      /\ t = Now(p) /\ b = Current(p)
  BY <1>1, Working DEF Snapshot, Current, Turn
<1>3. UNCHANGED <<packages, link, binary, library, dist, swept, overlap, count>>
  BY DEF Snapshot, cargoVars, outputVars
<1>4. CASE packages[b.root] # b.version
  BY <1>1, <1>2, <1>3, <1>4, FailStep DEF Snapshot
<1>5. CASE packages[b.root] = b.version
  <2>1. PICK x : x = [c EXCEPT !.step = "prepare", !.calm = TRUE]
    OBVIOUS
  <2>2. command' = [command EXCEPT ![p] = x]
    BY <1>1, <1>2, <1>5, <2>1 DEF Snapshot
  <2>3. x = [step |-> "prepare", mode |-> c.mode, number |-> c.number, targets |-> c.targets,
             sweep |-> c.sweep, todo |-> c.todo, several |-> c.several, flags |-> c.flags,
             variants |-> c.variants, calm |-> TRUE, alone |-> c.alone, solo |-> c.solo]
    BY <1>2, <2>1 DEF IsCommand
  <2>4. /\ x.flags = c.flags /\ x.variants = c.variants /\ x.calm = TRUE /\ x.alone = c.alone /\ x.solo = c.solo
    BY <2>3
  <2>5. Restepped(x, c, "prepare")
    BY <2>3, <2>4 DEF Restepped
  <2>6. /\ IsCommand(x) /\ Continues(x, c) /\ x.step = "prepare"
        /\ x.targets = c.targets /\ x.todo = c.todo /\ FirstVersion(x)
    <3>1. c.alone \in BOOLEAN /\ c.solo \in BOOLEAN /\ c.variants \in Seq({c.variants[i] : i \in DOMAIN c.variants})
      BY <1>2 DEF IsCommand
    <3>2. "prepare" \in Turn /\ c.step \in Turn
      BY <1>2 DEF Turn
    <3>3. x.calm \in BOOLEAN
      BY <2>4
    <3>4. QED
      BY <1>2, <2>4, <2>5, <3>1, <3>2, <3>3, ResteppedOK
  <2>7. CommandOK(x)
    <3>1. x.alone => link[t] = b.root
      BY <1>1, <1>2, <2>4 DEF CommandOK, TurnOK, Turn
    <3>2. TurnOK(x)
      BY <1>1, <1>5, <2>6, <3>1 DEF TurnOK
    <3>3. QED
      BY <1>2, <2>4, <2>6, <3>2 DEF CommandOK
  <2>8. Stays(x, c)
    BY <1>2, <2>4, <2>6 DEF Stays, Turn
  <2>9. QED
    BY <1>1, <1>2, <1>3, <2>2, <2>6, <2>7, <2>8, QuietStep
<1>6. QED
  BY <1>4, <1>5

\* If nobody disturbs a turn, the interface that is linked is its own.
LEMMA ActiveIsChoice ==
    ASSUME BuildInv, NEW c, IsCommand(c), FirstVersion(c), TurnOK(c),
           c.step \in Turn \ {"unlink", "link", "snapshot"},
           NEW t, t = Head(c.targets), NEW b, b = First(c.todo), Fine(c, t), Active(t) # None
    PROVE  Active(t) = b.hash
<1>1. t \in Targets /\ IsChoice(b, t) /\ b \in c.todo
  BY TargetsTyped, Chosen
<1>2. /\ link[t] \in Root /\ TargetOf[link[t]] = t /\ link[t] # None
      /\ Active(t) = <<Profile[link[t]], packages[link[t]]>>
  BY <1>1 DEF BuildInv, Typed, StoreTyped, Active, Hash
<1>3. CASE c.calm /\ c.alone
  <2>1. link[t] = b.root /\ packages[b.root] = b.version
    BY <1>3 DEF TurnOK
  <2>2. QED
    BY <1>1, <1>2, <2>1 DEF IsChoice
<1>4. CASE Alike(t)
  <2>1. count.exports = 0 /\ packages[link[t]] = 1 /\ b.version = 1
    BY <1>1, <1>2, <1>4 DEF Alike, FirstVersion, BuildInv, Typed, StoreTyped
  <2>2. Profile[link[t]] = Profile[b.root]
    BY <1>1, <1>2, <1>4 DEF Alike, IsChoice
  <2>3. QED
    BY <1>1, <1>2, <2>1, <2>2 DEF IsChoice
<1>5. QED
  BY <1>3, <1>4 DEF Fine

\* Where it does not matter, two commands have chosen the same.
LEMMA AlikeChoices ==
    ASSUME NEW c, NEW e, IsCommand(c), FirstVersion(c), IsCommand(e), FirstVersion(e),
           c.step \in Turn, e.step \in Turn, Head(c.targets) = Head(e.targets), Alike(Head(c.targets))
    PROVE  First(c.todo).hash = First(e.todo).hash
<1>1. /\ IsChoice(First(c.todo), Head(c.targets)) /\ IsChoice(First(e.todo), Head(c.targets))
      /\ First(c.todo) \in c.todo /\ First(e.todo) \in e.todo
  BY Chosen
<1>2. First(c.todo).version = 1 /\ First(e.todo).version = 1
  BY <1>1 DEF FirstVersion, Alike
<1>3. QED
  BY <1>1, <1>2 DEF IsChoice, Alike

LEMMA LoadKeeps ==
    ASSUME BuildInv, NEW p \in Process, Load(p)
    PROVE  BuildInv'
<1>1. PICK c, t, b, h : c = command[p] /\ t = Head(c.targets) /\ b = First(c.todo) /\ h = Active(t)
  OBVIOUS
<1>2. /\ c # Idle /\ IsCommand(c) /\ FirstVersion(c) /\ CommandOK(c) /\ c.step = "load"
      /\ t = Now(p) /\ c.step \in Turn
  BY <1>1, Working DEF Load, Turn
<1>3. UNCHANGED <<packages, link, binary, library, dist, swept, overlap, count>>
  BY DEF Load, projectVars, cargoVars, outputVars
<1>4. CASE h = None
  BY <1>1, <1>2, <1>3, <1>4, FailStep DEF Load
<1>5. CASE h # None
  <2>1. PICK f, x : f = [root |-> link[t], hash |-> h] /\ x = [c EXCEPT !.step = "cargo", !.flags = f]
    OBVIOUS
  <2>2. command' = [command EXCEPT ![p] = x]
    BY <1>1, <1>2, <1>5, <2>1 DEF Load
  <2>3. x = [step |-> "cargo", mode |-> c.mode, number |-> c.number, targets |-> c.targets,
             sweep |-> c.sweep, todo |-> c.todo, several |-> c.several, flags |-> f,
             variants |-> c.variants, calm |-> c.calm, alone |-> c.alone, solo |-> c.solo]
    BY <1>2, <2>1 DEF IsCommand
  <2>4. /\ x.flags = f /\ x.variants = c.variants /\ x.calm = c.calm /\ x.alone = c.alone /\ x.solo = c.solo
    BY <2>3
  <2>5. Restepped(x, c, "cargo")
    BY <2>3, <2>4 DEF Restepped
  <2>6. /\ IsCommand(x) /\ Continues(x, c) /\ x.step = "cargo"
        /\ x.targets = c.targets /\ x.todo = c.todo /\ FirstVersion(x)
    <3>1. /\ c.alone \in BOOLEAN /\ c.solo \in BOOLEAN /\ c.calm \in BOOLEAN
          /\ c.variants \in Seq({c.variants[i] : i \in DOMAIN c.variants})
      BY <1>2 DEF IsCommand
    <3>2. "cargo" \in Turn
      BY DEF Turn
    <3>3. QED
      BY <1>2, <2>4, <2>5, <3>1, <3>2, ResteppedOK
  <2>7. CommandOK(x)
    <3>1. x.calm => packages[b.root] = b.version
      BY <1>1, <1>2, <2>4 DEF CommandOK, TurnOK, Turn
    <3>2. x.calm /\ x.alone => link[t] = b.root
      BY <1>1, <1>2, <2>4 DEF CommandOK, TurnOK, Turn
    <3>3. Fine(c, t) => x.flags.hash = b.hash /\ Hash(x.flags.root) = b.hash
      <4>1. x.flags.hash = h /\ Hash(x.flags.root) = h
        BY <1>1, <2>1, <2>4 DEF Active
      <4>2. Fine(c, t) => h = b.hash
        BY <1>1, <1>2, <1>5, ActiveIsChoice DEF CommandOK, Turn
      <4>3. QED
        BY <4>1, <4>2
    <3>4. TurnOK(x)
      BY <1>1, <2>4, <2>6, <3>1, <3>2, <3>3 DEF TurnOK, Fine
    <3>5. QED
      BY <1>2, <2>4, <2>6, <3>4 DEF CommandOK
  <2>8. Stays(x, c)
    BY <1>2, <2>4, <2>6 DEF Stays, Turn
  <2>9. QED
    BY <1>1, <1>2, <1>3, <2>2, <2>6, <2>7, <2>8, QuietStep
<1>6. QED
  BY <1>4, <1>5

-----------------------------------------------------------------------------
(* Steps that set links, or what Cargo has made, for some targets.           *)

SameForOthers(p) ==
    \A q \in Process \ {p} : command[q] # Idle /\ Alike(Now(q)) =>
        /\ command[q].step \in {"pack", "take"} =>
              binary'[Now(q)] = binary[Now(q)] \/ binary'[Now(q)] = Built(Current(q).hash)
        /\ command[q].step \in {"archive", "rename"} =>
              library'[Now(q)] = library[Now(q)] \/ library'[Now(q)] = Built(Current(q).hash)

LEMMA TouchStep ==
    ASSUME BuildInv, NEW p \in Process, command[p] # Idle, NEW T, NEW x,
           command' = Touch(p, T, [command EXCEPT ![p] = x]),
           UNCHANGED <<packages, dist, swept, overlap, count>>,
           link' \in [Targets -> Root \cup {None}],
           \A t \in Targets : link'[t] # None => TargetOf[link'[t]] = t,
           binary' = [t \in Targets |-> binary'[t]], library' = [t \in Targets |-> library'[t]],
           \A t \in Targets \ T : link'[t] = link[t] /\ binary'[t] = binary[t] /\ library'[t] = library[t],
           SameForOthers(p),
           x # Idle => /\ IsCommand(x) /\ FirstVersion(x) /\ Continues(x, command[p])
                       /\ CommandOK(x)' /\ (Stays(x, command[p]) \/ Head(x.targets) \in T)
    PROVE  BuildInv'
<1>1. Typed /\ LatestInv /\ InterfaceInv
  BY DEF BuildInv
<1>2. /\ command' = [q \in Process |-> command'[q]] /\ command'[p] = x
      /\ \A q \in Process \ {p} : Other(command'[q], command[q])
      /\ \A q \in Process \ {p} : command[q] # Idle /\ Head(command[q].targets) \in T => ~command'[q].alone
  BY <1>1, TouchOthers
<1>3. StoreTyped' /\ count'.exports = count.exports
  BY <1>1 DEF Typed, StoreTyped
<1>4. Typed'
  <2>1. FirstVersion(x) => FirstVersion(x)'
    BY DEF FirstVersion
  <2>2. QED
    BY <1>1, <1>2, <1>3, <2>1, TypedStep
<1>5. LatestInv'
  <2>1. DistIsLatest'
    BY <1>1, SameDistIsLatest DEF LatestInv
  <2>2. QED
    BY <1>1, <1>2, <2>1, LatestStep
<1>6. InterfaceInv'
  <2>1. ASSUME NEW q \in Process \ {p}, command[q] # Idle
        PROVE  TurnOK(command[q])'
    <3>1. PICK c, d, t, b : c = command[q] /\ d = command'[q] /\ t = Head(c.targets) /\ b = First(c.todo)
      OBVIOUS
    <3>2. IsCommand(c) /\ Weaker(d, c) /\ TurnOK(c)
      BY <1>1, <1>2, <2>1, <3>1 DEF Typed, Other, InterfaceInv
    <3>3. t \in Targets /\ t = Now(q) /\ b = Current(q)
      BY <3>1, <3>2, TargetsTyped DEF Now, Current
    <3>4. d.alone => t \notin T
      BY <1>2, <2>1, <3>1
    <3>5. d.alone => link'[t] = link[t] /\ binary'[t] = binary[t] /\ library'[t] = library[t]
      BY <3>3, <3>4
    <3>6. Fine(d, t) /\ c.step \in {"pack", "take"} => binary'[t] = binary[t] \/ binary'[t] = Built(b.hash)
      BY <2>1, <3>1, <3>3, <3>5 DEF Fine, SameForOthers
    <3>7. Fine(d, t) /\ c.step \in {"archive", "rename"} => library'[t] = library[t] \/ library'[t] = Built(b.hash)
      BY <2>1, <3>1, <3>3, <3>5 DEF Fine, SameForOthers
    <3>8. TurnOK(d)'
      BY <1>3, <3>1, <3>2, <3>5, <3>6, <3>7, OtherTurnOK
    <3>9. QED
      BY <3>1, <3>8
  <2>2. \A t : Alike(t)' => Alike(t)
    BY DEF Alike
  <2>3. command'[p] # Idle => TurnOK(command[p])' /\ VariantsOK(command[p].variants, Now(p))'
    BY <1>2 DEF CommandOK, Now
  <2>4. JoinsAlone(p)
    BY <1>2 DEF JoinsAlone, Stays
  <2>5. /\ \A t \in Targets : dist'[t].image \notin {None, Torn} => VariantsOK(dist[t].image.variants, t)'
        /\ ArchiveAsNamed'
    BY <1>1, <2>2 DEF InterfaceInv, ArchiveAsNamed, VariantsOK
  <2>6. QED
    BY <1>1, <1>2, <1>3, <2>1, <2>3, <2>4, <2>5, InterfaceStep
<1>7. QED
  BY <1>4, <1>5, <1>6 DEF BuildInv

\* An interface of a target can be linked for it.
LEMMA FirstInterface ==
    ASSUME BuildInv, NEW t \in Targets, Interfaces(t) # {}
    PROVE  First(Interfaces(t)).root \in Root /\ TargetOf[First(Interfaces(t)).root] = t
<1>1. \A b \in Interfaces(t) : IsChoice(b, t)
  BY InterfacesAreChoices DEF BuildInv
<1>2. First(Interfaces(t)) \in Interfaces(t)
  BY <1>1, FirstIsChoice DEF IsChoice
<1>3. QED
  BY <1>1, <1>2 DEF IsChoice

LEMMA SyncKeeps ==
    ASSUME BuildInv, NEW p \in Process, Sync(p)
    PROVE  BuildInv'
<1>1. PICK c, x : c = command[p] /\ x = [c EXCEPT !.step = "target"]
  OBVIOUS
<1>2. /\ c # Idle /\ IsCommand(c) /\ FirstVersion(c) /\ CommandOK(c) /\ c.step = "sync"
  BY <1>1, Working DEF Sync
<1>3. UNCHANGED <<packages, binary, library, dist, swept, overlap, count>>
  BY DEF Sync, cargoVars, outputVars
<1>4. command' = Touch(p, Targets, [command EXCEPT ![p] = x])
  BY <1>1 DEF Sync
<1>5. link' = [t \in Targets |-> IF Interfaces(t) # {} THEN First(Interfaces(t)).root ELSE link[t]]
  BY DEF Sync, Relink
<1>6. /\ link' \in [Targets -> Root \cup {None}]
      /\ \A t \in Targets : link'[t] # None => TargetOf[link'[t]] = t
  BY <1>5, FirstInterface DEF BuildInv, Typed, StoreTyped
<1>7. x = [step |-> "target", mode |-> c.mode, number |-> c.number, targets |-> c.targets,
           sweep |-> c.sweep, todo |-> c.todo, several |-> c.several, flags |-> c.flags,
           variants |-> c.variants, calm |-> c.calm, alone |-> c.alone, solo |-> c.solo]
  BY <1>1, <1>2 DEF IsCommand
<1>8. /\ x.step = "target" /\ x.mode = c.mode /\ x.number = c.number /\ x.targets = c.targets
      /\ x.sweep = c.sweep /\ x.todo = c.todo /\ x.several = c.several /\ x.flags = c.flags
      /\ x.variants = c.variants /\ x.calm = c.calm /\ x.alone = c.alone /\ x.solo = c.solo
  BY <1>7
<1>9. x = [step |-> x.step, mode |-> x.mode, number |-> x.number, targets |-> x.targets,
           sweep |-> x.sweep, todo |-> x.todo, several |-> x.several, flags |-> x.flags,
           variants |-> x.variants, calm |-> x.calm, alone |-> x.alone, solo |-> x.solo]
  BY <1>7, <1>8
<1>10. IsCommand(x) /\ FirstVersion(x) /\ Continues(x, c)
  BY <1>2, <1>8, <1>9 DEF IsCommand, FirstVersion, Continues, Turn
<1>11. CommandOK(x)'
  <2>1. TurnOK(x)'
    BY <1>8 DEF TurnOK, Turn
  <2>2. VariantsOK(c.variants, Head(c.targets))'
    BY <1>2, <1>3 DEF CommandOK, VariantsOK, Alike
  <2>3. QED
    BY <1>8, <2>1, <2>2 DEF CommandOK
<1>12. Head(x.targets) \in Targets
  BY <1>2, <1>8, TargetsTyped
<1>13. SameForOthers(p)
  BY <1>3 DEF SameForOthers
<1>14. binary' = [t \in Targets |-> binary'[t]] /\ library' = [t \in Targets |-> library'[t]]
  BY <1>3 DEF BuildInv, Typed, StoreTyped
<1>15. QED
  BY <1>1, <1>2, <1>3, <1>4, <1>6, <1>10, <1>11, <1>12, <1>13, <1>14, TouchStep

\* A turn goes on, with nothing new.
Onwards(c, step) == [c EXCEPT !.step = step]

LEMMA BuildGoesOn ==
    ASSUME NEW c, IsCommand(c), FirstVersion(c), c.step \in Turn, NEW step \in Turn,
           step \in {"pack", "take"} => c.mode = "m", step \in {"archive", "rename"} => c.mode = "y",
           NEW x, x = Onwards(c, step)
    PROVE  /\ IsCommand(x) /\ FirstVersion(x) /\ Continues(x, c) /\ x.step = step
           /\ x.targets = c.targets /\ x.todo = c.todo /\ x.variants = c.variants
           /\ x.flags = c.flags /\ x.calm = c.calm /\ x.alone = c.alone /\ x.solo = c.solo
<1>1. x = [step |-> step, mode |-> c.mode, number |-> c.number, targets |-> c.targets,
           sweep |-> c.sweep, todo |-> c.todo, several |-> c.several, flags |-> c.flags,
           variants |-> c.variants, calm |-> c.calm, alone |-> c.alone, solo |-> c.solo]
  BY DEF IsCommand, Onwards
<1>2. x.flags = c.flags /\ x.variants = c.variants /\ x.calm = c.calm /\ x.alone = c.alone /\ x.solo = c.solo
  BY <1>1
<1>3. Restepped(x, c, step)
  BY <1>1, <1>2 DEF Restepped
<1>4. /\ c.calm \in BOOLEAN /\ c.alone \in BOOLEAN /\ c.solo \in BOOLEAN
      /\ c.variants \in Seq({c.variants[i] : i \in DOMAIN c.variants})
  BY DEF IsCommand
<1>5. x.alone \in BOOLEAN /\ x.solo \in BOOLEAN /\ x.calm \in BOOLEAN
  BY <1>2, <1>4
<1>6. x.variants \in Seq({x.variants[i] : i \in DOMAIN x.variants})
  BY <1>2, <1>4
<1>7. /\ IsCommand(x) /\ Continues(x, c) /\ x.step = step
      /\ x.targets = c.targets /\ x.todo = c.todo /\ (FirstVersion(c) => FirstVersion(x))
  BY <1>3, <1>5, <1>6, ResteppedOK
<1>8. QED
  BY <1>2, <1>7

LEMMA LinkSet ==
    ASSUME BuildInv, NEW t \in Targets, NEW r \in Root \cup {None}, r # None => TargetOf[r] = t,
           link' = [link EXCEPT ![t] = r]
    PROVE  /\ link' \in [Targets -> Root \cup {None}] /\ link'[t] = r
           /\ \A u \in Targets : link'[u] # None => TargetOf[link'[u]] = u
           /\ \A u \in Targets \ {t} : link'[u] = link[u]
BY DEF BuildInv, Typed, StoreTyped

\* The step of a turn that sets the link of its target.
LEMMA RelinkStep ==
    ASSUME BuildInv, NEW p \in Process, NEW c, c = command[p], c # Idle, IsCommand(c), FirstVersion(c),
           CommandOK(c), NEW t, t = Head(c.targets),
           NEW r \in Root \cup {None}, r # None => TargetOf[r] = t, link' = [link EXCEPT ![t] = r],
           UNCHANGED <<packages, binary, library, dist, swept, overlap, count>>,
           NEW x, command' = Touch(p, {t}, [command EXCEPT ![p] = x]),
           x # Idle => /\ IsCommand(x) /\ FirstVersion(x) /\ Continues(x, c)
                       /\ x.targets = c.targets /\ x.variants = c.variants /\ TurnOK(x)'
    PROVE  BuildInv'
<1>1. t \in Targets
  BY TargetsTyped
<1>2. /\ link' \in [Targets -> Root \cup {None}]
      /\ \A u \in Targets : link'[u] # None => TargetOf[link'[u]] = u
      /\ \A u \in Targets \ {t} : link'[u] = link[u]
  BY <1>1, LinkSet
<1>3. x # Idle => CommandOK(x)'
  <2>1. VariantsOK(c.variants, t)'
    BY DEF CommandOK, VariantsOK, Alike
  <2>2. QED
    BY <2>1 DEF CommandOK
<1>4. SameForOthers(p)
  BY DEF SameForOthers
<1>5. binary' = [u \in Targets |-> binary'[u]] /\ library' = [u \in Targets |-> library'[u]]
  BY DEF BuildInv, Typed, StoreTyped
<1>6. PICK T : T = {t}
  OBVIOUS
<1>7. /\ command' = Touch(p, T, [command EXCEPT ![p] = x])
      /\ \A u \in Targets \ T : link'[u] = link[u] /\ binary'[u] = binary[u] /\ library'[u] = library[u]
      /\ x # Idle => Head(x.targets) \in T
  BY <1>2, <1>6
<1>8. QED
  BY <1>2, <1>3, <1>4, <1>5, <1>7, TouchStep

LEMMA UnlinkKeeps ==
    ASSUME BuildInv, NEW p \in Process, Unlink(p)
    PROVE  BuildInv'
<1>1. PICK c, t, x : c = command[p] /\ t = Head(c.targets) /\ x = [c EXCEPT !.step = "link", !.alone = TRUE]
  OBVIOUS
<1>2. /\ c # Idle /\ IsCommand(c) /\ FirstVersion(c) /\ CommandOK(c) /\ c.step = "unlink"
      /\ t = Now(p) /\ c.step \in Turn
  BY <1>1, Working DEF Unlink, Turn
<1>3. UNCHANGED <<packages, binary, library, dist, swept, overlap, count>>
  BY DEF Unlink, cargoVars, outputVars
<1>4. CASE packages[Current(p).root] = 0
  BY <1>1, <1>2, <1>3, <1>4, FailStep DEF Unlink
<1>5. CASE packages[Current(p).root] # 0
  <2>1. link' = [link EXCEPT ![t] = None] /\ command' = Touch(p, {t}, [command EXCEPT ![p] = x])
    BY <1>1, <1>2, <1>5 DEF Unlink
  <2>2. /\ IsCommand(x) /\ FirstVersion(x) /\ Continues(x, c) /\ x.step = "link"
        /\ x.targets = c.targets /\ x.variants = c.variants
    <3>1. x = [step |-> "link", mode |-> c.mode, number |-> c.number, targets |-> c.targets,
               sweep |-> c.sweep, todo |-> c.todo, several |-> c.several, flags |-> c.flags,
               variants |-> c.variants, calm |-> c.calm, alone |-> TRUE, solo |-> c.solo]
      BY <1>1, <1>2 DEF IsCommand
    <3>2. x.flags = c.flags /\ x.variants = c.variants /\ x.calm = c.calm /\ x.alone = TRUE /\ x.solo = c.solo
      BY <3>1
    <3>3. Restepped(x, c, "link")
      BY <3>1, <3>2 DEF Restepped
    <3>4. /\ c.calm \in BOOLEAN /\ c.solo \in BOOLEAN
          /\ c.variants \in Seq({c.variants[i] : i \in DOMAIN c.variants})
      BY <1>2 DEF IsCommand
    <3>5. "link" \in Turn /\ x.alone \in BOOLEAN /\ x.solo \in BOOLEAN
      BY <3>2, <3>4 DEF Turn
    <3>6. QED
      BY <1>2, <3>2, <3>3, <3>4, <3>5, ResteppedOK
  <2>3. TurnOK(x)'
    BY <2>2 DEF TurnOK, Turn
  <2>4. QED
    BY <1>1, <1>2, <1>3, <2>1, <2>2, <2>3, RelinkStep
<1>6. QED
  BY <1>4, <1>5

LEMMA LinkKeeps ==
    ASSUME BuildInv, NEW p \in Process, Link(p)
    PROVE  BuildInv'
<1>1. PICK c, t, b : c = command[p] /\ t = Head(c.targets) /\ b = First(c.todo)
  OBVIOUS
<1>2. PICK x : x = IF packages[b.root] = 0 THEN Idle ELSE Onwards(c, "snapshot")
  OBVIOUS
<1>3. /\ c # Idle /\ IsCommand(c) /\ FirstVersion(c) /\ CommandOK(c) /\ c.step = "link"
      /\ t = Now(p) /\ b = Current(p) /\ c.step \in Turn /\ t \in Targets
  BY <1>1, Working DEF Link, Turn, Current
<1>4. UNCHANGED <<packages, binary, library, dist, swept, overlap, count>>
  BY DEF Link, cargoVars, outputVars
<1>5. /\ link' = [link EXCEPT ![t] = b.root]
      /\ command' = Touch(p, {t}, [command EXCEPT ![p] = x])
  BY <1>1, <1>2, <1>3 DEF Onwards, Link
<1>6. b.root \in Root \cup {None} /\ TargetOf[b.root] = t
  BY <1>1, <1>3, Chosen DEF IsChoice
<1>7. x # Idle => /\ IsCommand(x) /\ FirstVersion(x) /\ Continues(x, c) /\ x.step = "snapshot"
                  /\ x.targets = c.targets /\ x.variants = c.variants /\ x.todo = c.todo
  <2>1. "snapshot" \in Turn /\ "snapshot" \notin {"pack", "take", "archive", "rename"}
    BY DEF Turn
  <2>2. QED
    BY <1>2, <1>3, <2>1, BuildGoesOn
<1>8. x # Idle => TurnOK(x)'
  <2>1. link'[t] = b.root
    BY <1>3, <1>5, <1>6, LinkSet
  <2>2. QED
    BY <1>1, <1>7, <2>1 DEF TurnOK
<1>9. QED
  BY <1>1, <1>3, <1>4, <1>5, <1>6, <1>7, <1>8, RelinkStep

LEMMA PrepareKeeps ==
    ASSUME BuildInv, NEW p \in Process, Prepare(p)
    PROVE  BuildInv'
<1>1. PICK c, t, b : c = command[p] /\ t = Head(c.targets) /\ b = First(c.todo)
  OBVIOUS
<1>2. PICK x : x = Onwards(c, "load")
  OBVIOUS
<1>3. /\ c # Idle /\ IsCommand(c) /\ FirstVersion(c) /\ CommandOK(c) /\ c.step = "prepare"
      /\ t = Now(p) /\ t \in Targets /\ c.step \in Turn
  BY <1>1, Working DEF Prepare, Turn
<1>4. UNCHANGED <<packages, binary, library, dist, swept, overlap, count>>
  BY DEF Prepare, cargoVars, outputVars
<1>5. /\ IsCommand(x) /\ FirstVersion(x) /\ Continues(x, c) /\ x.step = "load" /\ x.targets = c.targets
      /\ x.variants = c.variants /\ x.todo = c.todo /\ x.calm = c.calm /\ x.alone = c.alone /\ x.solo = c.solo
  <2>1. "load" \in Turn /\ "load" \notin {"pack", "take", "archive", "rename"}
    BY DEF Turn
  <2>2. QED
    BY <1>2, <1>3, <2>1, BuildGoesOn
<1>6. CASE Active(t) # None
  <2>1. link' = link /\ command' = [command EXCEPT ![p] = x]
    BY <1>1, <1>2, <1>3, <1>6 DEF Onwards, Prepare, Go
  <2>2. CommandOK(x)
    BY <1>3, <1>5 DEF CommandOK, TurnOK, Turn
  <2>3. Stays(x, c)
    BY <1>3, <1>5 DEF Stays, Turn
  <2>4. QED
    BY <1>1, <1>3, <1>4, <1>5, <2>1, <2>2, <2>3, QuietStep
<1>7. CASE Active(t) = None /\ Interfaces(t) = {}
  <2>1. link' = link /\ Fail(p)
    BY <1>1, <1>3, <1>7 DEF Prepare, projectVars
  <2>2. QED
    BY <1>1, <1>3, <1>4, <2>1, FailStep
<1>8. CASE Active(t) = None /\ Interfaces(t) # {}
  <2>1. PICK r : r = First(Interfaces(t)).root
    OBVIOUS
  <2>2. r \in Root /\ TargetOf[r] = t
    BY <1>3, <1>8, <2>1, FirstInterface
  <2>3. link' = [link EXCEPT ![t] = r] /\ command' = Touch(p, {t}, [command EXCEPT ![p] = x])
    BY <1>1, <1>2, <1>3, <1>8, <2>1 DEF Onwards, Prepare
  <2>4. c.calm => packages[b.root] = b.version
    BY <1>1, <1>3 DEF CommandOK, TurnOK, Turn
  <2>5. c.calm /\ c.alone => link'[t] = b.root
    <3>1. SUFFICES ASSUME c.calm, c.alone PROVE FALSE
      OBVIOUS
    <3>2. link[t] = b.root
      BY <1>1, <1>3, <3>1 DEF CommandOK, TurnOK, Turn
    <3>3. packages[b.root] = 0
      <4>1. b.root \in Root /\ b.root # None
        BY <1>1, <1>3, Chosen, BuildAssumption DEF IsChoice
      <4>2. packages[b.root] \in Nat
        BY <4>1 DEF BuildInv, Typed, StoreTyped
      <4>3. <<Profile[b.root], packages[b.root]>> # None
        BY <4>1, <4>2, BuildAssumption
      <4>4. QED
        BY <1>8, <3>2, <4>1, <4>3 DEF Active, Hash
    <3>4. QED
      BY <1>1, <1>3, <2>4, <3>1, <3>3, Chosen DEF IsChoice
  <2>6. TurnOK(x)'
    BY <1>1, <1>4, <1>5, <2>4, <2>5 DEF TurnOK, Turn
  <2>7. QED
    BY <1>1, <1>3, <1>4, <1>5, <2>2, <2>3, <2>6, RelinkStep
<1>9. QED
  BY <1>6, <1>7, <1>8

\* What Cargo makes of an undisturbed turn.
LEMMA CompiledForChoice ==
    ASSUME NEW c, TurnOK(c), c.step = "cargo",
           NEW t, t = Head(c.targets), NEW b, b = First(c.todo), Fine(c, t)
    PROVE  [flags |-> c.flags.hash, seen |-> Hash(c.flags.root)] = Built(b.hash)
BY DEF TurnOK, Fine, Built

\* The end of a turn, as the invariant sees it.
LEMMA TurnEnds ==
    ASSUME NEW c, IsCommand(c), FirstVersion(c), c.step \in Turn, CommandOK(c),
           count'.exports = 0 => count.exports = 0, NEW x, x = InterfaceDone(c), x # Idle
    PROVE  /\ IsCommand(x) /\ FirstVersion(x) /\ Continues(x, c) /\ Stays(x, c) /\ CommandOK(x)'
<1>1. /\ IsCommand(x) /\ FirstVersion(x) /\ Continues(x, c) /\ x.step \in Later
      /\ (x.variants = <<>> \/ (x.variants = c.variants /\ Head(x.targets) = Head(c.targets)))
  BY InterfaceDoneOK
<1>2. Stays(x, c)
  BY <1>1 DEF Stays, Later, Turn
<1>3. TurnOK(x)'
  BY <1>1 DEF TurnOK, Turn, Later
<1>4. VariantsOK(x.variants, Head(x.targets))'
  <2>1. CASE x.variants = <<>>
    BY <2>1 DEF VariantsOK
  <2>2. CASE x.variants = c.variants /\ Head(x.targets) = Head(c.targets)
    BY <2>2 DEF CommandOK, VariantsOK, Alike
  <2>3. QED
    BY <1>1, <2>1, <2>2
<1>5. QED
  BY <1>1, <1>2, <1>3, <1>4 DEF CommandOK

LEMMA CargoKeeps ==
    ASSUME BuildInv, NEW p \in Process, Cargo(p)
    PROVE  BuildInv'
<1>1. PICK c, t, b : c = command[p] /\ t = Head(c.targets) /\ b = First(c.todo)
  OBVIOUS
<1>2. PICK built : built = [flags |-> c.flags.hash, seen |-> Hash(c.flags.root)]
  OBVIOUS
<1>3. /\ c # Idle /\ IsCommand(c) /\ FirstVersion(c) /\ CommandOK(c) /\ c.step = "cargo"
      /\ t = Now(p) /\ c.step \in Turn /\ t \in Targets
  BY <1>1, Working DEF Cargo, Turn
<1>4. UNCHANGED <<packages, link, dist, swept, overlap, count>>
  BY DEF Cargo, projectVars, outputVars
<1>5. link' \in [Targets -> Root \cup {None}] /\ \A u \in Targets : link'[u] # None => TargetOf[link'[u]] = u
  BY <1>4 DEF BuildInv, Typed, StoreTyped
<1>6. CASE Fail(p) /\ UNCHANGED <<binary, library>>
  BY <1>1, <1>3, <1>4, <1>6, FailStep
<1>7. CASE /\ command' = Touch(p, IF c.mode = "check" THEN {} ELSE {t}, [command EXCEPT ![p] = CargoDone(c)])
           /\ binary' = IF c.mode = "m" THEN [binary EXCEPT ![t] = built] ELSE binary
           /\ library' = IF c.mode = "y" THEN [library EXCEPT ![t] = built] ELSE library
  <2>1. Fine(c, t) => built = Built(b.hash)
    BY <1>1, <1>2, <1>3, <1>7, CompiledForChoice DEF CommandOK
  <2>2. /\ binary = [u \in Targets |-> binary[u]] /\ library = [u \in Targets |-> library[u]]
    BY DEF BuildInv, Typed, StoreTyped
  <2>3. /\ binary' = [u \in Targets |-> binary'[u]] /\ library' = [u \in Targets |-> library'[u]]
        /\ \A u \in Targets \ {t} : binary'[u] = binary[u] /\ library'[u] = library[u]
        /\ binary'[t] \in {binary[t], built} /\ library'[t] \in {library[t], built}
        /\ (c.mode = "m" => binary'[t] = built) /\ (c.mode = "y" => library'[t] = built)
        /\ (c.mode \notin {"m", "y"} => binary' = binary /\ library' = library)
    BY <1>3, <1>7, <2>2
  <2>4. SameForOthers(p)
    <3>1. ASSUME NEW q \in Process \ {p}, command[q] # Idle, Alike(Now(q)), command[q].step \in Turn, Now(q) = t
          PROVE  built = Built(Current(q).hash)
      <4>1. IsCommand(command[q]) /\ FirstVersion(command[q])
        BY <3>1 DEF BuildInv, Typed
      <4>2. Current(q).hash = b.hash
        BY <1>1, <1>3, <3>1, <4>1, AlikeChoices DEF Now, Current
      <4>3. QED
        BY <2>1, <3>1, <4>2 DEF Fine
    <3>2. \A q \in Process : command[q] # Idle => Now(q) \in Targets
      BY TargetsTyped DEF BuildInv, Typed, Now
    <3>3. QED
      BY <2>3, <3>1, <3>2 DEF SameForOthers, Turn
  <2>5. PICK x, T : x = CargoDone(c) /\ T = IF c.mode = "check" THEN {} ELSE {t}
    OBVIOUS
  <2>6. command' = Touch(p, T, [command EXCEPT ![p] = x])
    BY <1>7, <2>5
  <2>7. \A u \in Targets \ T : link'[u] = link[u] /\ binary'[u] = binary[u] /\ library'[u] = library[u]
    BY <1>4, <2>3, <2>5
  <2>8. c.mode \in {"m", "y", "check"}
    BY <1>3 DEF IsCommand
  <2>9. x # Idle => /\ IsCommand(x) /\ FirstVersion(x) /\ Continues(x, c)
                    /\ CommandOK(x)' /\ (Stays(x, c) \/ Head(x.targets) \in T)
    <3>1. CASE c.mode = "check"
      <4>1. x = InterfaceDone(c)
        BY <2>5, <3>1 DEF CargoDone
      <4>2. QED
        BY <1>3, <1>4, <4>1, TurnEnds
    <3>2. CASE c.mode # "check"
      <4>1. PICK step : step = IF c.mode = "m" THEN "pack" ELSE "archive"
        OBVIOUS
      <4>2. x = Onwards(c, step)
        BY <2>5, <2>8, <3>2, <4>1 DEF CargoDone, Onwards
      <4>3. /\ step \in Turn /\ (step \in {"pack", "take"} => c.mode = "m")
            /\ (step \in {"archive", "rename"} => c.mode = "y")
        BY <2>8, <3>2, <4>1 DEF Turn
      <4>4. /\ IsCommand(x) /\ FirstVersion(x) /\ Continues(x, c) /\ x.step = step
            /\ x.targets = c.targets /\ x.todo = c.todo /\ x.variants = c.variants
            /\ x.flags = c.flags /\ x.calm = c.calm /\ x.alone = c.alone /\ x.solo = c.solo
        BY <1>3, <4>2, <4>3, BuildGoesOn
      <4>5. Head(x.targets) \in T
        BY <1>1, <2>5, <3>2, <4>4
      <4>6. VariantsOK(x.variants, Head(x.targets))'
        BY <1>3, <1>4, <4>4 DEF CommandOK, VariantsOK, Alike
      <4>7. TurnOK(x)'
        <5>1. /\ c.calm => packages'[b.root] = b.version
              /\ c.calm /\ c.alone => link'[t] = b.root
          BY <1>1, <1>3, <1>4 DEF CommandOK, TurnOK, Turn
        <5>2. (c.calm /\ c.alone) \/ Alike(t)' => Fine(c, t)
          BY <1>4 DEF Fine, Alike
        <5>3. Fine(c, t) /\ step = "pack" => binary'[t] = Built(b.hash)
          BY <2>1, <2>3, <4>3
        <5>4. Fine(c, t) /\ step = "archive" => library'[t] = Built(b.hash)
          BY <2>1, <2>3, <4>3
        <5>5. step \in {"pack", "archive"}
          BY <4>1
        <5>6. QED
          BY <1>1, <4>4, <5>1, <5>2, <5>3, <5>4, <5>5 DEF TurnOK, Built
      <4>8. QED
        BY <4>4, <4>5, <4>6, <4>7 DEF CommandOK
    <3>3. QED
      BY <3>1, <3>2
  <2>10. QED
    BY <1>1, <1>3, <1>4, <1>5, <2>3, <2>4, <2>6, <2>7, <2>9, TouchStep
<1>8. QED
  BY <1>1, <1>2, <1>3, <1>6, <1>7 DEF Cargo

-----------------------------------------------------------------------------
(* Steps that change what is in dist for a target.                           *)

ImageOK(image, t) == image \notin {None, Torn} => VariantsOK(image.variants, t)
ArchivesOK(archives, t) ==
    \A a \in archives : a.calm /\ (a.alone \/ Alike(t)) /\ a.name # None =>
        a.main.flags = a.name /\ a.main.seen = a.name
OutputIsLatest(output, t) ==
    ~overlap => /\ output.image \notin {None, Torn} => output.image.by = swept[t]
                /\ \A a \in output.archives : a.by = swept[t]

\* What is new there does not disturb those that are at work on the target.
OutputForOthers(p, t, output) ==
    \A q \in Process \ {p} : command[q] # Idle /\ Now(q) = t =>
        /\ command[q].step = "take" /\ Fine(command[q], t) => \A v \in output.variants :
              v \in dist[t].variants \/ v.hash # Current(q).hash \/ v.content = Stamped(Current(q).hash)
        /\ command[q].step = "rename" => \A a \in output.archives :
              \/ a \in dist[t].archives \/ a.name # None \/ a.main = Built(Current(q).hash)
              \/ ~((a.alone /\ command[q].alone) \/ Alike(t))

LEMMA OutputsTyped ==
    ASSUME BuildInv, NEW t \in Targets
    PROVE  /\ dist[t] = [image |-> dist[t].image, variants |-> dist[t].variants, archives |-> dist[t].archives]
           /\ \A a \in dist[t].archives : IsArchive(a)
           /\ ImageOK(dist[t].image, t) /\ ArchivesOK(dist[t].archives, t) /\ OutputIsLatest(dist[t], t)
<1>1. /\ dist[t] = [image |-> dist[t].image, variants |-> dist[t].variants, archives |-> dist[t].archives]
      /\ \A a \in dist[t].archives : IsArchive(a)
  BY DEF BuildInv, Typed, StoreTyped, IsOutput
<1>2. ImageOK(dist[t].image, t) /\ ArchivesOK(dist[t].archives, t)
  BY DEF BuildInv, InterfaceInv, ArchiveAsNamed, ImageOK, ArchivesOK
<1>3. OutputIsLatest(dist[t], t)
  BY DEF BuildInv, LatestInv, DistIsLatest, OutputIsLatest
<1>4. QED
  BY <1>1, <1>2, <1>3

LEMMA OutputStep ==
    ASSUME BuildInv, NEW p \in Process, command[p] # Idle, NEW x, command' = [command EXCEPT ![p] = x],
           UNCHANGED <<packages, link, binary, library, swept, overlap>>,
           count' = [commands |-> count'.commands, targets |-> count'.targets, exports |-> count.exports,
                     events |-> count'.events],
           NEW t \in Targets, NEW output, dist' = [dist EXCEPT ![t] = output],
           IsOutput(output),
           ImageOK(output.image, t), ArchivesOK(output.archives, t), OutputIsLatest(output, t),
           OutputForOthers(p, t, output),
           x # Idle => /\ IsCommand(x) /\ FirstVersion(x) /\ Continues(x, command[p])
                       /\ CommandOK(x)' /\ Stays(x, command[p])
    PROVE  BuildInv'
<1>1. Typed /\ LatestInv /\ InterfaceInv
  BY DEF BuildInv
<1>2. /\ command' = [q \in Process |-> command'[q]] /\ command'[p] = x
      /\ \A q \in Process \ {p} : Other(command'[q], command[q]) /\ command'[q] = command[q]
  BY <1>1, OwnOthers
<1>3. /\ \A u \in Targets : dist'[u] = IF u = t THEN output ELSE dist[u]
      /\ dist' = [u \in Targets |-> dist'[u]]
      /\ count'.exports = count.exports
  BY <1>1 DEF Typed, StoreTyped
<1>4. StoreTyped'
  <2>1. \A u \in Targets : IsOutput(dist'[u])
    BY <1>1, <1>3 DEF Typed, StoreTyped
  <2>3. count' = [commands |-> count'.commands, targets |-> count'.targets, exports |-> count'.exports,
                  events |-> count'.events]
    BY <1>3
  <2>4. QED
    BY <1>1, <1>3, <2>1, <2>3 DEF Typed, StoreTyped
<1>5. Typed'
  <2>1. FirstVersion(x) => FirstVersion(x)'
    BY <1>3 DEF FirstVersion
  <2>2. QED
    BY <1>1, <1>2, <1>3, <1>4, <2>1, TypedStep
<1>6. \A u : Alike(u)' <=> Alike(u)
  BY <1>3 DEF Alike
<1>7. \A u \in Targets : /\ ImageOK(dist'[u].image, u) /\ ArchivesOK(dist'[u].archives, u)
                         /\ OutputIsLatest(dist'[u], u)
  BY <1>3, OutputsTyped
<1>8. LatestInv'
  <2>1. DistIsLatest'
    BY <1>7 DEF DistIsLatest, OutputIsLatest
  <2>2. QED
    BY <1>1, <1>2, <2>1, LatestStep
<1>9. InterfaceInv'
  <2>1. ASSUME NEW q \in Process \ {p}, command[q] # Idle
        PROVE  TurnOK(command[q])'
    <3>1. PICK c, u, b : c = command[q] /\ u = Head(c.targets) /\ b = First(c.todo)
      OBVIOUS
    <3>2. IsCommand(c) /\ Weaker(c, c) /\ TurnOK(c) /\ command'[q] = c
      BY <1>1, <1>2, <2>1, <3>1 DEF Typed, Other, InterfaceInv
    <3>3. u = Now(q) /\ b = Current(q) /\ u \in Targets
      BY <3>1, <3>2, TargetsTyped DEF Now, Current
    <3>4. c.step = "take" /\ Fine(c, u) => \A v \in dist'[u].variants :
              v \in dist[u].variants \/ v.hash # b.hash \/ v.content = Stamped(b.hash)
      <4>1. CASE u = t
        BY <1>3, <2>1, <3>1, <3>3, <4>1 DEF OutputForOthers
      <4>2. CASE u # t
        BY <1>3, <3>3, <4>2
      <4>3. QED
        BY <4>1, <4>2
    <3>5. c.step = "rename" => \A a \in dist'[u].archives :
              \/ a \in dist[u].archives \/ a.name # None \/ a.main = Built(b.hash)
              \/ ~((a.alone /\ c.alone) \/ Alike(u))
      <4>1. CASE u = t
        BY <1>3, <2>1, <3>1, <3>3, <4>1 DEF OutputForOthers
      <4>2. CASE u # t
        BY <1>3, <3>3, <4>2
      <4>3. QED
        BY <4>1, <4>2
    <3>6. TurnOK(c)'
      BY <1>3, <3>1, <3>2, <3>4, <3>5, OtherTurnOK
    <3>7. QED
      BY <3>2, <3>6
  <2>2. command'[p] # Idle => TurnOK(command[p])' /\ VariantsOK(command[p].variants, Now(p))'
    BY <1>2 DEF CommandOK, Now
  <2>3. JoinsAlone(p)
    BY <1>2 DEF JoinsAlone, Stays
  <2>4. \A u \in Targets : dist'[u].image \notin {None, Torn} => VariantsOK(dist[u].image.variants, u)'
    BY <1>6, <1>7 DEF ImageOK, VariantsOK
  <2>5. ArchiveAsNamed'
    BY <1>6, <1>7 DEF ArchivesOK, ArchiveAsNamed
  <2>6. QED
    BY <1>1, <1>2, <1>3, <2>1, <2>2, <2>3, <2>4, <2>5, InterfaceStep
<1>10. QED
  BY <1>5, <1>8, <1>9 DEF BuildInv

\* What a build that is past its sweep makes for its target is of the latest build.
LEMMA OwnIsLatest ==
    ASSUME BuildInv, NEW p \in Process, command[p] # Idle, command[p].mode # "check", command[p].step # "sweep",
           ~overlap
    PROVE  swept[Now(p)] = command[p].number
<1>1. IsCommand(command[p]) /\ SweptBy(command[p])
  BY DEF BuildInv, Typed, LatestInv, Building
<1>2. command[p].sweep = <<>> /\ 1 \in DOMAIN command[p].targets /\ Now(p) = command[p].targets[1]
  BY <1>1, TargetsTyped DEF IsCommand, Now
<1>3. QED
  BY <1>1, <1>2 DEF SweptBy

\* The image of an undisturbed turn.
LEMMA StampedForChoice ==
    ASSUME BuildInv, NEW c, IsCommand(c), FirstVersion(c), TurnOK(c), c.step \in {"pack", "take"},
           NEW t, t = Head(c.targets), NEW b, b = First(c.todo), Fine(c, t), Active(t) # None
    PROVE  [flags |-> binary[t].flags, seen |-> binary[t].seen, stamp |-> Active(t)] = Stamped(b.hash)
<1>1. Active(t) = b.hash
  BY ActiveIsChoice DEF Turn
<1>2. binary[t] = Built(b.hash)
  BY DEF TurnOK, Fine
<1>3. QED
  BY <1>1, <1>2 DEF Built, Stamped

\* Only the variants of a target change.
LEMMA ReplaceVariants ==
    ASSUME BuildInv, NEW t \in Targets, NEW variants
    PROVE  [dist EXCEPT ![t].variants = variants] =
               [dist EXCEPT ![t] = [image |-> dist[t].image, archives |-> dist[t].archives, variants |-> variants]]
<1>1. PICK o : o = dist[t]
  OBVIOUS
<1>2. o = [image |-> o.image, variants |-> o.variants, archives |-> o.archives]
  BY <1>1, OutputsTyped
<1>3. [o EXCEPT !.variants = variants] = [image |-> o.image, archives |-> o.archives, variants |-> variants]
  BY <1>2
<1>4. QED
  BY <1>1, <1>3

LEMMA PackKeeps ==
    ASSUME BuildInv, NEW p \in Process, Pack(p)
    PROVE  BuildInv'
<1>1. PICK c, t, b : c = command[p] /\ t = Head(c.targets) /\ b = First(c.todo)
  OBVIOUS
<1>2. PICK new : new = [flags |-> binary[t].flags, seen |-> binary[t].seen, stamp |-> Active(t)]
  OBVIOUS
<1>3. /\ c # Idle /\ IsCommand(c) /\ FirstVersion(c) /\ CommandOK(c) /\ c.step = "pack"
      /\ t = Now(p) /\ b = Current(p) /\ c.step \in Turn /\ t \in Targets
  BY <1>1, Working DEF Pack, Turn, Current
<1>4. UNCHANGED <<packages, link, binary, library, swept, overlap, count>>
  BY DEF Pack, projectVars, cargoVars
<1>5. CASE Fail(p) /\ UNCHANGED dist
  BY <1>1, <1>3, <1>4, <1>5, FailStep
<1>6. CASE /\ Active(t) # None /\ Go(p, "take")
           /\ dist' = [dist EXCEPT ![t].variants =
                  {v \in @ : v.hash # b.hash} \cup {[hash |-> b.hash, content |-> new]}]
  <2>1. PICK output : output = [image |-> dist[t].image, archives |-> dist[t].archives,
            variants |-> {v \in dist[t].variants : v.hash # b.hash} \cup {[hash |-> b.hash, content |-> new]}]
    OBVIOUS
  <2>3. dist' = [dist EXCEPT ![t] = output]
    BY <1>6, <2>1, ReplaceVariants, <1>3
  <2>4. /\ output.image = dist[t].image /\ output.archives = dist[t].archives
        /\ output.variants = {v \in dist[t].variants : v.hash # b.hash} \cup {[hash |-> b.hash, content |-> new]}
        /\ output = [image |-> output.image, variants |-> output.variants, archives |-> output.archives]
    BY <2>1
  <2>5. /\ IsOutput(output)
        /\ ImageOK(output.image, t) /\ ArchivesOK(output.archives, t) /\ OutputIsLatest(output, t)
    BY <1>3, <2>4, OutputsTyped DEF OutputIsLatest, IsOutput
  <2>6. OutputForOthers(p, t, output)
    <3>1. ASSUME NEW q \in Process \ {p}, command[q] # Idle, Now(q) = t, command[q].step = "take",
                 Fine(command[q], t)
          PROVE  new = Stamped(Current(q).hash)
      <4>1. IsCommand(command[q]) /\ FirstVersion(command[q]) /\ TurnOK(command[q])
        BY <3>1 DEF BuildInv, Typed, InterfaceInv
      <4>2. QED
        BY <1>2, <1>6, <3>1, <4>1, StampedForChoice DEF Now, Current
    <3>2. QED
      BY <2>4, <3>1 DEF OutputForOthers
  <2>7. PICK x : x = Onwards(c, "take")
    OBVIOUS
  <2>8. command' = [command EXCEPT ![p] = x]
    BY <1>1, <1>6, <2>7 DEF Go, Onwards
  <2>9. /\ IsCommand(x) /\ FirstVersion(x) /\ Continues(x, c) /\ x.step = "take"
        /\ x.targets = c.targets /\ x.todo = c.todo /\ x.variants = c.variants
        /\ x.flags = c.flags /\ x.calm = c.calm /\ x.alone = c.alone /\ x.solo = c.solo
    <3>1. "take" \in Turn /\ c.mode = "m"
      BY <1>3 DEF Turn, IsCommand
    <3>2. QED
      BY <1>3, <2>7, <3>1, BuildGoesOn
  <2>10. CommandOK(x)'
    <3>1. VariantsOK(x.variants, Head(x.targets))'
      BY <1>3, <1>4, <2>9 DEF CommandOK, VariantsOK, Alike
    <3>2. /\ c.calm => packages'[b.root] = b.version
          /\ c.calm /\ c.alone => link'[t] = b.root
          /\ Fine(c, t) => binary'[t] = Built(b.hash)
      BY <1>1, <1>3, <1>4 DEF CommandOK, TurnOK, Turn, Fine
    <3>3. Fine(c, t) => new = Stamped(b.hash)
      BY <1>1, <1>2, <1>3, <1>6, StampedForChoice DEF CommandOK
    <3>4. Fine(c, t) => \A v \in dist'[t].variants : v.hash = b.hash => v.content = Stamped(b.hash)
      <4>1. dist'[t] = output
        BY <1>3, <2>3 DEF BuildInv, Typed, StoreTyped
      <4>2. QED
        BY <2>4, <3>3, <4>1
    <3>5. (c.calm /\ c.alone) \/ Alike(t)' => Fine(c, t)
      BY <1>4 DEF Fine, Alike
    <3>6. TurnOK(x)'
      BY <1>1, <2>9, <3>2, <3>4, <3>5 DEF TurnOK, Built, Stamped
    <3>7. QED
      BY <3>1, <3>6 DEF CommandOK
  <2>11. Stays(x, c)
    BY <1>3, <2>9 DEF Stays, Turn
  <2>12. count' = [commands |-> count'.commands, targets |-> count'.targets, exports |-> count.exports,
                   events |-> count'.events]
    BY <1>4 DEF BuildInv, Typed, StoreTyped
  <2>13. QED
    BY <1>1, <1>3, <1>4, <2>3, <2>4, <2>5, <2>6, <2>8, <2>9, <2>10, <2>11, <2>12, OutputStep
<1>7. QED
  BY <1>1, <1>2, <1>3, <1>5, <1>6 DEF Pack

LEMMA TakeKeeps ==
    ASSUME BuildInv, NEW p \in Process, Take(p)
    PROVE  BuildInv'
<1>1. PICK c, t, b, left : /\ c = command[p] /\ t = Head(c.targets) /\ b = First(c.todo)
                           /\ left = {v \in dist[t].variants : v.hash = b.hash}
  OBVIOUS
<1>2. /\ c # Idle /\ IsCommand(c) /\ FirstVersion(c) /\ CommandOK(c) /\ c.step = "take"
      /\ t = Now(p) /\ b = Current(p) /\ c.step \in Turn /\ t \in Targets
  BY <1>1, Working DEF Take, Turn, Current
<1>3. UNCHANGED <<packages, link, binary, library, swept, overlap, count>>
  BY DEF Take, projectVars, cargoVars
<1>4. CASE left = {}
  BY <1>1, <1>2, <1>3, <1>4, FailStep DEF Take
<1>5. CASE left # {}
  <2>1. PICK output : output = [image |-> dist[t].image, archives |-> dist[t].archives,
                                variants |-> dist[t].variants \ left]
    OBVIOUS
  <2>3. dist' = [dist EXCEPT ![t] = output]
    <3>1. dist' = [dist EXCEPT ![t].variants = @ \ left]
      BY <1>1, <1>2, <1>5 DEF Take
    <3>2. QED
      BY <1>2, <2>1, <3>1, ReplaceVariants
  <2>4. /\ output.image = dist[t].image /\ output.archives = dist[t].archives
        /\ output.variants = dist[t].variants \ left
        /\ output = [image |-> output.image, variants |-> output.variants, archives |-> output.archives]
    BY <2>1
  <2>5. /\ IsOutput(output)
        /\ ImageOK(output.image, t) /\ ArchivesOK(output.archives, t) /\ OutputIsLatest(output, t)
    BY <1>2, <2>4, OutputsTyped DEF OutputIsLatest, IsOutput
  <2>6. OutputForOthers(p, t, output)
    BY <2>4 DEF OutputForOthers
  <2>7. PICK v \in left :
            command' = [command EXCEPT ![p] = InterfaceDone([c EXCEPT !.variants = Append(c.variants,
                           [record |-> v.hash, content |-> v.content, calm |-> c.calm, alone |-> c.alone])])]
    BY <1>1, <1>2, <1>5 DEF Take
  <2>8. PICK entry : entry = [record |-> v.hash, content |-> v.content, calm |-> c.calm, alone |-> c.alone]
    OBVIOUS
  <2>9. PICK variants : variants = Append(c.variants, entry)
    OBVIOUS
  <2>10. /\ variants \in Seq({variants[i] : i \in DOMAIN variants})
         /\ \A i \in DOMAIN variants : (i \in DOMAIN c.variants /\ variants[i] = c.variants[i]) \/ variants[i] = entry
    <3>1. PICK S : S = {c.variants[i] : i \in DOMAIN c.variants} \cup {entry}
      OBVIOUS
    <3>2. c.variants \in Seq(S) /\ entry \in S
      BY <1>2, <3>1 DEF IsCommand
    <3>3. variants \in Seq(S)
      BY <2>9, <3>2
    <3>4. \A i \in DOMAIN variants : (i \in DOMAIN c.variants /\ variants[i] = c.variants[i]) \/ variants[i] = entry
      BY <2>9, <3>2
    <3>5. QED
      BY <3>3, <3>4
  <2>11. PICK taken : taken = [c EXCEPT !.variants = variants]
    OBVIOUS
  <2>12. taken = [step |-> "take", mode |-> c.mode, number |-> c.number, targets |-> c.targets,
                  sweep |-> c.sweep, todo |-> c.todo, several |-> c.several, flags |-> c.flags,
                  variants |-> variants, calm |-> c.calm, alone |-> c.alone, solo |-> c.solo]
    BY <1>2, <2>11 DEF IsCommand
  <2>13. /\ taken.flags = c.flags /\ taken.variants = variants /\ taken.calm = c.calm
         /\ taken.alone = c.alone /\ taken.solo = c.solo
    BY <2>12
  <2>14. Restepped(taken, c, "take")
    BY <2>12, <2>13 DEF Restepped
  <2>15. /\ IsCommand(taken) /\ Continues(taken, c) /\ taken.step = "take" /\ FirstVersion(taken)
         /\ taken.targets = c.targets /\ taken.todo = c.todo
    <3>1. /\ "take" \in Turn /\ c.mode = "m" /\ taken.calm \in BOOLEAN /\ taken.alone \in BOOLEAN /\ taken.solo \in BOOLEAN
      BY <1>2, <2>13 DEF Turn, IsCommand
    <3>2. taken.variants \in Seq({taken.variants[i] : i \in DOMAIN taken.variants})
      BY <2>10, <2>13
    <3>3. QED
      BY <1>2, <2>14, <3>1, <3>2, ResteppedOK
  <2>16. CommandOK(taken)
    <3>1. Fine(c, t) => v.content = Stamped(b.hash) /\ v.hash = b.hash
      BY <1>1, <1>2 DEF CommandOK, TurnOK, Fine
    <3>2. entry.calm /\ (entry.alone \/ Alike(t)) => entry.content = Stamped(entry.record)
      BY <2>8, <3>1 DEF Fine
    <3>3. VariantsOK(variants, t)
      BY <1>1, <1>2, <2>10, <3>2 DEF CommandOK, VariantsOK
    <3>4. TurnOK(taken)
      BY <1>2, <2>13, <2>15 DEF CommandOK, TurnOK
    <3>5. QED
      BY <1>1, <2>13, <2>15, <3>3, <3>4 DEF CommandOK
  <2>17. PICK x : x = InterfaceDone(taken)
    OBVIOUS
  <2>18. command' = [command EXCEPT ![p] = x]
    BY <2>7, <2>8, <2>9, <2>11, <2>17
  <2>19. x # Idle => IsCommand(x) /\ FirstVersion(x) /\ Continues(x, c) /\ Stays(x, c) /\ CommandOK(x)'
    <3>1. taken.step \in Turn
      BY <2>15 DEF Turn
    <3>2. x # Idle => IsCommand(x) /\ FirstVersion(x) /\ Continues(x, taken) /\ Stays(x, taken) /\ CommandOK(x)'
      BY <1>3, <2>15, <2>16, <2>17, <3>1, TurnEnds
    <3>3. Stays(x, taken) => Stays(x, c)
      BY <1>2, <2>13, <2>15 DEF Stays
    <3>4. Continues(x, taken) => Continues(x, c)
      BY <2>12, <2>15 DEF Continues
    <3>5. QED
      BY <3>2, <3>3, <3>4
  <2>20. count' = [commands |-> count'.commands, targets |-> count'.targets, exports |-> count.exports,
                   events |-> count'.events]
    BY <1>3 DEF BuildInv, Typed, StoreTyped
  <2>21. QED
    BY <1>1, <1>2, <1>3, <2>3, <2>4, <2>5, <2>6, <2>18, <2>19, <2>20, OutputStep
<1>6. QED
  BY <1>4, <1>5

\* Only the image, or the archives, of a target change.
LEMMA ReplaceOutput ==
    ASSUME BuildInv, NEW t \in Targets, NEW new
    PROVE  /\ [dist EXCEPT ![t].image = new] =
                  [dist EXCEPT ![t] = [image |-> new, archives |-> dist[t].archives, variants |-> dist[t].variants]]
           /\ [dist EXCEPT ![t].archives = new] =
                  [dist EXCEPT ![t] = [image |-> dist[t].image, archives |-> new, variants |-> dist[t].variants]]
<1>1. PICK o : o = dist[t]
  OBVIOUS
<1>2. o = [image |-> o.image, variants |-> o.variants, archives |-> o.archives]
  BY <1>1, OutputsTyped
<1>3. /\ [o EXCEPT !.image = new] = [image |-> new, archives |-> o.archives, variants |-> o.variants]
      /\ [o EXCEPT !.archives = new] = [image |-> o.image, archives |-> new, variants |-> o.variants]
  BY <1>2
<1>4. QED
  BY <1>1, <1>3

LEMMA SameCount ==
    ASSUME BuildInv, count' = count
    PROVE  count' = [commands |-> count'.commands, targets |-> count'.targets, exports |-> count.exports,
                     events |-> count'.events]
BY DEF BuildInv, Typed, StoreTyped

LEMMA WriteKeeps ==
    ASSUME BuildInv, NEW p \in Process, Write(p)
    PROVE  BuildInv'
<1>1. PICK c, t, x : c = command[p] /\ t = Head(c.targets) /\ x = TargetDone(c)
  OBVIOUS
<1>2. /\ c # Idle /\ IsCommand(c) /\ FirstVersion(c) /\ CommandOK(c) /\ c.step = "write"
      /\ t = Now(p) /\ t \in Targets
  BY <1>1, Working DEF Write
<1>3. UNCHANGED <<packages, link, binary, library, swept, overlap, count>>
  BY DEF Write, projectVars, cargoVars
<1>4. PICK image, output :
          /\ image = [variants |-> c.variants, by |-> c.number]
          /\ output = [image |-> image, archives |-> dist[t].archives, variants |-> dist[t].variants]
  OBVIOUS
<1>5. dist' = [dist EXCEPT ![t] = output] /\ command' = [command EXCEPT ![p] = x]
  <2>1. dist' = [dist EXCEPT ![t].image = image] /\ command' = [command EXCEPT ![p] = x]
    BY <1>1, <1>2, <1>4 DEF Write
  <2>2. QED
    BY <1>2, <1>4, <2>1, ReplaceOutput
<1>6. /\ output.image = image /\ output.archives = dist[t].archives /\ output.variants = dist[t].variants
      /\ image.variants = c.variants /\ image.by = c.number
  BY <1>4
<1>7. IsOutput(output)
  BY <1>2, <1>4, <1>6, OutputsTyped DEF IsOutput
<1>8. ImageOK(output.image, t)
  BY <1>1, <1>2, <1>6 DEF ImageOK, CommandOK
<1>9. OutputIsLatest(output, t)
  <2>1. c.mode # "check"
    BY <1>2 DEF IsCommand
  <2>2. ~overlap => swept[t] = c.number
    BY <1>1, <1>2, <2>1, OwnIsLatest
  <2>3. QED
    BY <1>2, <1>6, <2>2, OutputsTyped DEF OutputIsLatest
<1>10. ArchivesOK(output.archives, t) /\ OutputForOthers(p, t, output)
  BY <1>2, <1>6, OutputsTyped DEF OutputForOthers
<1>11. x # Idle => IsCommand(x) /\ FirstVersion(x) /\ Continues(x, c) /\ Stays(x, c) /\ CommandOK(x)'
  <2>1. x # Idle => IsCommand(x) /\ Continues(x, c) /\ x.step = "target" /\ x.variants = <<>>
    BY <1>1, <1>2, TargetDoneOK
  <2>2. x # Idle => FirstVersion(x) /\ Stays(x, c) /\ TurnOK(x)'
    BY <2>1 DEF FirstVersion, Stays, Turn, TurnOK
  <2>3. x # Idle => VariantsOK(x.variants, Head(x.targets))'
    BY <2>1 DEF VariantsOK
  <2>4. QED
    BY <2>1, <2>2, <2>3 DEF CommandOK
<1>12. QED
  BY <1>1, <1>2, <1>3, <1>5, <1>7, <1>8, <1>9, <1>10, <1>11, SameCount, OutputStep

LEMMA ArchiveKeeps ==
    ASSUME BuildInv, NEW p \in Process, Archive(p)
    PROVE  BuildInv'
<1>1. PICK c, t, b : c = command[p] /\ t = Head(c.targets) /\ b = First(c.todo)
  OBVIOUS
<1>2. PICK x : x = IF c.several THEN Onwards(c, "rename") ELSE InterfaceDone(c)
  OBVIOUS
<1>3. /\ c # Idle /\ IsCommand(c) /\ FirstVersion(c) /\ CommandOK(c) /\ c.step = "archive"
      /\ t = Now(p) /\ b = Current(p) /\ c.step \in Turn /\ t \in Targets
  BY <1>1, Working DEF Archive, Turn, Current
<1>4. UNCHANGED <<packages, link, binary, library, swept, overlap, count>>
  BY DEF Archive, projectVars, cargoVars
<1>5. PICK new : new = [name |-> None, main |-> library[t], api |-> newest[t], by |-> c.number,
                        calm |-> c.calm, alone |-> c.alone, solo |-> c.solo]
  OBVIOUS
<1>6. PICK archives : archives = {a \in dist[t].archives : a.name # None} \cup {new}
  OBVIOUS
<1>7. PICK output : output = [image |-> dist[t].image, archives |-> archives, variants |-> dist[t].variants]
  OBVIOUS
<1>8. dist' = [dist EXCEPT ![t] = output] /\ command' = [command EXCEPT ![p] = x]
  <2>1. dist' = [dist EXCEPT ![t].archives = {a \in @ : a.name # None} \cup {new}]
    BY <1>1, <1>3, <1>5 DEF Archive
  <2>2. command' = [command EXCEPT ![p] = x]
    BY <1>1, <1>2 DEF Archive, Onwards
  <2>3. dist' = [dist EXCEPT ![t].archives = archives]
    BY <1>6, <2>1
  <2>4. QED
    BY <1>3, <1>7, <2>2, <2>3, ReplaceOutput
<1>9. output.image = dist[t].image /\ output.archives = archives /\ output.variants = dist[t].variants
  BY <1>7
<1>10. /\ new.name = None /\ new.main = library[t] /\ new.by = c.number
       /\ new.calm = c.calm /\ new.alone = c.alone
  BY <1>5
<1>11. IsOutput(output)
  <2>1. IsArchive(new)
    BY <1>3, <1>5, <1>10 DEF IsArchive, IsCommand
  <2>2. QED
    BY <1>3, <1>6, <1>7, <1>9, <2>1, OutputsTyped DEF IsOutput
<1>12. ImageOK(output.image, t) /\ ArchivesOK(output.archives, t)
  BY <1>3, <1>6, <1>9, <1>10, OutputsTyped DEF ArchivesOK
<1>13. OutputIsLatest(output, t)
  <2>1. c.mode # "check"
    BY <1>3 DEF IsCommand
  <2>2. ~overlap => swept[t] = c.number
    BY <1>1, <1>3, <2>1, OwnIsLatest
  <2>3. QED
    BY <1>3, <1>6, <1>9, <1>10, <2>2, OutputsTyped DEF OutputIsLatest
<1>14. Fine(c, t) => new.main = Built(b.hash)
  BY <1>1, <1>3, <1>10 DEF CommandOK, TurnOK, Fine
<1>15. OutputForOthers(p, t, output)
  <2>1. ASSUME NEW q \in Process \ {p}, command[q] # Idle, Now(q) = t, command[q].step = "rename",
               (new.alone /\ command[q].alone) \/ Alike(t)
        PROVE  new.main = Built(Current(q).hash)
    <3>1. IsCommand(command[q]) /\ FirstVersion(command[q])
      BY <2>1 DEF BuildInv, Typed
    <3>2. Alike(t)
      <4>1. Alone(p, q)
        BY DEF BuildInv, InterfaceInv
      <4>2. QED
        BY <1>1, <1>3, <1>10, <2>1, <4>1 DEF Alone, Turn
    <3>3. Current(q).hash = b.hash
      BY <1>1, <1>3, <2>1, <3>1, <3>2, AlikeChoices DEF Now, Current, Turn
    <3>4. QED
      BY <1>14, <3>2, <3>3 DEF Fine
  <2>2. QED
    BY <1>6, <1>9, <2>1 DEF OutputForOthers
<1>16. x # Idle => IsCommand(x) /\ FirstVersion(x) /\ Continues(x, c) /\ Stays(x, c) /\ CommandOK(x)'
  <2>1. CASE ~c.several
    <3>1. x = InterfaceDone(c)
      BY <1>2, <2>1
    <3>2. QED
      BY <1>3, <1>4, <3>1, TurnEnds
  <2>2. CASE c.several
    <3>1. "rename" \in Turn /\ c.mode = "y" /\ x = Onwards(c, "rename")
      BY <1>2, <1>3, <2>2 DEF Turn, IsCommand
    <3>2. /\ IsCommand(x) /\ FirstVersion(x) /\ Continues(x, c) /\ x.step = "rename"
          /\ x.targets = c.targets /\ x.todo = c.todo /\ x.variants = c.variants
          /\ x.flags = c.flags /\ x.calm = c.calm /\ x.alone = c.alone /\ x.solo = c.solo
      BY <1>3, <3>1, BuildGoesOn
    <3>3. VariantsOK(x.variants, Head(x.targets))'
      BY <1>3, <1>4, <3>2 DEF CommandOK, VariantsOK, Alike
    <3>4. /\ c.calm => packages'[b.root] = b.version
          /\ c.calm /\ c.alone => link'[t] = b.root
          /\ Fine(c, t) => library'[t] = Built(b.hash)
      BY <1>1, <1>3, <1>4 DEF CommandOK, TurnOK, Turn, Fine
    <3>5. dist'[t].archives = archives
      <4>1. dist'[t] = output
        BY <1>3, <1>8 DEF BuildInv, Typed, StoreTyped
      <4>2. QED
        BY <1>9, <4>1
    <3>6. (c.calm /\ c.alone) \/ Alike(t)' => Fine(c, t)
      BY <1>4 DEF Fine, Alike
    <3>7. \A a \in archives : a.name = None /\ a.calm /\ ((a.alone /\ c.alone) \/ Alike(t)') => a.main = Built(b.hash)
      BY <1>6, <1>10, <1>14, <3>6
    <3>8. TurnOK(x)'
      BY <1>1, <3>2, <3>4, <3>5, <3>6, <3>7 DEF TurnOK, Built
    <3>9. Stays(x, c)
      BY <1>3, <3>2 DEF Stays, Turn
    <3>10. QED
      BY <3>2, <3>3, <3>8, <3>9 DEF CommandOK
  <2>3. QED
    BY <2>1, <2>2
<1>17. QED
  BY <1>1, <1>3, <1>4, <1>8, <1>11, <1>12, <1>13, <1>15, <1>16, SameCount, OutputStep

LEMMA RenameArchiveKeeps ==
    ASSUME BuildInv, NEW p \in Process, RenameArchive(p)
    PROVE  BuildInv'
<1>1. PICK c, t, b : c = command[p] /\ t = Head(c.targets) /\ b = First(c.todo)
  OBVIOUS
<1>2. PICK x, plain : x = InterfaceDone(c) /\ plain = {a \in dist[t].archives : a.name = None}
  OBVIOUS
<1>3. /\ c # Idle /\ IsCommand(c) /\ FirstVersion(c) /\ CommandOK(c) /\ c.step = "rename"
      /\ t = Now(p) /\ b = Current(p) /\ c.step \in Turn /\ t \in Targets
  BY <1>1, Working DEF RenameArchive, Turn, Current
<1>4. UNCHANGED <<packages, link, binary, library, swept, overlap, count>>
  BY DEF RenameArchive, projectVars, cargoVars
<1>5. CASE plain = {}
  BY <1>1, <1>2, <1>3, <1>4, <1>5, FailStep DEF RenameArchive
<1>6. CASE plain # {}
  <2>1. PICK archives : archives = AfterRename(dist[t].archives, b.hash, c.alone)
    OBVIOUS
  <2>2. PICK output : output = [image |-> dist[t].image, archives |-> archives, variants |-> dist[t].variants]
    OBVIOUS
  <2>3. dist' = [dist EXCEPT ![t] = output] /\ command' = [command EXCEPT ![p] = x]
    <3>1. dist' = [dist EXCEPT ![t].archives = AfterRename(@, b.hash, c.alone)]
      BY <1>1, <1>2, <1>3, <1>6 DEF RenameArchive
    <3>2. command' = [command EXCEPT ![p] = x]
      BY <1>1, <1>2, <1>3, <1>6 DEF RenameArchive
    <3>3. dist' = [dist EXCEPT ![t].archives = archives]
      BY <2>1, <3>1
    <3>4. QED
      BY <1>3, <2>2, <3>2, <3>3, ReplaceOutput
  <2>4. output.image = dist[t].image /\ output.archives = archives /\ output.variants = dist[t].variants
    BY <2>2
  <2>5. b.hash # None
    <3>1. b.root \in Root /\ b.version \in Nat /\ b.hash = <<Profile[b.root], b.version>>
      BY <1>1, <1>3, Chosen DEF IsChoice
    <3>2. QED
      BY <3>1, BuildAssumption
  <2>6. ASSUME NEW a \in plain, NEW r, r = Renamed(a, b.hash, c.alone)
        PROVE  /\ r.name = b.hash /\ r.main = a.main /\ r.by = a.by /\ r.calm = a.calm
               /\ r.alone = (a.alone /\ c.alone) /\ IsArchive(r)
    <3>1. IsArchive(a) /\ c.alone \in BOOLEAN /\ c.solo \in BOOLEAN
      BY <1>2, <1>3, <2>6, OutputsTyped DEF IsCommand
    <3>2. r = [name |-> b.hash, main |-> a.main, api |-> a.api, by |-> a.by, calm |-> a.calm,
               alone |-> a.alone /\ c.alone, solo |-> a.solo]
      BY <2>6, <3>1 DEF IsArchive, Renamed
    <3>3. /\ r.name = b.hash /\ r.main = a.main /\ r.api = a.api /\ r.by = a.by /\ r.calm = a.calm
          /\ r.alone = (a.alone /\ c.alone) /\ r.solo = a.solo
      BY <3>2
    <3>4. r = [name |-> r.name, main |-> r.main, api |-> r.api, by |-> r.by, calm |-> r.calm, alone |-> r.alone,
               solo |-> r.solo]
      BY <3>2, <3>3
    <3>5. a.calm \in BOOLEAN /\ a.alone \in BOOLEAN /\ a.solo \in BOOLEAN
      BY <3>1 DEF IsArchive
    <3>7. r.calm \in BOOLEAN /\ r.alone \in BOOLEAN /\ r.solo \in BOOLEAN
      BY <3>1, <3>3, <3>5
    <3>6. QED
      BY <3>3, <3>4, <3>7 DEF IsArchive
  <2>7. ASSUME NEW r \in archives
        PROVE  \/ r \in dist[t].archives /\ r.name \notin {None, b.hash}
               \/ \E a \in plain : /\ r.name = b.hash /\ r.main = a.main /\ r.by = a.by /\ r.calm = a.calm
                                   /\ r.alone = (a.alone /\ c.alone) /\ IsArchive(r)
    <3>1. CASE r \in dist[t].archives /\ r.name \notin {None, b.hash}
      BY <3>1
    <3>2. CASE \E a \in plain : r = Renamed(a, b.hash, c.alone)
      <4>1. PICK a \in plain : r = Renamed(a, b.hash, c.alone)
        BY <3>2
      <4>2. QED
        BY <2>6, <4>1
    <3>3. QED
      BY <1>2, <2>1, <2>7, <3>1, <3>2 DEF AfterRename
  <2>8. IsOutput(output)
    <3>1. \A r \in archives : IsArchive(r)
      BY <1>3, <2>7, OutputsTyped
    <3>2. QED
      BY <2>2, <2>4, <3>1 DEF IsOutput
  <2>9. ArchivesOK(output.archives, t)
    <3>1. \A a \in plain : a.calm /\ ((a.alone /\ c.alone) \/ Alike(t)) =>
              a.main.flags = b.hash /\ a.main.seen = b.hash
      BY <1>1, <1>2, <1>3 DEF CommandOK, TurnOK, Built
    <3>2. ArchivesOK(dist[t].archives, t)
      BY <1>3, OutputsTyped
    <3>3. ASSUME NEW r \in archives, r.calm /\ (r.alone \/ Alike(t)) /\ r.name # None
          PROVE  r.main.flags = r.name /\ r.main.seen = r.name
      <4>1. CASE r \in dist[t].archives
        BY <3>2, <3>3, <4>1 DEF ArchivesOK
      <4>2. CASE \E a \in plain : /\ r.name = b.hash /\ r.main = a.main /\ r.by = a.by /\ r.calm = a.calm
                                  /\ r.alone = (a.alone /\ c.alone)
        BY <3>1, <3>3, <4>2
      <4>3. QED
        BY <2>7, <4>1, <4>2
    <3>4. QED
      BY <2>4, <3>3 DEF ArchivesOK
  <2>10. ImageOK(output.image, t) /\ OutputIsLatest(output, t)
    BY <1>2, <1>3, <2>4, <2>7, OutputsTyped DEF OutputIsLatest
  <2>11. OutputForOthers(p, t, output)
    BY <2>4, <2>5, <2>7 DEF OutputForOthers
  <2>12. x # Idle => IsCommand(x) /\ FirstVersion(x) /\ Continues(x, c) /\ Stays(x, c) /\ CommandOK(x)'
    BY <1>2, <1>3, <1>4, TurnEnds
  <2>13. QED
    BY <1>1, <1>3, <1>4, <2>3, <2>8, <2>9, <2>10, <2>11, <2>12, SameCount, OutputStep
<1>7. QED
  BY <1>5, <1>6

\* A command that is killed leaves what there is, or an image that is torn.
LEMMA StopKeeps ==
    ASSUME BuildInv, NEW p \in Process, Stop(p)
    PROVE  BuildInv'
<1>1. command[p] # Idle
  BY DEF Stop, At, Idle
<1>2. PICK t : t = Now(p)
  OBVIOUS
<1>3. t \in Targets
  BY <1>1, <1>2, TargetsTyped DEF BuildInv, Typed, Now
<1>4. UNCHANGED <<packages, link, binary, library, swept, overlap>> /\ command' = [command EXCEPT ![p] = Idle]
  BY DEF Stop, projectVars, cargoVars, Fail
<1>5. count' = [commands |-> count'.commands, targets |-> count'.targets, exports |-> count.exports,
                events |-> count'.events]
  <2>1. PICK k, e : k = count /\ e = count.events + 1
    OBVIOUS
  <2>2. k = [commands |-> k.commands, targets |-> k.targets, exports |-> k.exports, events |-> k.events]
    BY <2>1 DEF BuildInv, Typed, StoreTyped
  <2>3. count' = [k EXCEPT !.events = e]
    BY <2>1 DEF Stop
  <2>4. count' = [commands |-> k.commands, targets |-> k.targets, exports |-> k.exports, events |-> e]
    BY <2>2, <2>3
  <2>5. QED
    BY <2>1, <2>4
<1>6. PICK old, torn : old = dist[t] /\ torn = [image |-> Torn, archives |-> old.archives, variants |-> old.variants]
  OBVIOUS
<1>7. /\ IsOutput(old) /\ ImageOK(old.image, t) /\ ArchivesOK(old.archives, t) /\ OutputIsLatest(old, t)
  BY <1>3, <1>6, OutputsTyped DEF IsOutput
<1>8. OutputForOthers(p, t, old)
  BY <1>6 DEF OutputForOthers
<1>9. torn.image = Torn /\ torn.archives = old.archives /\ torn.variants = old.variants
  BY <1>6
<1>10. /\ IsOutput(torn) /\ ImageOK(torn.image, t) /\ ArchivesOK(torn.archives, t) /\ OutputIsLatest(torn, t)
       /\ OutputForOthers(p, t, torn)
  BY <1>6, <1>7, <1>8, <1>9 DEF IsOutput, ImageOK, OutputIsLatest, OutputForOthers
<1>11. CASE dist' = dist
  <2>1. dist' = [dist EXCEPT ![t] = old]
    BY <1>3, <1>6, <1>11 DEF BuildInv, Typed, StoreTyped
  <2>2. QED
    BY <1>1, <1>3, <1>4, <1>5, <1>7, <1>8, <2>1, OutputStep
<1>12. CASE dist' = [dist EXCEPT ![Now(p)].image = Torn]
  <2>1. dist' = [dist EXCEPT ![t] = torn]
    BY <1>2, <1>3, <1>6, <1>12, ReplaceOutput
  <2>2. QED
    BY <1>1, <1>3, <1>4, <1>5, <1>10, <2>1, OutputStep
<1>13. QED
  BY <1>11, <1>12 DEF Stop

-----------------------------------------------------------------------------
(* The sweep: the one step that makes dist the build's own.                  *)

LEMMA NothingIs ==
    /\ Nothing.image = None /\ Nothing.variants = {} /\ Nothing.archives = {}
    /\ Nothing = [image |-> Nothing.image, variants |-> Nothing.variants, archives |-> Nothing.archives]
BY DEF Nothing

\* The same build, with one target less to empty.
LEMMA SweptGoesOn ==
    ASSUME NEW c, IsCommand(c), c.step = "sweep", c.sweep # <<>>, NEW x, x = Swept(c), x # Idle
    PROVE  /\ IsCommand(x) /\ x.step \in {"sweep", "sync"} /\ x.mode = c.mode /\ x.number = c.number
           /\ x.targets = c.targets /\ x.sweep = Tail(c.sweep) /\ x.variants = c.variants
<1>1. c.sweep \in Seq(Targets) /\ Tail(c.sweep) \in Seq(Targets)
  BY DEF IsCommand
<1>2. CASE Tail(c.sweep) # <<>>
  <2>1. PICK rest : rest = Tail(c.sweep)
    OBVIOUS
  <2>2. x = [c EXCEPT !.sweep = rest]
    BY <1>2, <2>1 DEF Swept
  <2>3. x = [step |-> c.step, mode |-> c.mode, number |-> c.number, targets |-> c.targets,
             sweep |-> rest, todo |-> c.todo, several |-> c.several, flags |-> c.flags,
             variants |-> c.variants, calm |-> c.calm, alone |-> c.alone, solo |-> c.solo]
    BY <2>2 DEF IsCommand
  <2>4. /\ x.step = c.step /\ x.mode = c.mode /\ x.number = c.number /\ x.targets = c.targets
        /\ x.sweep = rest /\ x.todo = c.todo /\ x.several = c.several /\ x.flags = c.flags
        /\ x.variants = c.variants /\ x.calm = c.calm /\ x.alone = c.alone /\ x.solo = c.solo
    BY <2>3
  <2>5. x = [step |-> x.step, mode |-> x.mode, number |-> x.number, targets |-> x.targets,
             sweep |-> x.sweep, todo |-> x.todo, several |-> x.several, flags |-> x.flags,
             variants |-> x.variants, calm |-> x.calm, alone |-> x.alone, solo |-> x.solo]
    BY <2>3, <2>4
  <2> HIDE <2>2, <2>3
  <2>6. IsCommand(x)
    BY <1>1, <2>1, <2>4, <2>5 DEF IsCommand, Turn
  <2>7. QED
    BY <2>1, <2>4, <2>6
<1>3. CASE Tail(c.sweep) = <<>> /\ c.mode # "n"
  <2>1. x = [c EXCEPT !.sweep = <<>>, !.step = "sync"]
    BY <1>3 DEF Swept
  <2>3. x = [step |-> "sync", mode |-> c.mode, number |-> c.number, targets |-> c.targets,
             sweep |-> <<>>, todo |-> c.todo, several |-> c.several, flags |-> c.flags,
             variants |-> c.variants, calm |-> c.calm, alone |-> c.alone, solo |-> c.solo]
    BY <2>1 DEF IsCommand
  <2>4. /\ x.step = "sync" /\ x.mode = c.mode /\ x.number = c.number /\ x.targets = c.targets
        /\ x.sweep = <<>> /\ x.todo = c.todo /\ x.several = c.several /\ x.flags = c.flags
        /\ x.variants = c.variants /\ x.calm = c.calm /\ x.alone = c.alone /\ x.solo = c.solo
    BY <2>3
  <2>5. x = [step |-> x.step, mode |-> x.mode, number |-> x.number, targets |-> x.targets,
             sweep |-> x.sweep, todo |-> x.todo, several |-> x.several, flags |-> x.flags,
             variants |-> x.variants, calm |-> x.calm, alone |-> x.alone, solo |-> x.solo]
    BY <2>3, <2>4
  <2> HIDE <2>1, <2>3
  <2>6. IsCommand(x)
    BY <1>1, <1>3, <2>4, <2>5 DEF IsCommand, Turn
  <2>7. QED
    BY <1>3, <2>4, <2>6
<1>4. QED
  BY <1>2, <1>3 DEF Swept

LEMMA SweepKeeps ==
    ASSUME BuildInv, NEW p \in Process, Sweep(p)
    PROVE  BuildInv'
<1>1. PICK c, t, x : c = command[p] /\ t = Head(c.sweep) /\ x = Swept(c)
  OBVIOUS
<1>2. /\ c # Idle /\ IsCommand(c) /\ FirstVersion(c) /\ CommandOK(c) /\ c.step = "sweep" /\ c.sweep # <<>>
  BY <1>1, Working DEF Sweep
<1>3. t \in Targets
  BY <1>1, <1>2 DEF IsCommand
<1>4. /\ UNCHANGED <<packages, link, binary, library, overlap, count>>
      /\ command' = [command EXCEPT ![p] = x]
      /\ dist' = [dist EXCEPT ![t] = Nothing] /\ swept' = [swept EXCEPT ![t] = c.number]
  BY <1>1, <1>2 DEF Sweep, projectVars, cargoVars
<1>5. /\ command' = [q \in Process |-> command'[q]] /\ command'[p] = x
      /\ \A q \in Process \ {p} : Other(command'[q], command[q]) /\ command'[q] = command[q]
  BY <1>4, OwnOthers DEF BuildInv
<1>6. /\ \A u \in Targets : dist'[u] = IF u = t THEN Nothing ELSE dist[u]
      /\ \A u \in Targets : swept'[u] = IF u = t THEN c.number ELSE swept[u]
      /\ dist' = [u \in Targets |-> dist'[u]] /\ swept' = [u \in Targets |-> swept'[u]]
  BY <1>4 DEF BuildInv, Typed, StoreTyped
<1>7. x # Idle => /\ IsCommand(x) /\ x.step \in {"sweep", "sync"} /\ x.mode = c.mode /\ x.number = c.number
                  /\ x.targets = c.targets /\ x.sweep = Tail(c.sweep) /\ x.variants = c.variants
  BY <1>1, <1>2, SweptGoesOn
<1>8. \A u : Alike(u)' <=> Alike(u)
  BY <1>4 DEF Alike
<1>9. Typed'
  <2>1. \A u \in Targets : IsOutput(dist'[u])
    BY <1>6, NothingIs, OutputsTyped DEF IsOutput
  <2>2. StoreTyped'
    BY <1>4, <1>6, <2>1 DEF BuildInv, Typed, StoreTyped
  <2>3. x # Idle => FirstVersion(x)'
    BY <1>7 DEF FirstVersion, Turn
  <2>4. QED
    BY <1>4, <1>5, <1>7, <2>2, <2>3, TypedStep DEF BuildInv
<1>10. InterfaceInv'
  <2>1. ASSUME NEW q \in Process \ {p}, command[q] # Idle
        PROVE  TurnOK(command[q])'
    <3>1. PICK d, u, b : d = command[q] /\ u = Head(d.targets) /\ b = First(d.todo)
      OBVIOUS
    <3>2. IsCommand(d) /\ Weaker(d, d) /\ TurnOK(d) /\ command'[q] = d
      BY <1>5, <2>1, <3>1 DEF BuildInv, Typed, Other, InterfaceInv
    <3>3. u \in Targets
      BY <3>1, <3>2, TargetsTyped
    <3>4. /\ \A v \in dist'[u].variants : v \in dist[u].variants
          /\ \A a \in dist'[u].archives : a \in dist[u].archives
      BY <1>6, <3>3, NothingIs
    <3>5. TurnOK(d)'
      BY <1>4, <3>1, <3>2, <3>4, OtherTurnOK
    <3>6. QED
      BY <3>2, <3>5
  <2>2. command'[p] # Idle => TurnOK(command[p])' /\ VariantsOK(command[p].variants, Now(p))'
    <3>1. x # Idle => TurnOK(x)'
      BY <1>7 DEF TurnOK, Turn
    <3>2. x # Idle => VariantsOK(x.variants, Head(x.targets))'
      BY <1>2, <1>7, <1>8 DEF CommandOK, VariantsOK
    <3>3. QED
      BY <1>5, <3>1, <3>2 DEF Now
  <2>3. JoinsAlone(p)
    BY <1>5, <1>7 DEF JoinsAlone, Turn
  <2>4. ASSUME NEW u \in Targets, dist'[u].image \notin {None, Torn}
        PROVE  VariantsOK(dist[u].image.variants, u)'
    <3>1. dist'[u] = dist[u] /\ ImageOK(dist[u].image, u)
      BY <1>6, <2>4, NothingIs, OutputsTyped
    <3>2. QED
      BY <1>8, <2>4, <3>1 DEF ImageOK, VariantsOK
  <2>5. ArchiveAsNamed'
    <3>1. \A u \in Targets : \A a \in dist'[u].archives : a \in dist[u].archives
      BY <1>6, NothingIs
    <3>2. QED
      BY <1>8, <3>1 DEF BuildInv, InterfaceInv, ArchiveAsNamed
  <2>6. QED
    BY <1>4, <1>5, <2>1, <2>2, <2>3, <2>4, <2>5, InterfaceStep DEF BuildInv
<1>11. LatestInv'
  <2>1. DistIsLatest'
    <3>1. ASSUME NEW u \in Targets, ~overlap
          PROVE  /\ dist'[u].image \notin {None, Torn} => dist'[u].image.by = swept'[u]
                 /\ \A a \in dist'[u].archives : a.by = swept'[u]
      <4>1. CASE u = t
        BY <1>6, <4>1, NothingIs
      <4>2. CASE u # t
        BY <1>6, <3>1, <4>2, OutputsTyped DEF OutputIsLatest
      <4>3. QED
        BY <4>1, <4>2
    <3>2. QED
      BY <1>4, <3>1 DEF DistIsLatest
  <2>2. Building(p)
    BY <1>1, <1>2 DEF Building, IsCommand
  <2>3. ASSUME ~overlap, NEW q \in Process, Building(q)'
        PROVE  q = p /\ SweptBy(command[q])'
    <3>1. q = p
      <4>1. CASE q # p
        BY <1>5, <2>2, <2>3, <4>1 DEF BuildInv, LatestInv, Building
      <4>2. QED
        BY <4>1
    <3>2. x # Idle /\ command'[q] = x
      BY <1>5, <2>3, <3>1 DEF Building
    <3>3. SweptBy(c)
      BY <1>1, <2>2, <2>3 DEF BuildInv, LatestInv
    <3>4. ASSUME NEW i \in DOMAIN c.targets
          PROVE  (\E j \in DOMAIN Tail(c.sweep) : Tail(c.sweep)[j] = c.targets[i]) \/ swept'[c.targets[i]] = c.number
      <4>1. c.targets[i] \in Targets /\ c.sweep \in Seq(Targets)
        BY <1>2, <3>4 DEF IsCommand
      <4>2. CASE c.targets[i] = t
        BY <1>6, <4>1, <4>2
      <4>3. CASE swept[c.targets[i]] = c.number
        BY <1>6, <4>1, <4>3
      <4>4. CASE c.targets[i] # t /\ \E j \in DOMAIN c.sweep : c.sweep[j] = c.targets[i]
        <5>1. PICK j \in DOMAIN c.sweep : c.sweep[j] = c.targets[i]
          BY <4>4
        <5>2. j # 1 /\ j - 1 \in DOMAIN Tail(c.sweep) /\ Tail(c.sweep)[j - 1] = c.sweep[j]
          BY <1>1, <1>2, <4>1, <4>4, <5>1
        <5>3. QED
          BY <5>1, <5>2
      <4>5. QED
        BY <3>3, <3>4, <4>2, <4>3, <4>4 DEF SweptBy
    <3>5. SweptBy(x)'
      BY <1>7, <3>2, <3>4 DEF SweptBy
    <3>6. QED
      BY <3>1, <3>2, <3>5
  <2>4. QED
    BY <1>4, <2>1, <2>3 DEF LatestInv
<1>12. QED
  BY <1>9, <1>10, <1>11 DEF BuildInv

-----------------------------------------------------------------------------
(* A command begins; the kernel exports a package again.                     *)

LEMMA JoinOthers ==
    ASSUME Typed, NEW p \in Process, NEW x, Join(p, x)
    PROVE  /\ command' = [q \in Process |-> command'[q]] /\ command'[p] = x
           /\ \A q \in Process \ {p} : Other(command'[q], command[q])
<1>1. /\ command' = [q \in Process |-> command'[q]] /\ command'[p] = x
      /\ \A q \in Process \ {p} : command'[q] = IF command[q] = Idle THEN Idle
             ELSE [command[q] EXCEPT !.solo = FALSE]
  BY DEF Join
<1>2. ASSUME NEW q \in Process \ {p}, command[q] # Idle
      PROVE  Weaker(command'[q], command[q])
  <2>1. PICK c, d : c = command[q] /\ d = command'[q]
    OBVIOUS
  <2>2. IsCommand(c) /\ d = [c EXCEPT !.solo = FALSE]
    BY <1>1, <1>2, <2>1 DEF Typed
  <2>3. d = [step |-> c.step, mode |-> c.mode, number |-> c.number, targets |-> c.targets,
             sweep |-> c.sweep, todo |-> c.todo, several |-> c.several, flags |-> c.flags,
             variants |-> c.variants, calm |-> c.calm, alone |-> c.alone, solo |-> FALSE]
    BY <2>2 DEF IsCommand
  <2>4. d.calm = c.calm /\ d.alone = c.alone /\ d.solo = FALSE /\ c.calm \in BOOLEAN /\ c.alone \in BOOLEAN
    BY <2>2, <2>3 DEF IsCommand
  <2>5. Weaker(d, c)
    BY <2>3, <2>4 DEF Weaker
  <2>6. QED
    BY <2>1, <2>5
<1>3. QED
  BY <1>1, <1>2 DEF Other

LEMMA BeginStep ==
    ASSUME BuildInv, NEW p \in Process, At(p, "idle"), NEW x, Join(p, x),
           UNCHANGED <<packages, link, binary, library, dist, swept>>,
           count' = [commands |-> count'.commands, targets |-> count'.targets, exports |-> count.exports,
                     events |-> count'.events],
           overlap' \in {overlap, TRUE},
           x.mode # "check" => overlap' = (overlap \/ \E q \in Process : ~At(q, "idle") /\ command[q].mode # "check"),
           IsCommand(x), x.step \in {"sweep", "sync"}, x.variants = <<>>, x.mode # "check" => x.sweep = x.targets
    PROVE  BuildInv'
<1>1. ASSUME NEW q \in Process, command[q] # Idle
      PROVE  IsCommand(command[q]) /\ ~At(q, "idle")
  BY <1>1 DEF BuildInv, Typed, At, IsCommand, Turn
<1>2. command[p] = Idle
  BY <1>1
<1>3. /\ command' = [q \in Process |-> command'[q]] /\ command'[p] = x
      /\ \A q \in Process \ {p} : Other(command'[q], command[q])
  BY JoinOthers DEF BuildInv
<1>4. count'.exports = count.exports /\ (\A u : Alike(u)' <=> Alike(u))
  BY DEF Alike
<1>5. Typed'
  <2>1. StoreTyped'
    <3>1. count' = [commands |-> count'.commands, targets |-> count'.targets, exports |-> count'.exports,
                    events |-> count'.events]
      BY <1>4
    <3>2. QED
      BY <1>4, <3>1 DEF BuildInv, Typed, StoreTyped
  <2>2. FirstVersion(x)'
    BY DEF FirstVersion, Turn
  <2>3. QED
    BY <1>3, <1>4, <2>1, <2>2, TypedStep DEF BuildInv
<1>6. InterfaceInv'
  <2>1. \A q \in Process \ {p} : command[q] # Idle => TurnOK(command[q])'
    BY <1>3, <1>4, OthersUndisturbed DEF BuildInv
  <2>2. TurnOK(x)' /\ VariantsOK(x.variants, Head(x.targets))'
    BY DEF TurnOK, Turn, VariantsOK
  <2>3. TurnOK(command[p])' /\ VariantsOK(command[p].variants, Now(p))'
    BY <1>3, <2>2 DEF Now
  <2>4. JoinsAlone(p)
    BY <1>3 DEF JoinsAlone, Turn
  <2>5. /\ \A t \in Targets : dist'[t].image \notin {None, Torn} => VariantsOK(dist[t].image.variants, t)'
        /\ ArchiveAsNamed'
    BY <1>4 DEF BuildInv, InterfaceInv, ArchiveAsNamed, VariantsOK
  <2>6. QED
    BY <1>3, <1>4, <2>1, <2>3, <2>4, <2>5, InterfaceStep DEF BuildInv
<1>7. LatestInv'
  <2>1. DistIsLatest'
    BY DEF BuildInv, LatestInv, DistIsLatest
  <2>2. SUFFICES ASSUME ~overlap'
                 PROVE  \A q \in Process : Building(q)' =>
                            SweptBy(command[q])' /\ \A o \in Process : Building(o)' => o = q
    BY <2>1 DEF LatestInv
  <2>3. ~overlap
    BY <2>2
  <2>4. SweptBy(x)' \/ x.mode = "check"
    <3>1. x.mode # "check" => \A i \in DOMAIN x.targets : x.sweep[i] = x.targets[i] /\ i \in DOMAIN x.sweep
      OBVIOUS
    <3>2. QED
      BY <3>1 DEF SweptBy
  <2>5. ASSUME NEW q \in Process \ {p}, Building(q)'
        PROVE  /\ Building(q) /\ command'[q].targets = command[q].targets
               /\ command'[q].sweep = command[q].sweep /\ command'[q].number = command[q].number
    <3>1. command[q] # Idle /\ Weaker(command'[q], command[q])
      BY <1>3, <2>5 DEF Other, Building
    <3>2. QED
      BY <2>5, <3>1 DEF Building, Weaker
  <2>6. Building(p)' => x.mode # "check"
    BY <1>3 DEF Building
  <2>7. x.mode # "check" => \A q \in Process \ {p} : ~Building(q)
    BY <1>1, <2>2 DEF Building
  <2>8. \A q \in Process \ {p} : Building(q)' => SweptBy(command[q])'
    <3>1. ASSUME NEW q \in Process \ {p}, Building(q)'
          PROVE  SweptBy(command[q])
      BY <2>3, <2>5, <3>1 DEF BuildInv, LatestInv
    <3>2. QED
      BY <2>5, <3>1 DEF SweptBy
  <2>9. \A q, o \in Process \ {p} : Building(q)' /\ Building(o)' => o = q
    BY <2>3, <2>5 DEF BuildInv, LatestInv
  <2>10. QED
    BY <1>3, <2>4, <2>5, <2>6, <2>7, <2>8, <2>9
<1>8. QED
  BY <1>5, <1>6, <1>7 DEF BuildInv

LEMMA BeginCounts ==
    ASSUME BuildInv, NEW chosen, Begin(chosen)
    PROVE  count' = [commands |-> count'.commands, targets |-> count'.targets, exports |-> count.exports,
                     events |-> count'.events]
<1>1. PICK k, m, n, e : k = count /\ m = count.commands + 1 /\ n = count.targets + Len(chosen)
                        /\ e = count.events + IF \E q \in Process : ~At(q, "idle") THEN 1 ELSE 0
  OBVIOUS
<1>2. k = [commands |-> k.commands, targets |-> k.targets, exports |-> k.exports, events |-> k.events]
  BY <1>1 DEF BuildInv, Typed, StoreTyped
<1>3. count' = [k EXCEPT !.commands = m, !.targets = n, !.events = e]
  BY <1>1 DEF Begin
<1>4. count' = [commands |-> m, targets |-> n, exports |-> k.exports, events |-> e]
  BY <1>2, <1>3
<1>5. QED
  BY <1>1, <1>4

\* What a command is when it begins.
LEMMA Beginning ==
    ASSUME NEW step, NEW mode, NEW chosen \in Selection, NEW sweep, NEW x, x = Started(step, mode, chosen, sweep),
           \/ step = "sweep" /\ mode \in {"n", "m", "y"} /\ sweep = chosen
           \/ step = "sync" /\ mode = "check" /\ sweep = <<>>
    PROVE  /\ IsCommand(x) /\ x.step = step /\ x.mode = mode /\ x.variants = <<>>
           /\ x.targets = chosen /\ x.sweep = sweep
<1>1. /\ x.step = step /\ x.mode = mode /\ x.targets = chosen
      /\ x.sweep = sweep /\ x.todo = {} /\ x.several = FALSE /\ x.flags = None
      /\ x.variants = <<>> /\ x.calm = TRUE /\ x.alone = TRUE /\ x.solo \in BOOLEAN
      /\ x = [step |-> x.step, mode |-> x.mode, number |-> x.number, targets |-> x.targets,
              sweep |-> x.sweep, todo |-> x.todo, several |-> x.several, flags |-> x.flags,
              variants |-> x.variants, calm |-> x.calm, alone |-> x.alone, solo |-> x.solo]
  BY DEF Started
<1>2. Selection \subseteq Seq(Targets) \ {<<>>}
  BY BuildAssumption
<1>3. chosen \in Seq(Targets) \ {<<>>} /\ <<>> \in Seq(Targets)
  BY <1>2
<1>4. sweep \in Seq(Targets)
  BY <1>3
<1>5. x.variants = <<>>
  BY <1>1
<1>6. x.variants \in Seq({x.variants[i] : i \in DOMAIN x.variants})
  BY <1>5
<1>7. IsCommand(x)
  BY <1>1, <1>3, <1>4, <1>6 DEF IsCommand, Turn
<1>8. QED
  BY <1>1, <1>7

LEMMA BeginBuildKeeps ==
    ASSUME BuildInv, NEW p \in Process, BeginBuild(p)
    PROVE  BuildInv'
<1>1. PICK mode \in {"n", "m", "y"}, chosen \in Selection :
          Begin(chosen) /\ Join(p, Started("sweep", mode, chosen, chosen))
  BY DEF BeginBuild
<1>2. PICK x : x = Started("sweep", mode, chosen, chosen)
  OBVIOUS
<1>3. /\ IsCommand(x) /\ x.step = "sweep" /\ x.mode = mode /\ x.variants = <<>>
      /\ x.targets = chosen /\ x.sweep = chosen
  BY <1>2, Beginning
<1>4. Join(p, x)
  BY <1>1, <1>2
<1>5. /\ UNCHANGED <<packages, link, binary, library, dist, swept>> /\ At(p, "idle")
      /\ overlap' = (overlap \/ \E q \in Process : ~At(q, "idle") /\ command[q].mode # "check")
  BY DEF BeginBuild, projectVars, cargoVars, outputVars
<1>6. count' = [commands |-> count'.commands, targets |-> count'.targets, exports |-> count.exports,
                events |-> count'.events]
  BY <1>1, BeginCounts
<1>7. overlap' \in {overlap, TRUE}
  <2>1. overlap \in BOOLEAN
    BY DEF BuildInv, Typed, StoreTyped
  <2>2. QED
    BY <1>5, <2>1
<1>8. QED
  BY <1>3, <1>4, <1>5, <1>6, <1>7, BeginStep

LEMMA BeginCheckKeeps ==
    ASSUME BuildInv, NEW p \in Process, BeginCheck(p)
    PROVE  BuildInv'
<1>1. PICK chosen \in Selection :
          Begin(chosen) /\ Join(p, Started("sync", "check", chosen, <<>>))
  BY DEF BeginCheck
<1>2. PICK x : x = Started("sync", "check", chosen, <<>>)
  OBVIOUS
<1>3. IsCommand(x) /\ x.step = "sync" /\ x.mode = "check" /\ x.variants = <<>>
  BY <1>2, Beginning
<1>4. Join(p, x)
  BY <1>1, <1>2
<1>5. UNCHANGED <<packages, link, binary, library, dist, swept, overlap>> /\ At(p, "idle")
  BY DEF BeginCheck, projectVars, cargoVars, outputVars
<1>6. count' = [commands |-> count'.commands, targets |-> count'.targets, exports |-> count.exports,
                events |-> count'.events]
  BY <1>1, BeginCounts
<1>7. QED
  BY <1>3, <1>4, <1>5, <1>6, BeginStep

\* Every command that is under way is disturbed.
LEMMA PackagesStep ==
    ASSUME BuildInv, packages' \in [Root -> Nat],
           Disturb,
           UNCHANGED <<link, binary, library, dist, swept, overlap>>,
           count' = [commands |-> count'.commands, targets |-> count'.targets, exports |-> count'.exports,
                     events |-> count'.events],
           count'.exports \in Nat, count'.exports # 0
    PROVE  BuildInv'
<1>1. \A u : ~Alike(u)'
  BY DEF Alike
<1>2. ASSUME NEW p \in Process, command[p] = Idle
      PROVE  command'[p] = Idle
  BY <1>2 DEF Disturb
<1>3. ASSUME NEW p \in Process, command[p] # Idle
      PROVE  /\ IsCommand(command[p]) /\ TurnOK(command[p]) /\ VariantsOK(command[p].variants, Now(p))
             /\ Weaker(command'[p], command[p]) /\ command'[p].calm = FALSE
             /\ command'[p].alone = command[p].alone /\ command'[p] # Idle
  <2>1. PICK c, d : c = command[p] /\ d = command'[p]
    OBVIOUS
  <2>2. IsCommand(c) /\ TurnOK(c) /\ VariantsOK(c.variants, Now(p)) /\ d = [c EXCEPT !.calm = FALSE, !.solo = FALSE]
    BY <1>3, <2>1 DEF BuildInv, Typed, InterfaceInv, Disturb
  <2>3. d = [step |-> c.step, mode |-> c.mode, number |-> c.number, targets |-> c.targets,
             sweep |-> c.sweep, todo |-> c.todo, several |-> c.several, flags |-> c.flags,
             variants |-> c.variants, calm |-> FALSE, alone |-> c.alone, solo |-> FALSE]
    BY <2>2 DEF IsCommand
  <2>4. d.calm = FALSE /\ d.solo = FALSE /\ d.alone = c.alone /\ c.alone \in BOOLEAN
    BY <2>2, <2>3 DEF IsCommand
  <2>5. Weaker(d, c)
    BY <2>3, <2>4 DEF Weaker
  <2>6. d # Idle
    BY <2>2, <2>5, WeakerIsCommand, CommandNotIdle
  <2>7. QED
    BY <2>1, <2>2, <2>4, <2>5, <2>6
<1>4. Typed'
  <2>1. StoreTyped'
    BY DEF BuildInv, Typed, StoreTyped
  <2>3. command' = [p \in Process |-> command'[p]]
    BY DEF Disturb
  <2>2. \A p \in Process : command'[p] # Idle => IsCommand(command'[p]) /\ FirstVersion(command[p])'
    BY <1>2, <1>3, WeakerIsCommand DEF FirstVersion
  <2>4. QED
    BY <2>1, <2>2, <2>3 DEF Typed
<1>5. ASSUME NEW p \in Process, command'[p] # Idle
      PROVE  /\ command[p] # Idle /\ command'[p].step = command[p].step /\ command'[p].mode = command[p].mode
             /\ command'[p].number = command[p].number /\ command'[p].targets = command[p].targets
             /\ command'[p].sweep = command[p].sweep /\ command'[p].variants = command[p].variants
             /\ command'[p].alone = command[p].alone /\ TurnOK(command[p])'
  <2>1. PICK c, d : c = command[p] /\ d = command'[p]
    OBVIOUS
  <2>2. c # Idle /\ IsCommand(c) /\ TurnOK(c) /\ Weaker(d, c) /\ d.calm = FALSE /\ d.alone = c.alone
    BY <1>2, <1>3, <1>5, <2>1
  <2>3. PICK t, b : t = Head(c.targets) /\ b = First(c.todo)
    OBVIOUS
  <2>4. ~Fine(d, t)'
    BY <1>1, <2>2 DEF Fine
  <2>5. d.step = c.step /\ d.targets = c.targets /\ d.todo = c.todo /\ (d.alone => c.alone) /\ (d.solo => c.solo)
    BY <2>2 DEF Weaker
  <2>6. TurnOK(d)'
    BY <1>1, <2>2, <2>5 DEF TurnOK
  <2>7. QED
    BY <2>1, <2>2, <2>6 DEF Weaker
<1>6. LatestInv'
  <2>1. DistIsLatest'
    BY DEF BuildInv, LatestInv, DistIsLatest
  <2>2. \A p \in Process : Building(p)' => Building(p) /\ (SweptBy(command[p]) => SweptBy(command[p])')
    BY <1>5 DEF Building, SweptBy
  <2>3. QED
    BY <2>1, <2>2 DEF BuildInv, LatestInv
<1>7. InterfaceInv'
  <2>1. \A p \in Process : command'[p] # Idle => TurnOK(command[p])' /\ VariantsOK(command[p].variants, Now(p))'
    <3>1. ASSUME NEW p \in Process, command'[p] # Idle
          PROVE  VariantsOK(command[p].variants, Now(p))'
      <4>1. PICK vs, t : vs = command[p].variants /\ t = Now(p)
        OBVIOUS
      <4>2. vs = command'[p].variants /\ t = Now(p)' /\ VariantsOK(vs, t)
        BY <1>3, <1>5, <3>1, <4>1 DEF Now
      <4>3. VariantsOK(vs, t)'
        BY <1>1, <4>2 DEF VariantsOK
      <4>4. QED
        BY <4>2, <4>3
    <3>2. QED
      BY <1>5, <3>1
  <2>2. \A p, q \in Process : Alone(p, q)'
    BY <1>5 DEF BuildInv, InterfaceInv, Alone, Now
  <2>3. \A t \in Targets : dist'[t].image \notin {None, Torn} => VariantsOK(dist[t].image.variants, t)'
    BY <1>1 DEF BuildInv, InterfaceInv, VariantsOK
  <2>4. ArchiveAsNamed'
    BY <1>1 DEF BuildInv, InterfaceInv, ArchiveAsNamed
  <2>5. QED
    BY <2>1, <2>2, <2>3, <2>4 DEF InterfaceInv
<1>8. QED
  BY <1>4, <1>6, <1>7 DEF BuildInv

LEMMA RemovePackageKeeps ==
    ASSUME BuildInv, NEW r \in Root, RemovePackage(r)
    PROVE  BuildInv'
<1>1. PICK k, m, e : k = count /\ m = count.exports + 1 /\ e = count.events + 1
  OBVIOUS
<1>2. /\ k = [commands |-> k.commands, targets |-> k.targets, exports |-> k.exports, events |-> k.events]
      /\ k.exports \in Nat
  BY <1>1 DEF BuildInv, Typed, StoreTyped
<1>3. count' = [k EXCEPT !.exports = m, !.events = e]
  BY <1>1 DEF RemovePackage
<1>4. count' = [commands |-> k.commands, targets |-> k.targets, exports |-> m, events |-> e]
  BY <1>2, <1>3
<1>5. count'.exports = m /\ m \in Nat /\ m # 0
  BY <1>1, <1>2, <1>4
<1>6. count' = [commands |-> count'.commands, targets |-> count'.targets, exports |-> count'.exports,
                events |-> count'.events]
  BY <1>4
<1>7. packages' \in [Root -> Nat]
  BY DEF RemovePackage, BuildInv, Typed, StoreTyped
<1>8. UNCHANGED <<link, binary, library, dist, swept, overlap>>
  BY DEF RemovePackage, projectVars, cargoVars, outputVars
<1>9. Disturb
  BY DEF RemovePackage
<1>10. QED
  BY <1>5, <1>6, <1>7, <1>8, <1>9, PackagesStep

LEMMA InstallPackageKeeps ==
    ASSUME BuildInv, NEW r \in Root, InstallPackage(r)
    PROVE  BuildInv'
<1>1. /\ count = [commands |-> count.commands, targets |-> count.targets, exports |-> count.exports,
                  events |-> count.events]
      /\ count.exports \in Nat /\ count.exports # 0 /\ count' = count
  BY DEF InstallPackage, BuildInv, Typed, StoreTyped
<1>2. packages' \in [Root -> Nat]
  BY <1>1 DEF InstallPackage, BuildInv, Typed, StoreTyped
<1>3. UNCHANGED <<link, binary, library, dist, swept, overlap>>
  BY DEF InstallPackage, projectVars, cargoVars, outputVars
<1>4. Disturb
  BY DEF InstallPackage
<1>5. QED
  BY <1>1, <1>2, <1>3, <1>4, PackagesStep

-----------------------------------------------------------------------------
(* The theorems.                                                             *)

\* BuildInv is inductive.
THEOREM BuildInductive == Spec => []BuildInv
<1>1. Init => BuildInv
  <2> SUFFICES ASSUME Init
               PROVE  BuildInv
    OBVIOUS
  <2>1. \A p \in Process : command[p] = Idle
    BY DEF Init
  <2>2. \A t \in Targets : dist[t] = Nothing
    BY DEF Init
  <2>3. StoreTyped
    <3>1. \A t \in Targets : IsOutput(dist[t])
      BY <2>2, NothingIs DEF IsOutput
    <3>2. QED
      BY <3>1 DEF Init, StoreTyped
  <2>4. Typed
    BY <2>1, <2>3 DEF Init, Typed
  <2>5. LatestInv
    BY <2>1, <2>2, NothingIs DEF Init, LatestInv, DistIsLatest, Building
  <2>6. InterfaceInv
    BY <2>1, <2>2, NothingIs DEF InterfaceInv, ArchiveAsNamed, Alone
  <2>7. QED
    BY <2>4, <2>5, <2>6 DEF BuildInv
<1>2. BuildInv /\ [Next]_vars => BuildInv'
  <2> SUFFICES ASSUME BuildInv, [Next]_vars
               PROVE  BuildInv'
    OBVIOUS
  <2>1. ASSUME NEW r \in Root, RemovePackage(r) \/ InstallPackage(r)
        PROVE  BuildInv'
    BY <2>1, RemovePackageKeeps, InstallPackageKeeps
  <2>2. ASSUME NEW p \in Process, BeginBuild(p) \/ BeginCheck(p) \/ Stop(p)
        PROVE  BuildInv'
    BY <2>2, BeginBuildKeeps, BeginCheckKeeps, StopKeeps
  <2>3. ASSUME NEW p \in Process, Step(p)
        PROVE  BuildInv'
    BY <2>3, SweepKeeps, SyncKeeps, NextTargetKeeps, UnlinkKeeps, LinkKeeps, SnapshotKeeps, PrepareKeeps,
       LoadKeeps, CargoKeeps, PackKeeps, TakeKeeps, WriteKeeps, ArchiveKeeps, RenameArchiveKeeps DEF Step
  <2>4. CASE UNCHANGED vars
    <3>1. Typed'
      BY <2>4 DEF vars, BuildInv, Typed, StoreTyped, FirstVersion
    <3>2. LatestInv'
      BY <2>4 DEF vars, BuildInv, LatestInv, DistIsLatest, Building, SweptBy
    <3>3. /\ \A t : Alike(t)' <=> Alike(t)
          /\ \A c : TurnOK(c) => TurnOK(c)'
      BY <2>4 DEF vars, TurnOK, Alike, Hash
    <3>4. /\ \A p \in Process : command'[p] # Idle =>
                 TurnOK(command[p])' /\ VariantsOK(command[p].variants, Now(p))'
          /\ \A p, q \in Process : Alone(p, q)'
      BY <2>4, <3>3 DEF vars, BuildInv, InterfaceInv, VariantsOK, Alone, Now
    <3>5. /\ \A t \in Targets : dist'[t].image \notin {None, Torn} => VariantsOK(dist[t].image.variants, t)'
          /\ ArchiveAsNamed'
      BY <2>4, <3>3 DEF vars, BuildInv, InterfaceInv, VariantsOK, ArchiveAsNamed
    <3>6. QED
      BY <3>1, <3>2, <3>4, <3>5 DEF BuildInv, InterfaceInv
  <2>5. QED
    BY <2>1, <2>2, <2>3, <2>4 DEF Next
<1>3. QED
  BY <1>1, <1>2, PTL DEF Spec

\* Each image of a module file was compiled with the flags and the metadata of the
\* interface it is recorded and stamped for (cmd_build, activate_kernel_interface,
\* pack_elf_project), whatever else ran or was killed before.
THEOREM ImageAsRecordedHolds == Spec => []ImageAsRecorded
<1>1. BuildInv => ImageAsRecorded
  <2> SUFFICES ASSUME BuildInv, NEW t \in Targets, dist[t].image \notin {None, Torn},
                      NEW i \in DOMAIN dist[t].image.variants,
                      dist[t].image.variants[i].calm,
                      dist[t].image.variants[i].alone \/ Alike(t)
               PROVE  {dist[t].image.variants[i].content.flags, dist[t].image.variants[i].content.seen,
                       dist[t].image.variants[i].content.stamp} = {dist[t].image.variants[i].record}
    BY DEF ImageAsRecorded
  <2>1. dist[t].image.variants[i].content = Stamped(dist[t].image.variants[i].record)
    BY DEF BuildInv, InterfaceInv, VariantsOK
  <2>2. QED
    BY <2>1 DEF Stamped
<1>2. QED
  BY <1>1, BuildInductive, PTL

\* An archive is the one of the interface in its name (build_integrated_profiles).
THEOREM ArchiveAsNamedHolds == Spec => []ArchiveAsNamed
<1>1. BuildInv => ArchiveAsNamed
  BY DEF BuildInv, InterfaceInv
<1>2. QED
  BY <1>1, BuildInductive, PTL

\* What is in dist was made by the last build that selected the target
\* (remove_selected_build_artifacts), if there was never more than one at once.
THEOREM DistIsLatestHolds == Spec => []DistIsLatest
<1>1. BuildInv => DistIsLatest
  BY DEF BuildInv, LatestInv
<1>2. QED
  BY <1>1, BuildInductive, PTL

-----------------------------------------------------------------------------
(* The API crate of an archive: an induction of its own on top of BuildInv.  *)

OwnInv == BuildInv /\ OwnApiInv

\* What the command of a process must see to, when it makes a step.
LEMMA OwnStep ==
    ASSUME OwnInv, NEW p \in Process, command[p] # Idle,
           \A q \in Process \ {p} : Other(command'[q], command[q]),
           newest' = [t \in Targets |-> newest'[t]], fresh' = [t \in Targets |-> fresh'[t]],
           ArchiveOwnApi',
           command'[p] # Idle => /\ OwnCommand(command[p])'
                                 /\ command'[p].solo => command[p].solo
    PROVE  OwnApiInv'
<1>1. ASSUME NEW q \in Process \ {p}, command'[q] # Idle
      PROVE  OwnCommand(command[q])' /\ ~command'[q].solo
  <2>1. command[q] # Idle /\ Weaker(command'[q], command[q])
    BY <1>1 DEF Other
  <2>2. OwnCommand(command[q]) /\ ~command[q].solo
    BY <2>1 DEF OwnInv, OwnApiInv
  <2>3. PICK c, d : c = command[q] /\ d = command'[q]
    OBVIOUS
  <2>4. d.step = c.step /\ d.targets = c.targets /\ d.todo = c.todo /\ ~d.solo
    BY <2>1, <2>2, <2>3 DEF Weaker
  <2>5. OwnCommand(d)'
    BY <2>2, <2>3, <2>4 DEF OwnCommand
  <2>6. QED
    BY <2>3, <2>4, <2>5
<1>2. command'[p] # Idle /\ command'[p].solo => \A q \in Process \ {p} : command'[q] = Idle
  BY DEF OwnInv, OwnApiInv, Other
<1>3. QED
  BY <1>1, <1>2 DEF OwnApiInv

\* The same, where the archives and what Cargo has made are left alone.
LEMMA OwnQuiet ==
    ASSUME OwnInv, NEW p \in Process, command[p] # Idle, NEW x,
           \/ command' = [command EXCEPT ![p] = x]
           \/ \E T : command' = Touch(p, T, [command EXCEPT ![p] = x]),
           UNCHANGED <<newest, fresh>>, \A t \in Targets : dist'[t].archives = dist[t].archives,
           x # Idle => OwnCommand(x) /\ (x.solo => command[p].solo)
    PROVE  OwnApiInv'
<1>1. Typed
  BY DEF OwnInv, BuildInv
<1>2. command'[p] = x /\ \A q \in Process \ {p} : Other(command'[q], command[q])
  <2>1. CASE command' = [command EXCEPT ![p] = x]
    BY <1>1, <2>1, OwnOthers
  <2>2. ASSUME NEW T, command' = Touch(p, T, [command EXCEPT ![p] = x])
        PROVE  command'[p] = x /\ \A q \in Process \ {p} : Other(command'[q], command[q])
    BY <1>1, <2>2, TouchOthers
  <2>3. QED
    BY <2>1, <2>2
<1>3. ArchiveOwnApi'
  BY DEF OwnInv, OwnApiInv, ArchiveOwnApi
<1>4. x # Idle => OwnCommand(x)'
  BY DEF OwnCommand, OwnApiTurn
<1>5. QED
  BY <1>2, <1>3, <1>4, OwnStep DEF OwnInv, OwnApiInv

\* What the invariant says of the command of a process.
LEMMA OwnWorking ==
    ASSUME OwnInv, NEW p \in Process, NEW step \in {"sweep", "sync", "target", "write"} \cup Turn, At(p, step)
    PROVE  /\ command[p] # Idle /\ IsCommand(command[p]) /\ TurnOK(command[p]) /\ command[p].step = step
           /\ OwnCommand(command[p]) /\ Now(p) = Head(command[p].targets) /\ Now(p) \in Targets
BY Working DEF OwnInv, OwnApiInv, CommandOK

\* A step within a turn, before or after Cargo.
SameTurn(x, c) ==
    /\ x.targets = c.targets /\ x.todo = c.todo /\ x.mode = c.mode /\ x.solo = c.solo
    /\ c.calm => x.calm
    /\ c.alone => x.alone

LEMMA TurnGoesOn ==
    ASSUME NEW c, OwnCommand(c), NEW x, SameTurn(x, c),
           \/ {c.step, x.step} \subseteq {"unlink", "link", "snapshot", "prepare", "load"}
           \/ {c.step, x.step} \subseteq {"pack", "take", "archive", "rename"} /\ x.step # "archive"
    PROVE  OwnCommand(x)
<1>1. /\ c.step \in Turn /\ x.step # "cargo" /\ x.step # "target" /\ x.step # "archive"
      /\ Left(x) = Left(c)
  BY DEF SameTurn, Left, Turn
<1>2. OwnApiTurn(c) => OwnApiTurn(x)
  BY <1>1 DEF OwnApiTurn, SameTurn
<1>3. QED
  BY <1>1, <1>2 DEF OwnCommand, SameTurn

\* A command with another step, and nothing else.
LEMMA SteppedIs ==
    ASSUME NEW c, IsCommand(c), NEW step, NEW x, x = Onwards(c, step)
    PROVE  x.step = step /\ SameTurn(x, c) /\ x.flags = c.flags
<1>1. x = [step |-> step, mode |-> c.mode, number |-> c.number, targets |-> c.targets,
           sweep |-> c.sweep, todo |-> c.todo, several |-> c.several, flags |-> c.flags,
           variants |-> c.variants, calm |-> c.calm, alone |-> c.alone, solo |-> c.solo]
  BY DEF IsCommand, Onwards
<1>2. QED
  BY <1>1 DEF SameTurn

\* The end of a target.
LEMMA OwnTargetDone ==
    ASSUME NEW c, IsCommand(c), OwnCommand(c), c.step \in Turn \cup {"write"},
           NEW x, x = TargetDone(c), x # Idle
    PROVE  OwnCommand(x) /\ x.solo = c.solo
<1>1. /\ Tail(c.targets) # <<>>
      /\ x = [step |-> "target", mode |-> c.mode, number |-> c.number, targets |-> Tail(c.targets),
              sweep |-> c.sweep, todo |-> {}, several |-> c.several, flags |-> None,
              variants |-> <<>>, calm |-> c.calm, alone |-> c.alone, solo |-> c.solo]
  BY DEF TargetDone, IsCommand
<1>2. /\ x.step = "target" /\ x.mode = c.mode /\ x.targets = Tail(c.targets)
      /\ x.calm = c.calm /\ x.alone = c.alone /\ x.solo = c.solo
  BY <1>1
<1>3. /\ \A i \in DOMAIN x.targets : i + 1 \in DOMAIN c.targets /\ x.targets[i] = c.targets[i + 1]
      /\ 1 \in DOMAIN x.targets /\ Head(x.targets) = x.targets[1]
  <2>1. Tail(c.targets) \in Seq(Targets) \ {<<>>}
    BY <1>1, TargetsTyped
  <2>2. QED
    BY <1>2, <2>1, TargetsTyped
<1>4. \A i \in DOMAIN x.targets : i \in Nat \ {0} /\ i + 1 # 1
  BY <1>1, <1>2, TargetsTyped
<1>5. \A i, j \in DOMAIN x.targets : x.targets[i] = x.targets[j] => i = j
  <2>1. ASSUME NEW i \in DOMAIN x.targets, NEW j \in DOMAIN x.targets, x.targets[i] = x.targets[j]
        PROVE  i = j
    <3>1. i + 1 = j + 1
      BY <1>3, <2>1 DEF OwnCommand
    <3>2. QED
      BY <1>4, <3>1
  <2>2. QED
    BY <2>1
<1>6. OwnApiTurn(c) => OwnApiTurn(x)
  <2>1. x.step \notin Turn /\ x.step # "archive"
    BY <1>2 DEF Turn
  <2>2. OwnApiTurn(c) => \A i \in DOMAIN x.targets : fresh[x.targets[i]] = {}
    BY <1>3, <1>4 DEF OwnApiTurn
  <2>3. QED
    BY <1>2, <1>3, <2>1, <2>2 DEF OwnApiTurn
<1>7. QED
  BY <1>2, <1>5, <1>6 DEF OwnCommand, Turn

\* The end of a turn after Cargo.
LEMMA OwnInterfaceDone ==
    ASSUME NEW c, IsCommand(c), OwnCommand(c), c.step \in {"take", "archive", "rename"} \/ c.mode = "check",
           c.step \in Turn, NEW x, x = InterfaceDone(c), x # Idle
    PROVE  OwnCommand(x) /\ x.solo = c.solo
<1>1. CASE c.todo # {First(c.todo)}
  <2>1. PICK rest : rest = c.todo \ {First(c.todo)}
    OBVIOUS
  <2>2. x = [c EXCEPT !.step = "unlink", !.todo = rest, !.flags = None]
    BY <1>1, <2>1 DEF InterfaceDone
  <2>3. x = [step |-> "unlink", mode |-> c.mode, number |-> c.number, targets |-> c.targets,
             sweep |-> c.sweep, todo |-> rest, several |-> c.several, flags |-> None,
             variants |-> c.variants, calm |-> c.calm, alone |-> c.alone, solo |-> c.solo]
    BY <2>2 DEF IsCommand
  <2>4. /\ x.step = "unlink" /\ x.mode = c.mode /\ x.targets = c.targets /\ x.todo = rest
        /\ x.calm = c.calm /\ x.alone = c.alone /\ x.solo = c.solo
    BY <2>3
  <2>5. c.mode # "check" /\ OwnApiTurn(c) => OwnApiTurn(x)
    <3>1. Left(x) = rest /\ (c.mode # "check" => Left(c) = rest)
      BY <2>1, <2>4 DEF Left
    <3>2. QED
      BY <2>4, <3>1 DEF OwnApiTurn, Turn
  <2>6. QED
    BY <2>1, <2>4, <2>5 DEF OwnCommand
<1>2. CASE c.todo = {First(c.todo)} /\ c.mode = "m"
  <2>1. x = Onwards(c, "write")
    BY <1>2 DEF InterfaceDone, Onwards
  <2>2. x.step = "write" /\ SameTurn(x, c)
    BY <2>1, SteppedIs
  <2>3. OwnApiTurn(c) => OwnApiTurn(x)
    BY <2>2 DEF OwnApiTurn, SameTurn, Turn
  <2>4. QED
    BY <2>2, <2>3 DEF OwnCommand, SameTurn, Turn
<1>3. CASE c.todo = {First(c.todo)} /\ c.mode # "m"
  <2>1. x = TargetDone(c)
    BY <1>3 DEF InterfaceDone
  <2>2. QED
    BY <2>1, OwnTargetDone
<1>4. QED
  BY <1>1, <1>2, <1>3

\* The command fails.
LEMMA OwnFail ==
    ASSUME OwnInv, NEW p \in Process, command[p] # Idle, Fail(p),
           UNCHANGED <<newest, fresh>>, \A t \in Targets : dist'[t].archives = dist[t].archives
    PROVE  OwnApiInv'
BY OwnQuiet DEF Fail

\* The sweep and the steps of a turn that are not Cargo's, and leave the archives.
LEMMA OwnQuietSteps ==
    ASSUME OwnInv, NEW p \in Process, Sweep(p) \/ NextTarget(p)
    PROVE  OwnApiInv'
<1>1. CASE Sweep(p)
  <2>1. PICK c, x : c = command[p] /\ x = Swept(c)
    OBVIOUS
  <2>2. c # Idle /\ IsCommand(c) /\ c.step = "sweep" /\ OwnCommand(c)
    BY <1>1, <2>1, OwnWorking DEF Sweep
  <2>3. x # Idle => /\ x.step \in {"sweep", "sync"} /\ x.targets = c.targets
                    /\ x.calm = c.calm /\ x.alone = c.alone /\ x.solo = c.solo
    <3>1. c = [step |-> c.step, mode |-> c.mode, number |-> c.number, targets |-> c.targets,
               sweep |-> c.sweep, todo |-> c.todo, several |-> c.several, flags |-> c.flags,
               variants |-> c.variants, calm |-> c.calm, alone |-> c.alone, solo |-> c.solo]
      BY <2>2 DEF IsCommand
    <3>2. PICK rest : rest = Tail(c.sweep)
      OBVIOUS
    <3>3. x # Idle => x = [c EXCEPT !.sweep = rest] \/ x = [c EXCEPT !.sweep = <<>>, !.step = "sync"]
      BY <2>1, <3>2 DEF Swept
    <3>4. QED
      BY <2>2, <3>1, <3>3
  <2>4. x # Idle => OwnCommand(x) /\ x.solo = c.solo
    BY <2>2, <2>3 DEF OwnCommand, OwnApiTurn, Turn
  <2>5. command' = [command EXCEPT ![p] = x]
    BY <1>1, <2>1 DEF Sweep
  <2>6. UNCHANGED <<newest, fresh>>
    BY <1>1 DEF Sweep, cargoVars
  <2>7. command'[p] = x /\ \A q \in Process \ {p} : Other(command'[q], command[q])
    BY <2>5, OwnOthers DEF OwnInv, BuildInv
  <2>8. ArchiveOwnApi'
    <3>1. PICK t : dist' = [dist EXCEPT ![t] = Nothing]
      BY <1>1 DEF Sweep
    <3>2. \A u \in Targets : dist'[u] = Nothing \/ dist'[u] = dist[u]
      BY <3>1 DEF OwnInv, BuildInv, Typed, StoreTyped
    <3>3. QED
      BY <3>2, NothingIs DEF OwnInv, OwnApiInv, ArchiveOwnApi
  <2>9. x # Idle => OwnCommand(x)'
    BY <2>4, <2>6 DEF OwnCommand, OwnApiTurn
  <2>10. QED
    BY <2>1, <2>2, <2>4, <2>6, <2>7, <2>8, <2>9, OwnStep DEF OwnInv, OwnApiInv
<1>2. CASE NextTarget(p)
  <2>1. PICK c, t, all : c = command[p] /\ t = Now(p) /\ all = Interfaces(t)
    OBVIOUS
  <2>2. /\ c # Idle /\ IsCommand(c) /\ c.step = "target" /\ OwnCommand(c)
        /\ t = Head(c.targets) /\ t \in Targets
    BY <1>2, <2>1, OwnWorking DEF NextTarget
  <2>3. UNCHANGED <<newest, fresh, dist>>
    BY <1>2 DEF NextTarget, cargoVars, outputVars
  <2>4. CASE all = {}
    BY <1>2, <2>1, <2>2, <2>3, <2>4, OwnFail DEF NextTarget
  <2>5. CASE all # {}
    <3>1. PICK todo, several : /\ todo = IF c.mode = "m" THEN Distinct(all) ELSE all
                               /\ several = (Cardinality(all) > 1)
      OBVIOUS
    <3>2. PICK x : x = [c EXCEPT !.step = "unlink", !.todo = todo, !.several = several, !.variants = <<>>]
      OBVIOUS
    <3>3. command' = [command EXCEPT ![p] = x]
      BY <1>2, <2>1, <2>5, <3>1, <3>2 DEF NextTarget
    <3>4. x = [step |-> "unlink", mode |-> c.mode, number |-> c.number, targets |-> c.targets,
               sweep |-> c.sweep, todo |-> todo, several |-> several, flags |-> c.flags,
               variants |-> <<>>, calm |-> c.calm, alone |-> c.alone, solo |-> c.solo]
      BY <2>2, <3>2 DEF IsCommand
    <3>5. /\ x.step = "unlink" /\ x.mode = c.mode /\ x.targets = c.targets /\ x.todo = todo
          /\ x.calm = c.calm /\ x.alone = c.alone /\ x.solo = c.solo
      BY <3>4
    <3>6. \A b, other \in todo : b.root = other.root => b = other
      <4>1. \A b, other \in all : b.root = other.root => b = other
        BY <2>1, <2>2, BuildAssumption DEF Interfaces
      <4>2. todo \subseteq all
        BY <3>1 DEF Distinct
      <4>3. QED
        BY <4>1, <4>2
    <3>7. OwnApiTurn(c) => OwnApiTurn(x)
      BY <2>2, <3>5 DEF OwnApiTurn, Turn
    <3>8. OwnCommand(x)
      BY <2>2, <3>5, <3>6, <3>7 DEF OwnCommand
    <3>9. QED
      BY <2>1, <2>2, <2>3, <3>3, <3>5, <3>8, OwnQuiet
  <2>6. QED
    BY <2>4, <2>5
<1>3. QED
  BY <1>1, <1>2

LEMMA OwnActivation ==
    ASSUME OwnInv, NEW p \in Process, Unlink(p) \/ Link(p) \/ Snapshot(p) \/ Prepare(p) \/ Pack(p)
    PROVE  OwnApiInv'
<1>1. PICK c : c = command[p]
  OBVIOUS
<1>2. /\ c # Idle /\ IsCommand(c) /\ OwnCommand(c) /\ c.step \in {"unlink", "link", "snapshot", "prepare", "pack"}
  BY <1>1, OwnWorking DEF Unlink, Link, Snapshot, Prepare, Pack, Turn
<1>3. UNCHANGED <<newest, fresh>>
  BY DEF Unlink, Link, Snapshot, Prepare, Pack, cargoVars
<1>4. \A t \in Targets : dist'[t].archives = dist[t].archives
  <2>1. CASE Pack(p)
    <3>1. dist' = dist \/ \E t, vs : dist' = [dist EXCEPT ![t].variants = vs]
      BY <2>1 DEF Pack
    <3>2. ASSUME NEW t, NEW vs, dist' = [dist EXCEPT ![t].variants = vs]
          PROVE  \A u \in Targets : dist'[u].archives = dist[u].archives
      BY <3>2 DEF OwnInv, BuildInv, Typed, StoreTyped, IsOutput
    <3>3. QED
      BY <3>1, <3>2
  <2>2. CASE ~Pack(p)
    BY <2>2 DEF Unlink, Link, Snapshot, Prepare, outputVars
  <2>3. QED
    BY <2>1, <2>2
<1>5. CASE Fail(p)
  BY <1>1, <1>2, <1>3, <1>4, <1>5, OwnFail
<1>6. ASSUME NEW step, <<c.step, step>> \in {<<"link", "snapshot">>, <<"prepare", "load">>, <<"pack", "take">>},
             NEW T, command' = Touch(p, T, [command EXCEPT ![p] = Onwards(c, step)])
                    \/ command' = [command EXCEPT ![p] = Onwards(c, step)]
      PROVE  OwnApiInv'
  <2>1. PICK x : x = Onwards(c, step)
    OBVIOUS
  <2>2. x.step = step /\ SameTurn(x, c)
    BY <1>2, <2>1, SteppedIs
  <2>3. OwnCommand(x)
    BY <1>2, <1>6, <2>2, TurnGoesOn
  <2>4. x.solo = c.solo
    BY <2>2 DEF SameTurn
  <2>5. QED
    BY <1>1, <1>2, <1>3, <1>4, <1>6, <2>1, <2>3, <2>4, OwnQuiet
<1>7. CASE Unlink(p) /\ ~Fail(p)
  <2>1. PICK x : x = [c EXCEPT !.step = "link", !.alone = TRUE]
    OBVIOUS
  <2>2. x = [step |-> "link", mode |-> c.mode, number |-> c.number, targets |-> c.targets,
             sweep |-> c.sweep, todo |-> c.todo, several |-> c.several, flags |-> c.flags,
             variants |-> c.variants, calm |-> c.calm, alone |-> TRUE, solo |-> c.solo]
    BY <1>2, <2>1 DEF IsCommand
  <2>3. x.step = "link" /\ SameTurn(x, c) /\ c.step = "unlink"
    BY <1>1, <1>7, <2>2 DEF SameTurn, Unlink, At
  <2>4. OwnCommand(x) /\ x.solo = c.solo
    BY <1>2, <2>3, TurnGoesOn DEF SameTurn
  <2>5. command' = Touch(p, {Now(p)}, [command EXCEPT ![p] = x])
    BY <1>1, <1>7, <2>1 DEF Unlink
  <2>6. QED
    BY <1>1, <1>2, <1>3, <1>4, <2>4, <2>5, OwnQuiet
<1>8. CASE Link(p)
  <2>1. CASE packages[Current(p).root] = 0
    <3>1. command' = Touch(p, {Now(p)}, [command EXCEPT ![p] = Idle])
      BY <1>8, <2>1 DEF Link
    <3>2. PICK x : x = Idle
      OBVIOUS
    <3>3. QED
      BY <1>1, <1>2, <1>3, <1>4, <3>1, <3>2, OwnQuiet
  <2>2. CASE packages[Current(p).root] # 0
    <3>1. c.step = "link"
      BY <1>1, <1>8 DEF Link, At
    <3>2. command' = Touch(p, {Now(p)}, [command EXCEPT ![p] = Onwards(c, "snapshot")])
      BY <1>1, <1>8, <2>2 DEF Link, Onwards
    <3>3. QED
      BY <1>6, <3>1, <3>2
  <2>3. QED
    BY <2>1, <2>2
<1>9. CASE Snapshot(p) /\ ~Fail(p)
  <2>1. PICK x : x = [c EXCEPT !.step = "prepare", !.calm = TRUE]
    OBVIOUS
  <2>2. x = [step |-> "prepare", mode |-> c.mode, number |-> c.number, targets |-> c.targets,
             sweep |-> c.sweep, todo |-> c.todo, several |-> c.several, flags |-> c.flags,
             variants |-> c.variants, calm |-> TRUE, alone |-> c.alone, solo |-> c.solo]
    BY <1>2, <2>1 DEF IsCommand
  <2>3. x.step = "prepare" /\ SameTurn(x, c) /\ c.step = "snapshot"
    BY <1>1, <1>9, <2>2 DEF SameTurn, Snapshot, At
  <2>4. OwnCommand(x) /\ x.solo = c.solo
    BY <1>2, <2>3, TurnGoesOn DEF SameTurn
  <2>5. command' = [command EXCEPT ![p] = x]
    BY <1>1, <1>9, <2>1 DEF Snapshot
  <2>6. QED
    BY <1>1, <1>2, <1>3, <1>4, <2>4, <2>5, OwnQuiet
<1>10. CASE Prepare(p) /\ ~Fail(p)
  <2>1. c.step = "prepare"
    BY <1>1, <1>10 DEF Prepare, At
  <2>2. PICK T : T = {Now(p)}
    OBVIOUS
  <2>3. \/ command' = Touch(p, T, [command EXCEPT ![p] = Onwards(c, "load")])
        \/ command' = [command EXCEPT ![p] = Onwards(c, "load")]
    BY <1>1, <1>10, <2>2 DEF Prepare, Go, Onwards
  <2>4. QED
    BY <1>6, <2>1, <2>3
<1>11. CASE Pack(p) /\ ~Fail(p)
  <2>1. c.step = "pack"
    BY <1>1, <1>11 DEF Pack, At
  <2>2. PICK T : T = {Now(p)}
    OBVIOUS
  <2>3. \/ command' = Touch(p, T, [command EXCEPT ![p] = Onwards(c, "take")])
        \/ command' = [command EXCEPT ![p] = Onwards(c, "take")]
    BY <1>1, <1>11 DEF Pack, Go, Onwards
  <2>4. QED
    BY <1>6, <2>1, <2>3
<1>12. QED
  BY <1>5, <1>7, <1>8, <1>9, <1>10, <1>11

LEMMA OwnLoad ==
    ASSUME OwnInv, NEW p \in Process, Load(p)
    PROVE  OwnApiInv'
<1>1. PICK c, t : c = command[p] /\ t = Now(p)
  OBVIOUS
<1>2. /\ c # Idle /\ IsCommand(c) /\ TurnOK(c) /\ OwnCommand(c) /\ c.step = "load" /\ t = Head(c.targets)
  BY <1>1, OwnWorking DEF Load, Turn
<1>3. UNCHANGED <<newest, fresh, dist>>
  BY DEF Load, cargoVars, outputVars
<1>4. CASE Fail(p)
  BY <1>1, <1>2, <1>3, <1>4, OwnFail
<1>5. CASE ~Fail(p)
  <2>1. PICK f, x : f = [root |-> link[t], hash |-> Active(t)] /\ x = [c EXCEPT !.step = "cargo", !.flags = f]
    OBVIOUS
  <2>2. command' = [command EXCEPT ![p] = x]
    BY <1>1, <1>5, <2>1 DEF Load
  <2>3. x = [step |-> "cargo", mode |-> c.mode, number |-> c.number, targets |-> c.targets,
             sweep |-> c.sweep, todo |-> c.todo, several |-> c.several, flags |-> f,
             variants |-> c.variants, calm |-> c.calm, alone |-> c.alone, solo |-> c.solo]
    BY <1>2, <2>1 DEF IsCommand
  <2>4. x.step = "cargo" /\ SameTurn(x, c) /\ x.flags = f /\ f = [root |-> link[t], hash |-> f.hash]
    BY <2>1, <2>3 DEF SameTurn
  <2>5. c.solo => link[t] = First(c.todo).root
    BY <1>2 DEF OwnCommand, TurnOK, Turn
  <2>6. OwnApiTurn(c) => OwnApiTurn(x)
    BY <1>2, <2>4 DEF OwnApiTurn, SameTurn, Left, Turn
  <2>7. OwnCommand(x) /\ x.solo = c.solo
    BY <1>2, <2>4, <2>5, <2>6 DEF OwnCommand, SameTurn, Turn
  <2>8. QED
    BY <1>1, <1>2, <1>3, <2>2, <2>7, OwnQuiet
<1>6. QED
  BY <1>4, <1>5

LEMMA OwnSync ==
    ASSUME OwnInv, NEW p \in Process, Sync(p)
    PROVE  OwnApiInv'
<1>1. PICK c, x : c = command[p] /\ x = Onwards(c, "target")
  OBVIOUS
<1>2. c # Idle /\ IsCommand(c) /\ OwnCommand(c) /\ c.step = "sync"
  BY <1>1, OwnWorking DEF Sync
<1>3. x.step = "target" /\ SameTurn(x, c)
  BY <1>1, <1>2, SteppedIs
<1>4. UNCHANGED <<newest, dist>> /\ fresh' = IF ApiFollowsElm THEN [t \in Targets |-> {}] ELSE fresh
  BY DEF Sync, outputVars
<1>5. command'[p] = x /\ \A q \in Process \ {p} : Other(command'[q], command[q])
  <2>1. PICK T : T = Targets
    OBVIOUS
  <2>2. command' = Touch(p, T, [command EXCEPT ![p] = x])
    BY <1>1, <2>1 DEF Sync, Onwards
  <2>3. QED
    BY <2>2, TouchOthers DEF OwnInv, BuildInv
<1>6. newest' = [t \in Targets |-> newest'[t]] /\ fresh' = [t \in Targets |-> fresh'[t]]
  BY <1>4 DEF OwnInv, OwnApiInv
<1>7. ArchiveOwnApi'
  BY <1>4 DEF OwnInv, OwnApiInv, ArchiveOwnApi
<1>8. ApiFollowsElm => OwnApiTurn(x)'
  <2>1. Head(c.targets) \in Targets /\ c.targets \in Seq(Targets)
    BY <1>2, TargetsTyped DEF IsCommand
  <2>2. QED
    BY <1>3, <1>4, <2>1 DEF OwnApiTurn, SameTurn, Turn
<1>9. OwnCommand(x)' /\ x.solo = c.solo
  BY <1>2, <1>3, <1>8 DEF OwnCommand, SameTurn, Turn
<1>10. QED
  BY <1>1, <1>2, <1>5, <1>6, <1>7, <1>9, OwnStep

\* Cargo compiles the API crate for what the turn is about, or leaves it.
LEMMA Compiled ==
    ASSUME OwnInv, NEW p \in Process, CompileApi(p) \/ UNCHANGED <<newest, fresh>>, command[p] # Idle
    PROVE  newest' = [t \in Targets |-> newest'[t]] /\ fresh' = [t \in Targets |-> fresh'[t]]
BY DEF CompileApi, OwnInv, OwnApiInv

LEMMA OwnCargo ==
    ASSUME OwnInv, NEW p \in Process, Cargo(p)
    PROVE  OwnApiInv'
<1>1. PICK c, t, b, T : c = command[p] /\ t = Now(p) /\ b = First(c.todo)
                        /\ T = IF c.mode = "check" THEN {} ELSE {t}
  OBVIOUS
<1>2. /\ c # Idle /\ IsCommand(c) /\ TurnOK(c) /\ OwnCommand(c) /\ c.step = "cargo" /\ c.step \in Turn
      /\ t = Head(c.targets) /\ t \in Targets
  BY <1>1, OwnWorking DEF Cargo, Turn
<1>3. UNCHANGED dist /\ (CompileApi(p) \/ UNCHANGED <<newest, fresh>>)
  BY DEF Cargo, outputVars
<1>4. newest' = [u \in Targets |-> newest'[u]] /\ fresh' = [u \in Targets |-> fresh'[u]]
  BY <1>1, <1>2, <1>3, Compiled
<1>5. ArchiveOwnApi'
  BY <1>3 DEF OwnInv, OwnApiInv, ArchiveOwnApi
<1>6. CASE Fail(p)
  <2>1. PICK x : x = Idle
    OBVIOUS
  <2>2. command'[p] = x /\ \A q \in Process \ {p} : Other(command'[q], command[q])
    BY <1>6, <2>1, OwnOthers DEF Fail, OwnInv, BuildInv
  <2>3. QED
    BY <1>1, <1>2, <1>4, <1>5, <2>1, <2>2, OwnStep
<1>7. CASE ~Fail(p)
  <2>1. PICK x : x = CargoDone(c)
    OBVIOUS
  <2>2. command' = Touch(p, T, [command EXCEPT ![p] = x]) /\ CompileApi(p)
    BY <1>1, <1>7, <2>1 DEF Cargo
  <2>3. command'[p] = x /\ \A q \in Process \ {p} : Other(command'[q], command[q])
    BY <2>2, TouchOthers DEF OwnInv, BuildInv
  <2>4. CASE c.mode = "check"
    <3>1. x = InterfaceDone(c) /\ UNCHANGED <<newest, fresh>>
      BY <1>1, <2>1, <2>2, <2>4 DEF CargoDone, CompileApi
    <3>2. x # Idle => OwnCommand(x) /\ x.solo = c.solo
      BY <1>2, <2>4, <3>1, OwnInterfaceDone
    <3>3. x # Idle => OwnCommand(x)'
      BY <3>1, <3>2 DEF OwnCommand, OwnApiTurn
    <3>4. QED
      BY <1>1, <1>2, <1>4, <1>5, <2>3, <3>2, <3>3, OwnStep
  <2>5. CASE c.mode # "check"
    <3>1. PICK step : step = IF c.mode = "m" THEN "pack" ELSE "archive"
      OBVIOUS
    <3>2. c.mode \in {"m", "y"}
      BY <1>2, <2>5 DEF IsCommand
    <3>3. x = Onwards(c, step)
      BY <2>1, <3>1, <3>2 DEF CargoDone, Onwards
    <3>4. x.step = step /\ SameTurn(x, c) /\ x.flags = c.flags
      BY <1>2, <3>3, SteppedIs
    <3>5. ASSUME c.solo, ApiFollowsElm
          PROVE  OwnApiTurn(x)'
      <4>1. /\ c.flags.root = b.root /\ c.calm /\ c.alone /\ OwnApiTurn(c)
        BY <1>1, <1>2, <2>5, <3>5 DEF OwnCommand
      <4>2. PICK api : api = [mode |-> c.mode, flags |-> c.flags]
        OBVIOUS
      <4>3. \A k \in fresh[t] : \A other \in c.todo : k.flags.root # other.root
        BY <1>2, <4>1 DEF OwnApiTurn, Left
      <4>4. b \in c.todo
        BY <1>1, <1>2, Chosen
      <4>5. api \notin fresh[t]
        BY <4>1, <4>2, <4>3, <4>4
      <4>6. newest' = [newest EXCEPT ![t] = api] /\ fresh' = [fresh EXCEPT ![t] = fresh[t] \cup {api}]
        BY <1>1, <2>2, <2>5, <4>2, <4>5 DEF CompileApi
      <4>7. /\ newest'[t] = api /\ fresh'[t] = fresh[t] \cup {api}
            /\ \A u \in Targets \ {t} : fresh'[u] = fresh[u]
        BY <1>2, <4>6 DEF OwnInv, OwnApiInv
      <4>8. Left(x) = c.todo \ {b}
        BY <1>1, <3>1, <3>4 DEF Left, SameTurn
      <4>9. \A k \in fresh'[t] : \A other \in c.todo \ {b} : k.flags.root # other.root
        BY <1>2, <4>1, <4>2, <4>3, <4>4, <4>7 DEF OwnCommand
      <4>10. \A i \in DOMAIN c.targets : i # 1 => fresh'[c.targets[i]] = {}
        <5>1. ASSUME NEW i \in DOMAIN c.targets, i # 1
              PROVE  c.targets[i] \in Targets \ {t}
          <6>1. c.targets[i] \in Targets /\ 1 \in DOMAIN c.targets /\ t = c.targets[1]
            BY <1>2, <5>1, TargetsTyped DEF IsCommand
          <6>2. QED
            BY <1>2, <5>1, <6>1 DEF OwnCommand
        <5>2. QED
          BY <1>2, <4>1, <4>7, <5>1 DEF OwnApiTurn
      <4>11. step = "archive" => newest'[t] = [mode |-> "y", flags |-> [root |-> b.root, hash |-> b.hash]]
        <5>1. c.flags.hash = b.hash
          BY <1>1, <1>2, <4>1 DEF TurnOK
        <5>2. c.flags = [root |-> b.root, hash |-> c.flags.hash]
          BY <1>1, <1>2, <3>5 DEF OwnCommand
        <5>3. QED
          BY <3>1, <3>2, <4>1, <4>2, <4>7, <5>1, <5>2
      <4>12. step \in {"pack", "archive"}
        BY <3>1
      <4>13. QED
        BY <1>1, <1>2, <3>4, <4>8, <4>9, <4>10, <4>11, <4>12 DEF OwnApiTurn, SameTurn
    <3>6. OwnCommand(x)' /\ x.solo = c.solo
      BY <1>2, <3>1, <3>4, <3>5 DEF OwnCommand, SameTurn
    <3>7. QED
      BY <1>1, <1>2, <1>4, <1>5, <2>3, <3>6, OwnStep
  <2>6. QED
    BY <2>4, <2>5
<1>8. QED
  BY <1>6, <1>7

\* A target gets another output.
LEMMA OwnOutput ==
    ASSUME OwnInv, NEW t \in Targets, NEW archives, \A a \in archives : ApiFollowsElm /\ a.solo => OwnApi(a),
           \A u \in Targets \ {t} : dist'[u].archives = dist[u].archives, dist'[t].archives = archives
    PROVE  ArchiveOwnApi'
BY DEF OwnInv, OwnApiInv, ArchiveOwnApi, OwnApi

LEMMA OwnArchive ==
    ASSUME OwnInv, NEW p \in Process, Archive(p)
    PROVE  OwnApiInv'
<1>1. PICK c, t, b : c = command[p] /\ t = Now(p) /\ b = First(c.todo)
  OBVIOUS
<1>2. /\ c # Idle /\ IsCommand(c) /\ TurnOK(c) /\ OwnCommand(c) /\ c.step = "archive" /\ c.step \in Turn
      /\ t = Head(c.targets) /\ t \in Targets
  BY <1>1, OwnWorking DEF Archive, Turn
<1>3. UNCHANGED <<newest, fresh>>
  BY DEF Archive, cargoVars
<1>4. PICK x : x = IF c.several THEN Onwards(c, "rename") ELSE InterfaceDone(c)
  OBVIOUS
<1>5. command' = [command EXCEPT ![p] = x]
  BY <1>1, <1>4 DEF Archive, Onwards
<1>6. command'[p] = x /\ \A q \in Process \ {p} : Other(command'[q], command[q])
  BY <1>5, OwnOthers DEF OwnInv, BuildInv
<1>7. x # Idle => OwnCommand(x) /\ x.solo = c.solo
  <2>1. CASE c.several
    <3>1. x.step = "rename" /\ SameTurn(x, c)
      BY <1>2, <1>4, <2>1, SteppedIs
    <3>2. QED
      BY <1>2, <3>1, TurnGoesOn DEF SameTurn
  <2>2. CASE ~c.several
    BY <1>2, <1>4, <2>2, OwnInterfaceDone
  <2>3. QED
    BY <2>1, <2>2
<1>8. ArchiveOwnApi'
  <2>1. PICK new : new = [name |-> None, main |-> library[t], api |-> newest[t], by |-> c.number,
                          calm |-> c.calm, alone |-> c.alone, solo |-> c.solo]
    OBVIOUS
  <2>2. PICK archives : archives = {a \in dist[t].archives : a.name # None} \cup {new}
    OBVIOUS
  <2>3. dist' = [dist EXCEPT ![t].archives = archives]
    BY <1>1, <2>1, <2>2 DEF Archive
  <2>4. dist'[t].archives = archives /\ \A u \in Targets \ {t} : dist'[u].archives = dist[u].archives
    BY <1>2, <2>3 DEF OwnInv, BuildInv, Typed, StoreTyped, IsOutput
  <2>5. ApiFollowsElm /\ new.solo => OwnApi(new)
    <3>1. SUFFICES ASSUME ApiFollowsElm, c.solo
                   PROVE  OwnApi(new)
      BY <2>1
    <3>2. new.main = library[t] /\ new.api = newest[t]
      BY <2>1
    <3>3. newest[t] = [mode |-> "y", flags |-> [root |-> b.root, hash |-> b.hash]]
      <4>1. c.mode # "check"
        BY <1>2 DEF IsCommand
      <4>2. OwnApiTurn(c)
        BY <1>2, <3>1, <4>1 DEF OwnCommand
      <4>3. QED
        BY <1>1, <1>2, <4>2 DEF OwnApiTurn
    <3>4. library[t] = Built(b.hash)
      BY <1>1, <1>2, <3>1 DEF OwnCommand, TurnOK
    <3>5. b.root \in Root /\ b.hash \in {Profile[r] : r \in Root} \X Nat
      <4>1. IsChoice(b, t)
        BY <1>1, <1>2, Chosen
      <4>2. b.root \in Root /\ b.version \in Nat /\ b.hash = <<Profile[b.root], b.version>>
        BY <4>1 DEF IsChoice
      <4>3. QED
        BY <4>2
    <3>6. newest[t] # None
      BY <3>3, <3>5, BuildAssumption
    <3>7. newest[t].mode = "y" /\ newest[t].flags.hash = b.hash /\ library[t].flags = b.hash
      BY <3>3, <3>4 DEF Built
    <3>8. QED
      BY <3>2, <3>6, <3>7 DEF OwnApi
  <2>6. \A a \in archives : ApiFollowsElm /\ a.solo => OwnApi(a)
    BY <1>2, <2>2, <2>5 DEF OwnInv, OwnApiInv, ArchiveOwnApi
  <2>7. QED
    BY <1>2, <2>4, <2>6, OwnOutput
<1>9. x # Idle => OwnCommand(x)'
  BY <1>3, <1>7 DEF OwnCommand, OwnApiTurn
<1>10. QED
  BY <1>1, <1>2, <1>3, <1>6, <1>7, <1>8, <1>9, OwnStep DEF OwnInv, OwnApiInv

LEMMA OwnRename ==
    ASSUME OwnInv, NEW p \in Process, RenameArchive(p)
    PROVE  OwnApiInv'
<1>1. PICK c, t, b, x : c = command[p] /\ t = Now(p) /\ b = Current(p) /\ x = InterfaceDone(c)
  OBVIOUS
<1>2. /\ c # Idle /\ IsCommand(c) /\ OwnCommand(c) /\ c.step = "rename" /\ c.step \in Turn /\ t \in Targets
  BY <1>1, OwnWorking DEF RenameArchive, Turn
<1>3. UNCHANGED <<newest, fresh>>
  BY DEF RenameArchive, cargoVars
<1>4. CASE Fail(p) /\ UNCHANGED dist
  BY <1>1, <1>2, <1>3, <1>4, OwnFail
<1>5. CASE /\ command' = [command EXCEPT ![p] = x]
           /\ dist' = [dist EXCEPT ![t].archives = AfterRename(@, b.hash, c.alone)]
  <2>1. PICK archives : archives = AfterRename(dist[t].archives, b.hash, c.alone)
    OBVIOUS
  <2>2. dist'[t].archives = archives /\ \A u \in Targets \ {t} : dist'[u].archives = dist[u].archives
    BY <1>2, <1>5, <2>1 DEF OwnInv, BuildInv, Typed, StoreTyped, IsOutput
  <2>3. ASSUME NEW a \in dist[t].archives, NEW r, r = Renamed(a, b.hash, c.alone)
        PROVE  r.main = a.main /\ r.api = a.api /\ r.solo = a.solo
    <3>1. a = [name |-> a.name, main |-> a.main, api |-> a.api, by |-> a.by, calm |-> a.calm,
               alone |-> a.alone, solo |-> a.solo]
      BY <1>2, <2>3 DEF OwnInv, BuildInv, Typed, StoreTyped, IsOutput, IsArchive
    <3>2. PICK e : e = (a.alone /\ c.alone)
      OBVIOUS
    <3>3. r = [name |-> b.hash, main |-> a.main, api |-> a.api, by |-> a.by, calm |-> a.calm,
               alone |-> e, solo |-> a.solo]
      BY <2>3, <3>1, <3>2 DEF Renamed
    <3>4. QED
      BY <3>3
  <2>4. \A r \in archives : \E a \in dist[t].archives : r.main = a.main /\ r.api = a.api /\ r.solo = a.solo
    <3>1. ASSUME NEW r \in archives
          PROVE  \E a \in dist[t].archives : r.main = a.main /\ r.api = a.api /\ r.solo = a.solo
      <4>1. r \in dist[t].archives \/ \E a \in dist[t].archives : r = Renamed(a, b.hash, c.alone)
        BY <2>1, <3>1 DEF AfterRename
      <4>2. QED
        BY <2>3, <4>1
    <3>2. QED
      BY <3>1
  <2>5. \A r \in archives : ApiFollowsElm /\ r.solo => OwnApi(r)
    BY <1>2, <2>4 DEF OwnInv, OwnApiInv, ArchiveOwnApi, OwnApi
  <2>6. ArchiveOwnApi'
    BY <1>2, <2>2, <2>5, OwnOutput
  <2>7. command'[p] = x /\ \A q \in Process \ {p} : Other(command'[q], command[q])
    BY <1>5, OwnOthers DEF OwnInv, BuildInv
  <2>8. x # Idle => OwnCommand(x) /\ x.solo = c.solo
    BY <1>1, <1>2, OwnInterfaceDone
  <2>9. x # Idle => OwnCommand(x)'
    BY <1>3, <2>8 DEF OwnCommand, OwnApiTurn
  <2>10. QED
    BY <1>1, <1>2, <1>3, <2>6, <2>7, <2>8, <2>9, OwnStep DEF OwnInv, OwnApiInv
<1>6. QED
  BY <1>1, <1>4, <1>5 DEF RenameArchive

LEMMA OwnTake ==
    ASSUME OwnInv, NEW p \in Process, Take(p)
    PROVE  OwnApiInv'
<1>1. PICK c, t, b : c = command[p] /\ t = Now(p) /\ b = Current(p)
  OBVIOUS
<1>2. PICK left : left = {v \in dist[t].variants : v.hash = b.hash}
  OBVIOUS
<1>3. c # Idle /\ IsCommand(c) /\ OwnCommand(c) /\ c.step = "take" /\ c.step \in Turn /\ t \in Targets
  BY <1>1, OwnWorking DEF Take, Turn
<1>4. UNCHANGED <<newest, fresh>>
  BY DEF Take, cargoVars
<1>5. CASE left = {}
  BY <1>1, <1>2, <1>3, <1>4, <1>5, OwnFail DEF Take
<1>6. CASE left # {}
  <2>1. PICK vs, v : /\ vs = dist[t].variants \ left
                     /\ v \in left
                     /\ command' = [command EXCEPT ![p] = InterfaceDone([c EXCEPT !.variants =
                           Append(c.variants, [record |-> v.hash, content |-> v.content,
                                               calm |-> c.calm, alone |-> c.alone])])]
    BY <1>1, <1>2, <1>6 DEF Take
  <2>2. PICK variants, taken, x :
            /\ variants = Append(c.variants, [record |-> v.hash, content |-> v.content,
                                              calm |-> c.calm, alone |-> c.alone])
            /\ taken = [c EXCEPT !.variants = variants] /\ x = InterfaceDone(taken)
    OBVIOUS
  <2>3. dist' = [dist EXCEPT ![t].variants = vs]
    BY <1>1, <1>2, <1>6, <2>1 DEF Take
  <2>4. \A u \in Targets : dist'[u].archives = dist[u].archives
    BY <1>3, <2>3 DEF OwnInv, BuildInv, Typed, StoreTyped, IsOutput
  <2>5. command' = [command EXCEPT ![p] = x]
    BY <2>1, <2>2
  <2>6. taken = [step |-> "take", mode |-> c.mode, number |-> c.number, targets |-> c.targets,
                 sweep |-> c.sweep, todo |-> c.todo, several |-> c.several, flags |-> c.flags,
                 variants |-> variants, calm |-> c.calm, alone |-> c.alone, solo |-> c.solo]
    BY <1>3, <2>2 DEF IsCommand
  <2>7. taken.step = "take" /\ SameTurn(taken, c) /\ taken.variants = variants
    BY <2>6 DEF SameTurn
  <2>8. OwnCommand(taken)
    BY <1>3, <2>7, TurnGoesOn
  <2>9. IsCommand(taken)
    <3>1. Restepped(taken, c, "take") /\ taken.calm = c.calm /\ taken.alone = c.alone /\ taken.solo = c.solo
      BY <2>6 DEF Restepped
    <3>2. /\ c.calm \in BOOLEAN /\ c.alone \in BOOLEAN /\ c.solo \in BOOLEAN /\ c.mode = "m" /\ "take" \in Turn
      BY <1>3 DEF IsCommand, Turn
    <3>3. taken.variants \in Seq({taken.variants[i] : i \in DOMAIN taken.variants})
      <4>1. PICK entry : entry = [record |-> v.hash, content |-> v.content, calm |-> c.calm, alone |-> c.alone]
        OBVIOUS
      <4>2. PICK S : S = {c.variants[i] : i \in DOMAIN c.variants} \cup {entry}
        OBVIOUS
      <4>3. c.variants \in Seq(S) /\ entry \in S
        BY <1>3, <4>2 DEF IsCommand
      <4>4. variants = Append(c.variants, entry)
        BY <2>2, <4>1
      <4>5. variants \in Seq(S)
        BY <4>3, <4>4
      <4>6. variants \in Seq({variants[i] : i \in DOMAIN variants})
        BY <4>5
      <4>7. QED
        BY <2>7, <4>6
    <3>4. QED
      BY <1>3, <3>1, <3>2, <3>3, ResteppedOK
  <2>10. x # Idle => OwnCommand(x) /\ x.solo = c.solo
    <3>1. x = InterfaceDone(taken) /\ taken.step \in {"take", "archive", "rename"} /\ taken.step \in Turn
      BY <2>2, <2>7 DEF Turn
    <3>2. x # Idle => OwnCommand(x) /\ x.solo = taken.solo
      BY <2>8, <2>9, <3>1, OwnInterfaceDone
    <3>3. taken.solo = c.solo
      BY <2>7 DEF SameTurn
    <3>4. QED
      BY <3>2, <3>3
  <2>11. QED
    BY <1>1, <1>3, <1>4, <2>4, <2>5, <2>10, OwnQuiet
<1>7. QED
  BY <1>5, <1>6

LEMMA OwnWrite ==
    ASSUME OwnInv, NEW p \in Process, Write(p)
    PROVE  OwnApiInv'
<1>1. PICK c, t, x, i : /\ c = command[p] /\ t = Now(p) /\ x = TargetDone(c)
                        /\ i = [variants |-> c.variants, by |-> c.number]
  OBVIOUS
<1>2. c # Idle /\ IsCommand(c) /\ OwnCommand(c) /\ c.step = "write" /\ t \in Targets
  BY <1>1, OwnWorking DEF Write, Turn
<1>3. UNCHANGED <<newest, fresh>> /\ dist' = [dist EXCEPT ![t].image = i] /\ command' = [command EXCEPT ![p] = x]
  BY <1>1 DEF Write, cargoVars
<1>4. \A u \in Targets : dist'[u].archives = dist[u].archives
  BY <1>2, <1>3 DEF OwnInv, BuildInv, Typed, StoreTyped, IsOutput
<1>5. x # Idle => OwnCommand(x) /\ x.solo = c.solo
  BY <1>1, <1>2, OwnTargetDone
<1>6. QED
  BY <1>1, <1>2, <1>3, <1>4, <1>5, OwnQuiet

LEMMA OwnStop ==
    ASSUME OwnInv, NEW p \in Process, Stop(p)
    PROVE  OwnApiInv'
<1>1. command[p] # Idle /\ Fail(p) /\ (CompileApi(p) \/ UNCHANGED <<newest, fresh>>)
  BY DEF Stop, At, Idle
<1>2. newest' = [u \in Targets |-> newest'[u]] /\ fresh' = [u \in Targets |-> fresh'[u]]
  BY <1>1, Compiled
<1>3. \A u \in Targets : dist'[u].archives = dist[u].archives
  <2>1. dist' = dist \/ dist' = [dist EXCEPT ![Now(p)].image = Torn]
    BY DEF Stop
  <2>2. PICK t : t = Now(p)
    OBVIOUS
  <2>3. ASSUME dist' = [dist EXCEPT ![t].image = Torn], NEW u \in Targets
        PROVE  dist'[u].archives = dist[u].archives
    BY <2>3 DEF OwnInv, BuildInv, Typed, StoreTyped, IsOutput
  <2>4. QED
    BY <2>1, <2>2, <2>3
<1>4. ArchiveOwnApi'
  BY <1>3 DEF OwnInv, OwnApiInv, ArchiveOwnApi
<1>5. PICK x : x = Idle
  OBVIOUS
<1>6. command'[p] = x /\ \A q \in Process \ {p} : Other(command'[q], command[q])
  BY <1>1, <1>5, OwnOthers DEF Fail, OwnInv, BuildInv
<1>7. QED
  BY <1>1, <1>2, <1>4, <1>5, <1>6, OwnStep

\* Steps after which no command that was at work has the project to itself.
LEMMA OwnDisturbed ==
    ASSUME OwnInv, UNCHANGED <<newest, fresh, dist>>, NEW P \in SUBSET Process,
           \A p \in Process \ P : Other(command'[p], command[p]) /\ (command'[p] # Idle => ~command'[p].solo),
           \A p \in P : /\ OwnCommand(command[p])'
                        /\ command'[p].solo => \A q \in Process \ {p} : command'[q] = Idle
    PROVE  OwnApiInv'
<1>1. ASSUME NEW p \in Process \ P, command'[p] # Idle
      PROVE  OwnCommand(command[p])'
  <2>1. PICK c, d : c = command[p] /\ d = command'[p]
    OBVIOUS
  <2>2. c # Idle /\ Weaker(d, c) /\ ~d.solo
    BY <1>1, <2>1 DEF Other
  <2>3. OwnCommand(c) /\ d.step = c.step /\ d.targets = c.targets /\ d.todo = c.todo
    BY <2>1, <2>2 DEF Weaker, OwnInv, OwnApiInv
  <2>4. OwnCommand(d)'
    BY <2>2, <2>3 DEF OwnCommand
  <2>5. QED
    BY <2>1, <2>4
<1>2. ArchiveOwnApi'
  BY DEF OwnInv, OwnApiInv, ArchiveOwnApi
<1>3. QED
  BY <1>1, <1>2 DEF OwnInv, OwnApiInv

LEMMA OwnBegin ==
    ASSUME OwnInv, NEW p \in Process, BeginBuild(p) \/ BeginCheck(p)
    PROVE  OwnApiInv'
<1>1. UNCHANGED <<newest, fresh, dist>> /\ At(p, "idle")
  BY DEF BeginBuild, BeginCheck, cargoVars, outputVars
<1>2. PICK step, mode, chosen, sweep, x :
          /\ Join(p, x) /\ x = Started(step, mode, chosen, sweep)
          /\ step \in {"sweep", "sync"} /\ chosen \in Selection
  BY DEF BeginBuild, BeginCheck
<1>3. /\ x.step = step /\ x.targets = chosen /\ x.calm = TRUE /\ x.alone = TRUE
      /\ x.solo = \A q \in Process : At(q, "idle")
  BY <1>2 DEF Started
<1>4. OwnCommand(x)'
  BY <1>2, <1>3, BuildAssumption DEF OwnCommand, OwnApiTurn, Turn
<1>5. /\ command'[p] = x
      /\ \A q \in Process \ {p} : Other(command'[q], command[q])
  BY <1>2, JoinOthers DEF OwnInv, BuildInv
<1>6. ASSUME NEW q \in Process \ {p}, command'[q] # Idle
      PROVE  ~command'[q].solo /\ ~At(q, "idle")
  <2>1. PICK c, d : c = command[q] /\ d = command'[q]
    OBVIOUS
  <2>2. c # Idle /\ IsCommand(c) /\ d = [c EXCEPT !.solo = FALSE]
    BY <1>2, <1>5, <1>6, <2>1 DEF Join, OwnInv, BuildInv, Typed
  <2>3. d = [step |-> c.step, mode |-> c.mode, number |-> c.number, targets |-> c.targets,
             sweep |-> c.sweep, todo |-> c.todo, several |-> c.several, flags |-> c.flags,
             variants |-> c.variants, calm |-> c.calm, alone |-> c.alone, solo |-> FALSE]
    BY <2>2 DEF IsCommand
  <2>4. c.step # "idle"
    BY <2>2 DEF IsCommand, Turn
  <2>5. QED
    BY <2>1, <2>3, <2>4 DEF At
<1>7. x.solo => \A q \in Process \ {p} : command'[q] = Idle
  BY <1>3, <1>6
<1>8. PICK P : P = {p}
  OBVIOUS
<1>9. QED
  BY <1>1, <1>4, <1>5, <1>6, <1>7, <1>8, OwnDisturbed

LEMMA OwnPackages ==
    ASSUME OwnInv, NEW r \in Root, RemovePackage(r) \/ InstallPackage(r)
    PROVE  OwnApiInv'
<1>1. UNCHANGED <<newest, fresh, dist>> /\ Disturb
  BY DEF RemovePackage, InstallPackage, cargoVars, outputVars
<1>2. ASSUME NEW p \in Process
      PROVE  Other(command'[p], command[p]) /\ (command'[p] # Idle => ~command'[p].solo)
  <2>1. PICK c, d : c = command[p] /\ d = command'[p]
    OBVIOUS
  <2>2. CASE c = Idle
    BY <1>1, <2>1, <2>2 DEF Disturb, Other
  <2>3. CASE c # Idle
    <3>1. IsCommand(c) /\ d = [c EXCEPT !.calm = FALSE, !.solo = FALSE]
      BY <1>1, <2>1, <2>3 DEF Disturb, OwnInv, BuildInv, Typed
    <3>2. d = [step |-> c.step, mode |-> c.mode, number |-> c.number, targets |-> c.targets,
               sweep |-> c.sweep, todo |-> c.todo, several |-> c.several, flags |-> c.flags,
               variants |-> c.variants, calm |-> FALSE, alone |-> c.alone, solo |-> FALSE]
      BY <3>1 DEF IsCommand
    <3>3. d.calm = FALSE /\ d.solo = FALSE /\ d.alone = c.alone /\ c.alone \in BOOLEAN
      BY <3>1, <3>2 DEF IsCommand
    <3>4. Weaker(d, c)
      BY <3>2, <3>3 DEF Weaker
    <3>5. QED
      BY <2>1, <2>3, <3>3, <3>4 DEF Other
  <2>4. QED
    BY <2>2, <2>3
<1>3. PICK P : P = {}
  OBVIOUS
<1>4. P \in SUBSET Process /\ \A p \in P : FALSE
  BY <1>3
<1>5. QED
  BY <1>1, <1>2, <1>4, OwnDisturbed

\* The API crate in an archive is the one compiled with the module (cargo_build_integrated,
\* newest_rlib_for_crate), whatever was built, killed or failed before, if the API crates
\* depend on what sync_framework writes and the build had the project to itself.
THEOREM ArchiveOwnApiHolds == Spec => []ArchiveOwnApi
<1>1. Init => OwnApiInv
  <2> SUFFICES ASSUME Init
               PROVE  OwnApiInv
    OBVIOUS
  <2>1. \A p \in Process : command[p] = Idle
    BY DEF Init
  <2>2. \A t \in Targets : dist[t].archives = {}
    BY NothingIs DEF Init
  <2>3. QED
    BY <2>1, <2>2 DEF Init, OwnApiInv, ArchiveOwnApi
<1>2. BuildInv /\ OwnApiInv /\ [Next]_vars => OwnApiInv'
  <2> SUFFICES ASSUME OwnInv, [Next]_vars
               PROVE  OwnApiInv'
    BY DEF OwnInv
  <2>1. ASSUME NEW p \in Process, BeginBuild(p) \/ BeginCheck(p) \/ Stop(p)
        PROVE  OwnApiInv'
    BY <2>1, OwnBegin, OwnStop
  <2>2. ASSUME NEW p \in Process, Step(p)
        PROVE  OwnApiInv'
    BY <2>2, OwnQuietSteps, OwnSync, OwnActivation, OwnLoad, OwnCargo, OwnTake, OwnWrite, OwnArchive,
       OwnRename DEF Step
  <2>3. CASE UNCHANGED vars
    <3>1. \A c : OwnCommand(c) => OwnCommand(c)'
      BY <2>3 DEF vars, OwnCommand, OwnApiTurn
    <3>2. QED
      BY <2>3, <3>1 DEF vars, OwnInv, OwnApiInv, ArchiveOwnApi
  <2>4. QED
    BY <2>1, <2>2, <2>3, OwnPackages DEF Next
<1>3. OwnApiInv => ArchiveOwnApi
  BY DEF OwnApiInv
<1>4. QED
  BY <1>1, <1>2, <1>3, BuildInductive, PTL DEF Spec

-----------------------------------------------------------------------------
(* The images: packing, signing, verification and bundling. *)

\* The blocks of pack_elf_project; the proof is none of them.
PackedKind == {"manifest", "fingerprint", "menu", "dependencies", "extension_points", "extensions",
               "kernel_mixins", "segments", "segment", "imports", "api_compatibility", "exports",
               "providers", "symbol_locations", "relocations"}

\* Layout has packed kinds only.
LEMMA LayoutKinds ==
    ASSUME NEW elf
    PROVE  Layout(elf) \in Seq(PackedKind)
<1>1. \A kind \in PackedKind : If(elf, kind) \in Seq(PackedKind)
  BY DEF If
<1>2. /\ <<"manifest", "fingerprint">> \in Seq(PackedKind)
      /\ <<"segments", "segment", "imports", "api_compatibility">> \in Seq(PackedKind)
      /\ <<"symbol_locations", "relocations">> \in Seq(PackedKind)
  BY DEF PackedKind
<1>3. /\ If(elf, "menu") \in Seq(PackedKind) /\ If(elf, "dependencies") \in Seq(PackedKind)
      /\ If(elf, "extension_points") \in Seq(PackedKind)
      /\ If(elf, "extensions") \in Seq(PackedKind) /\ If(elf, "kernel_mixins") \in Seq(PackedKind)
      /\ If(elf, "exports") \in Seq(PackedKind) /\ If(elf, "providers") \in Seq(PackedKind)
  BY <1>1 DEF PackedKind
<1>4. \A s, t \in Seq(PackedKind) : s \o t \in Seq(PackedKind)
  OBVIOUS
<1>5. QED
  BY <1>2, <1>3, <1>4 DEF Layout

\* A sequence given by its elements is one of them.
LEMMA BlocksByPlace ==
    ASSUME NEW n \in Nat, NEW blocks, blocks = [i \in 1 .. n |-> blocks[i]],
           \A i \in 1 .. n : IsBlock(blocks[i])
    PROVE  AreBlocks(blocks) /\ DOMAIN blocks = 1 .. n
<1> DEFINE S == {blocks[i] : i \in 1 .. n}
<1>1. DOMAIN blocks = 1 .. n
  OBVIOUS
<1>2. blocks \in [1 .. n -> S]
  OBVIOUS
<1>3. blocks \in Seq(S)
  BY <1>2
<1>4. QED
  BY <1>1, <1>3 DEF AreBlocks

\* EkiWithHash makes an image of blocks.
LEMMA HashedIsImage ==
    ASSUME NEW arch, NEW blocks, AreBlocks(blocks)
    PROVE  IsImage(EkiWithHash(arch, blocks)) /\ EkiWithHash(arch, blocks).blocks = blocks
BY DEF EkiWithHash, IsImage

\* PutProof leaves one kind of proof: the new one.
LEMMA PutProofBlocks ==
    ASSUME NEW blocks, NEW body, AreBlocks(blocks)
    PROVE  /\ AreBlocks(PutProof(blocks, body))
           /\ \A i \in DOMAIN PutProof(blocks, body) :
                 PutProof(blocks, body)[i].kind = "proof" => PutProof(blocks, body)[i].body = body
<1> DEFINE n == Len(blocks)
           new == Block("proof", body, "file")
           result == PutProof(blocks, body)
<1>1. /\ n \in Nat /\ DOMAIN blocks = 1 .. n
      /\ \A i \in 1 .. n : IsBlock(blocks[i])
  BY DEF AreBlocks
<1>2. IsBlock(new) /\ new.kind = "proof" /\ new.body = body
  BY DEF IsBlock, Block
<1>3. CASE Has(blocks, "proof")
  <2>1. result = [i \in 1 .. n |-> IF blocks[i].kind = "proof" THEN new ELSE blocks[i]]
    BY <1>1, <1>3 DEF PutProof
  <2>2. result = [i \in 1 .. n |-> result[i]] /\ \A i \in 1 .. n : IsBlock(result[i])
    BY <1>1, <1>2, <2>1
  <2>3. AreBlocks(result) /\ DOMAIN result = 1 .. n
    BY <1>1, <2>2, BlocksByPlace
  <2>4. QED
    BY <1>2, <2>1, <2>3
<1>4. CASE ~Has(blocks, "proof")
  <2>1. \A i \in 1 .. n : blocks[i].kind # "proof"
    BY <1>1, <1>4 DEF Has
  <2>2. result = Append(blocks, new)
    BY <1>4 DEF PutProof
  <2>3. /\ result = [i \in 1 .. (n + 1) |-> result[i]]
        /\ \A i \in 1 .. n : result[i] = blocks[i]
        /\ result[n + 1] = new
    <3> DEFINE S == {blocks[i] : i \in DOMAIN blocks} \cup {new}
    <3>1. blocks \in Seq(S) /\ new \in S
      BY DEF AreBlocks
    <3> HIDE DEF S, new, result
    <3>2. result \in Seq(S) /\ Len(result) = n + 1
      BY <2>2, <3>1
    <3>3. result = [i \in 1 .. (n + 1) |-> result[i]]
      BY <3>2
    <3>4. \A i \in 1 .. n : result[i] = blocks[i]
      BY <2>2, <3>1
    <3>5. result[n + 1] = new
      BY <2>2, <3>1
    <3>6. QED
      BY <3>3, <3>4, <3>5
  <2>4. result = [i \in 1 .. (n + 1) |-> result[i]] /\ \A i \in 1 .. (n + 1) : IsBlock(result[i])
    BY <1>1, <1>2, <2>3
  <2>5. AreBlocks(result) /\ DOMAIN result = 1 .. (n + 1)
    BY <1>1, <2>4, BlocksByPlace
  <2>6. QED
    BY <1>2, <2>1, <2>3, <2>5
<1>5. QED
  BY <1>3, <1>4

\* FindBlock finds a block of the kind there is: the first of its places.
LEMMA FirstIsThere ==
    ASSUME NEW blocks, AreBlocks(blocks), NEW kind, Has(blocks, kind)
    PROVE  \E i \in DOMAIN blocks : blocks[i].kind = kind /\ FindBlock(blocks, kind) = blocks[i]
<1> DEFINE places == {i \in DOMAIN blocks : blocks[i].kind = kind}
<1>1. DOMAIN blocks \subseteq Nat /\ places # {}
  BY DEF AreBlocks, Has
<1>2. PICK i \in places : \A j \in places : i <= j
  <2>1. places \in SUBSET Nat
    BY <1>1
  <2> HIDE DEF places
  <2>2. PICK i \in places : \A j \in places : <<j, i>> \notin OpToRel(<, Nat)
    BY <1>1, <2>1, NatLessThanWellFounded, WFMin
  <2>3. \A j \in places : ~(j < i)
    BY <2>1, <2>2 DEF OpToRel
  <2>4. \A j \in places : i <= j
    BY <2>1, <2>3
  <2>5. QED
    BY <2>4
<1>3. i \in DOMAIN blocks /\ blocks[i].kind = kind /\ \A j \in 1 .. (i - 1) : blocks[j].kind # kind
  BY <1>1, <1>2 DEF AreBlocks
<1>4. QED
  BY <1>3 DEF FindBlock

\* One file is written: the invariant holds if the new image is one, and its
\* proofs are backed.
LEMMA ImageWriteKeeps ==
    ASSUME ImageInv, NEW f \in EkiFile, NEW image, images' = [images EXCEPT ![f] = image],
           signed \subseteq signed', IsImage(image), ProofsBacked(image, signed')
    PROVE  ImageInv'
<1>1. \A g \in EkiFile : images'[g] = IF g = f THEN image ELSE images[g]
  BY DEF ImageInv, ImagesOK
<1>2. images' = [g \in EkiFile |-> images'[g]]
  BY <1>1 DEF ImageInv, ImagesOK
<1>3. \A g \in EkiFile : IsImage(images'[g])
  BY <1>1 DEF ImageInv, ImagesOK
<1>4. \A g \in EkiFile : ProofsBacked(images'[g], signed')
  BY <1>1 DEF ImageInv, ProofsBacked, Backed
<1>5. QED
  BY <1>2, <1>3, <1>4 DEF ImageInv, ImagesOK

-----------------------------------------------------------------------------
(* The actions. *)

LEMMA PackElfKeeps ==
    ASSUME ImageInv, NEW f \in EkiFile, PackElf(f)
    PROVE  ImageInv'
<1>1. PICK elf \in Elf, interface \in Interface :
          images' = [images EXCEPT ![f] = PackedElf(elf, interface)]
  BY DEF PackElf
<1> DEFINE kinds == Layout(elf)
           blocks == [i \in DOMAIN kinds |-> PackedBlock(kinds[i], elf, interface)]
<1>2. kinds \in Seq(PackedKind)
  BY LayoutKinds
<1>3. /\ Len(kinds) \in Nat /\ DOMAIN kinds = 1 .. Len(kinds)
      /\ \A i \in 1 .. Len(kinds) : kinds[i] \in PackedKind
  BY <1>2
<1>4. \A kind \in PackedKind :
          IsBlock(PackedBlock(kind, elf, interface)) /\ PackedBlock(kind, elf, interface).kind # "proof"
  BY DEF PackedBlock, PackedKind, Block, IsBlock
<1>5. PackedElf(elf, interface) = EkiWithHash(elf.target, blocks)
  BY DEF PackedElf
<1> HIDE DEF kinds
<1>6. blocks = [i \in 1 .. Len(kinds) |-> blocks[i]] /\ \A i \in 1 .. Len(kinds) : IsBlock(blocks[i])
  BY <1>3, <1>4
<1>7. \A i \in DOMAIN blocks : blocks[i].kind # "proof"
  BY <1>3, <1>4
<1> HIDE DEF blocks
<1>8. AreBlocks(blocks)
  BY <1>3, <1>6, BlocksByPlace
<1>9. IsImage(PackedElf(elf, interface)) /\ PackedElf(elf, interface).blocks = blocks
  BY <1>5, <1>8, HashedIsImage
<1>10. ProofsBacked(PackedElf(elf, interface), signed')
  BY <1>7, <1>9 DEF ProofsBacked
<1>11. QED
  BY <1>1, <1>9, <1>10, ImageWriteKeeps DEF PackElf

LEMMA PackMetadataKeeps ==
    ASSUME ImageInv, NEW f \in EkiFile, PackMetadata(f)
    PROVE  ImageInv'
<1> DEFINE blocks == Metadata.blocks
<1>1. /\ Metadata = EkiWithHash("any", blocks)
      /\ blocks = <<Block("manifest", [form |-> "manifest", id |-> 0], "file"),
                    Block("fingerprint", [form |-> "any", profile |-> "none"], "file"),
                    Block("lifecycle_hooks", [form |-> "hooks", id |-> 0], "file")>>
  BY DEF Metadata, EkiWithHash
<1> HIDE DEF blocks
<1>2. blocks = [i \in 1 .. 3 |-> blocks[i]]
      /\ \A i \in 1 .. 3 : IsBlock(blocks[i]) /\ blocks[i].kind # "proof"
  BY <1>1 DEF Block, IsBlock
<1>3. AreBlocks(blocks) /\ DOMAIN blocks = 1 .. 3
  BY <1>2, BlocksByPlace
<1>4. IsImage(Metadata) /\ Metadata.blocks = blocks
  BY <1>1, <1>3, HashedIsImage
<1>5. ProofsBacked(Metadata, signed')
  BY <1>2, <1>3, <1>4 DEF ProofsBacked
<1>6. QED
  BY <1>4, <1>5, ImageWriteKeeps DEF PackMetadata

LEMMA RehashKeeps ==
    ASSUME ImageInv, NEW f \in EkiFile, NEW g \in EkiFile, Rehash(f, g)
    PROVE  ImageInv'
<1> DEFINE result == EkiWithHash(images[f].arch, images[f].blocks)
<1>1. IsImage(result) /\ result.blocks = images[f].blocks
  BY HashedIsImage DEF ImageInv, ImagesOK, IsImage
<1>2. ProofsBacked(result, signed')
  BY <1>1 DEF ImageInv, ProofsBacked, Rehash
<1> HIDE DEF result
<1>3. images' = [images EXCEPT ![g] = result] /\ signed' = signed
  BY DEF Rehash, result
<1>4. QED
  BY <1>1, <1>2, <1>3, ImageWriteKeeps

\* The new proof is the only one, and the program has just been signed.
LEMMA SignKeeps ==
    ASSUME ImageInv, NEW f \in EkiFile, NEW g \in EkiFile, NEW signer \in Signer, Sign(f, g, signer)
    PROVE  ImageInv'
<1> DEFINE body == ProofOf(images[f], signer)
           blocks == PutProof(images[f].blocks, body)
           result == SignedImage(images[f], signer)
<1>1. body.signature[1] = signer /\ body.signature[2][2] = Program(images[f])
  BY DEF ProofOf, Message
<1>2. /\ AreBlocks(blocks)
      /\ \A i \in DOMAIN blocks : blocks[i].kind = "proof" => blocks[i].body = body
  BY PutProofBlocks DEF ImageInv, ImagesOK, IsImage
<1>3. result = EkiWithHash(images[f].arch, blocks)
  BY DEF SignedImage
<1>4. /\ images' = [images EXCEPT ![g] = result]
      /\ signed' = signed \cup {<<signer, Program(images[f])>>}
  BY DEF Sign
<1> HIDE DEF body, blocks, result
<1>5. IsImage(result) /\ result.blocks = blocks
  BY <1>2, <1>3, HashedIsImage
<1>6. ProofsBacked(result, signed')
  BY <1>1, <1>2, <1>4, <1>5 DEF ProofsBacked, Backed
<1>7. QED
  BY <1>4, <1>5, <1>6, ImageWriteKeeps

\* No change of a file makes a signature.
LEMMA ChangeKeeps ==
    ASSUME ImageInv, NEW f \in EkiFile, ChangeFile(f)
    PROVE  ImageInv'
<1> DEFINE old == images[f]
<1>1. IsImage(old) /\ AreBlocks(old.blocks) /\ ProofsBacked(old, signed) /\ signed' = signed
  BY DEF ImageInv, ImagesOK, IsImage, ChangeFile
<1>2. /\ Len(old.blocks) \in Nat /\ DOMAIN old.blocks = 1 .. Len(old.blocks)
      /\ old.blocks = [i \in 1 .. Len(old.blocks) |-> old.blocks[i]]
      /\ \A i \in 1 .. Len(old.blocks) : IsBlock(old.blocks[i])
  BY <1>1 DEF AreBlocks
<1>3. ASSUME NEW i \in DOMAIN old.blocks, NEW from,
             images' = [images EXCEPT ![f] =
                           [images[f] EXCEPT !.blocks[i].body = [form |-> "changed", from |-> from]]]
      PROVE  ImageInv'
  <2> DEFINE image == [old EXCEPT !.blocks[i].body = [form |-> "changed", from |-> from]]
             blocks == [old.blocks EXCEPT ![i] =
                           Block(old.blocks[i].kind, [form |-> "changed", from |-> from], old.blocks[i].mem)]
  <2>1. image = [arch |-> old.arch, blocks |-> blocks, hash |-> old.hash, whole |-> old.whole]
    <3>1. [old.blocks[i] EXCEPT !.body = [form |-> "changed", from |-> from]]
              = Block(old.blocks[i].kind, [form |-> "changed", from |-> from], old.blocks[i].mem)
      <4> DEFINE b == old.blocks[i]
      <4>1. b = [kind |-> b.kind, body |-> b.body, mem |-> b.mem]
        BY <1>2, <1>3 DEF IsBlock, Block
      <4> HIDE DEF b
      <4>2. [b EXCEPT !.body = [form |-> "changed", from |-> from]]
                = [kind |-> b.kind, body |-> [form |-> "changed", from |-> from], mem |-> b.mem]
        BY <4>1
      <4>3. QED
        BY <4>2 DEF b, Block
    <3>2. image = [old EXCEPT !.blocks = blocks]
      BY <3>1
    <3>3. QED
      BY <1>1, <3>2 DEF IsImage
  <2>2. /\ blocks = [j \in 1 .. Len(old.blocks) |-> blocks[j]]
        /\ \A j \in 1 .. Len(old.blocks) : IsBlock(blocks[j])
        /\ \A j \in 1 .. Len(old.blocks) : j # i => blocks[j] = old.blocks[j]
        /\ blocks[i].body = [form |-> "changed", from |-> from]
    BY <1>2, <1>3 DEF IsBlock, Block
  <2> HIDE DEF blocks, image
  <2>3. AreBlocks(blocks) /\ DOMAIN blocks = 1 .. Len(old.blocks)
    BY <1>2, <2>2, BlocksByPlace
  <2>4. IsImage(image)
    BY <2>1, <2>3 DEF IsImage
  <2>5. ProofsBacked(image, signed')
    <3>1. image.blocks = blocks
      BY <2>1
    <3>2. \A j \in DOMAIN blocks : j # i /\ blocks[j].kind = "proof" => Backed(blocks[j].body, signed)
      BY <1>1, <1>2, <2>2, <2>3 DEF ProofsBacked
    <3>3. Backed(blocks[i].body, signed)
      BY <2>2 DEF Backed
    <3>4. QED
      BY <1>1, <3>1, <3>2, <3>3 DEF ProofsBacked
  <2>6. images' = [images EXCEPT ![f] = image]
    BY <1>3 DEF image
  <2>7. QED
    BY <1>1, <2>4, <2>5, <2>6, ImageWriteKeeps
<1>4. ASSUME NEW image, images' = [images EXCEPT ![f] = image], IsImage(image),
             image.blocks = old.blocks
      PROVE  ImageInv'
  <2>1. ProofsBacked(image, signed')
    BY <1>1, <1>4 DEF ProofsBacked
  <2>2. QED
    BY <1>1, <1>4, <2>1, ImageWriteKeeps
<1>5. ASSUME NEW body, Backed(body, signed),
             images' = [images EXCEPT ![f] = [images[f] EXCEPT !.blocks = PutProof(images[f].blocks, body)]]
      PROVE  ImageInv'
  <2> DEFINE blocks == PutProof(old.blocks, body)
             image == [old EXCEPT !.blocks = blocks]
  <2>1. /\ AreBlocks(blocks)
        /\ \A i \in DOMAIN blocks : blocks[i].kind = "proof" => blocks[i].body = body
    BY <1>1, PutProofBlocks
  <2> HIDE DEF blocks
  <2>2. image = [arch |-> old.arch, blocks |-> blocks, hash |-> old.hash, whole |-> old.whole]
    BY <1>1 DEF IsImage
  <2> HIDE DEF image
  <2>3. IsImage(image)
    BY <2>1, <2>2 DEF IsImage
  <2>4. ProofsBacked(image, signed')
    BY <1>1, <1>5, <2>1, <2>2 DEF ProofsBacked
  <2>5. images' = [images EXCEPT ![f] = image]
    BY <1>5 DEF image, blocks
  <2>6. QED
    BY <1>1, <2>3, <2>4, <2>5, ImageWriteKeeps
<1>6. CASE \E i \in DOMAIN old.blocks :
              images' = [images EXCEPT ![f] = [images[f] EXCEPT !.blocks[i].body =
                             [form |-> "changed", from |-> images[f].blocks[i].body]]]
  BY <1>3, <1>6
<1>7. CASE \/ images' = [images EXCEPT ![f] = [images[f] EXCEPT !.hash = <<>>]]
           \/ images' = [images EXCEPT ![f] = [images[f] EXCEPT !.whole = FALSE]]
  <2>1. ASSUME NEW image \in {[old EXCEPT !.hash = <<>>], [old EXCEPT !.whole = FALSE]}
        PROVE  IsImage(image) /\ image.blocks = old.blocks
    BY <1>1, <2>1 DEF IsImage
  <2>2. QED
    BY <1>4, <1>7, <2>1
<1>8. CASE \E g \in EkiFile :
              /\ Has(images[g].blocks, "proof")
              /\ images' = [images EXCEPT ![f] = [images[f] EXCEPT !.blocks =
                                PutProof(images[f].blocks, FindBlock(images[g].blocks, "proof").body)]]
  <2>1. PICK g \in EkiFile :
              /\ Has(images[g].blocks, "proof")
              /\ images' = [images EXCEPT ![f] = [images[f] EXCEPT !.blocks =
                                PutProof(images[f].blocks, FindBlock(images[g].blocks, "proof").body)]]
    BY <1>8
  <2>2. Backed(FindBlock(images[g].blocks, "proof").body, signed)
    BY <2>1, FirstIsThere DEF ImageInv, ImagesOK, IsImage, ProofsBacked
  <2>3. QED
    BY <1>5, <2>1, <2>2
<1>9. CASE \E body \in Reassigned(f) :
              images' = [images EXCEPT ![f] = [images[f] EXCEPT !.blocks = PutProof(images[f].blocks, body)]]
  <2>1. \A body \in Reassigned(f) : Backed(body, signed)
    BY <1>1 DEF Reassigned, ProofsBacked, Backed
  <2>2. QED
    BY <1>5, <1>9, <2>1
<1>10. QED
  BY <1>6, <1>7, <1>8, <1>9 DEF ChangeFile

-----------------------------------------------------------------------------
(* A signed image is accepted. *)

\* What PutProof leaves at each place.
LEMMA PutProofPlaces ==
    ASSUME NEW blocks, NEW body, AreBlocks(blocks)
    PROVE  LET result == PutProof(blocks, body)
               proof == Block("proof", body, "file")
               n == Len(blocks)
           IN  /\ n \in Nat /\ DOMAIN blocks = 1 .. n
               /\ result = [i \in DOMAIN result |-> result[i]]
               /\ \A i \in 1 .. n : i \in DOMAIN result /\ result[i] = IF blocks[i].kind = "proof" THEN proof ELSE blocks[i]
               /\ Has(blocks, "proof") => DOMAIN result = 1 .. n
               /\ ~Has(blocks, "proof") => DOMAIN result = 1 .. (n + 1) /\ result[n + 1] = proof
<1> DEFINE n == Len(blocks)
           proof == Block("proof", body, "file")
           result == PutProof(blocks, body)
<1>1. n \in Nat /\ DOMAIN blocks = 1 .. n
  BY DEF AreBlocks
<1>2. CASE Has(blocks, "proof")
  <2>1. result = [i \in 1 .. n |-> IF blocks[i].kind = "proof" THEN proof ELSE blocks[i]]
    BY <1>1, <1>2 DEF PutProof
  <2> HIDE DEF result, proof, n
  <2>2. DOMAIN result = 1 .. n
    BY <2>1
  <2>3. QED
    BY <1>1, <1>2, <2>1, <2>2 DEF result, proof, n
<1>3. CASE ~Has(blocks, "proof")
  <2>1. result = Append(blocks, proof) /\ \A i \in 1 .. n : blocks[i].kind # "proof"
    BY <1>1, <1>3 DEF PutProof, Has
  <2> DEFINE S == {blocks[i] : i \in DOMAIN blocks} \cup {proof}
  <2>2. blocks \in Seq(S) /\ proof \in S
    BY DEF AreBlocks
  <2> HIDE DEF S, result, proof
  <2>3. /\ result \in Seq(S) /\ Len(result) = n + 1 /\ result[n + 1] = proof
        /\ \A i \in 1 .. n : result[i] = blocks[i]
    BY <2>1, <2>2
  <2>4. DOMAIN result = 1 .. (n + 1) /\ result = [i \in 1 .. (n + 1) |-> result[i]]
    BY <2>3
  <2>5. \A i \in 1 .. n : i \in DOMAIN result
                          /\ result[i] = IF blocks[i].kind = "proof" THEN proof ELSE blocks[i]
    BY <1>1, <2>1, <2>3, <2>4
  <2>6. result = [i \in DOMAIN result |-> result[i]]
    BY <2>4
  <2> HIDE DEF n
  <2>7. QED
    BY <1>1, <1>3, <2>3, <2>4, <2>5, <2>6 DEF result, proof, n
<1>4. QED
  BY <1>2, <1>3

\* A proof that is put in is found, and no proof is put in beside another.
LEMMA PutProofTwice ==
    ASSUME NEW blocks, NEW body, NEW other, AreBlocks(blocks)
    PROVE  PutProof(PutProof(blocks, body), other) = PutProof(blocks, other)
<1>1. PICK once : once = PutProof(blocks, body)
  OBVIOUS
<1>2. PICK twice : twice = PutProof(once, other)
  OBVIOUS
<1>3. PICK new : new = PutProof(blocks, other)
  OBVIOUS
<1>4. PICK n : n = Len(blocks)
  OBVIOUS
<1>5. PICK first, second : first = Block("proof", body, "file") /\ second = Block("proof", other, "file")
  OBVIOUS
<1>6. first.kind = "proof" /\ second.kind = "proof"
  BY <1>5 DEF Block
<1>7. /\ n \in Nat /\ DOMAIN blocks = 1 .. n
      /\ once = [i \in DOMAIN once |-> once[i]]
      /\ \A i \in 1 .. n : i \in DOMAIN once /\ once[i] = IF blocks[i].kind = "proof" THEN first ELSE blocks[i]
      /\ Has(blocks, "proof") => DOMAIN once = 1 .. n
      /\ ~Has(blocks, "proof") => DOMAIN once = 1 .. (n + 1) /\ once[n + 1] = first
  BY <1>1, <1>4, <1>5, PutProofPlaces
<1>8. /\ new = [i \in DOMAIN new |-> new[i]]
      /\ \A i \in 1 .. n : i \in DOMAIN new /\ new[i] = IF blocks[i].kind = "proof" THEN second ELSE blocks[i]
      /\ Has(blocks, "proof") => DOMAIN new = 1 .. n
      /\ ~Has(blocks, "proof") => DOMAIN new = 1 .. (n + 1) /\ new[n + 1] = second
  BY <1>3, <1>4, <1>5, PutProofPlaces
<1>9. AreBlocks(once) /\ Has(once, "proof")
  BY <1>1, <1>6, <1>7, PutProofBlocks DEF Has
<1>10. /\ twice = [i \in DOMAIN twice |-> twice[i]] /\ DOMAIN twice = DOMAIN once
       /\ \A i \in DOMAIN once : twice[i] = IF once[i].kind = "proof" THEN second ELSE once[i]
  BY <1>2, <1>5, <1>9, PutProofPlaces
<1>11. DOMAIN twice = DOMAIN new /\ \A i \in DOMAIN new : twice[i] = new[i]
  BY <1>6, <1>7, <1>8, <1>10
<1>12. twice = new
  BY <1>8, <1>10, <1>11
<1>13. QED
  BY <1>1, <1>2, <1>3, <1>12

\* What would be loaded does not depend on the proof.
LEMMA PutProofProgram ==
    ASSUME NEW image, NEW arch, NEW body, AreBlocks(image.blocks), arch = image.arch
    PROVE  Program(EkiWithHash(arch, PutProof(image.blocks, body))) = Program(image)
<1>1. PICK blocks, result : blocks = image.blocks /\ result = PutProof(image.blocks, body)
  OBVIOUS
<1>2. PICK proof, n : proof = Block("proof", body, "file") /\ n = Len(blocks)
  OBVIOUS
<1>3. /\ n \in Nat /\ DOMAIN blocks = 1 .. n /\ proof.kind = "proof"
      /\ \A i \in 1 .. n : i \in DOMAIN result /\ result[i] = IF blocks[i].kind = "proof" THEN proof ELSE blocks[i]
      /\ Has(blocks, "proof") => DOMAIN result = 1 .. n
      /\ ~Has(blocks, "proof") => DOMAIN result = 1 .. (n + 1) /\ result[n + 1] = proof
  BY <1>1, <1>2, PutProofPlaces DEF Block
<1>4. {i \in DOMAIN result : result[i].kind # "proof"} = {i \in DOMAIN blocks : blocks[i].kind # "proof"}
  BY <1>3
<1>5. PICK places : places = {i \in DOMAIN blocks : blocks[i].kind # "proof"}
  OBVIOUS
<1>6. \A i \in places : result[i] = blocks[i]
  BY <1>3, <1>5
<1>7. Restrict(result, places) = Restrict(blocks, places)
  BY <1>6 DEF Restrict
<1>8. EkiWithHash(arch, result).arch = arch /\ EkiWithHash(arch, result).blocks = result
  BY DEF EkiWithHash
<1>9. QED
  BY <1>1, <1>4, <1>5, <1>7, <1>8 DEF Program

\* Signing keeps the blocks that an image must have, once each.
LEMMA PutProofParses ==
    ASSUME NEW image, IsImage(image), Parses(image), NEW body, body.form = "proof"
    PROVE  LET result == EkiWithHash(image.arch, PutProof(image.blocks, body))
           IN  /\ Parses(result) /\ Has(result.blocks, "proof")
               /\ FindBlock(result.blocks, "proof").body = body
               /\ Has(image.blocks, "fingerprint") =>
                     /\ Has(result.blocks, "fingerprint")
                     /\ FindBlock(result.blocks, "fingerprint") = FindBlock(image.blocks, "fingerprint")
<1>1. PICK blocks, new : blocks = image.blocks /\ new = PutProof(image.blocks, body)
  OBVIOUS
<1>2. PICK result : result = EkiWithHash(image.arch, new)
  OBVIOUS
<1>3. result.whole /\ result.blocks = new
  BY <1>2 DEF EkiWithHash
<1>4. PICK proof, n : proof = Block("proof", body, "file") /\ n = Len(blocks)
  OBVIOUS
<1>5. AreBlocks(blocks) /\ AreBlocks(new)
  BY <1>1, PutProofBlocks DEF IsImage
<1>6. /\ n \in Nat /\ DOMAIN blocks = 1 .. n /\ proof.kind = "proof"
      /\ \A i \in 1 .. n : i \in DOMAIN new /\ new[i] = IF blocks[i].kind = "proof" THEN proof ELSE blocks[i]
      /\ Has(blocks, "proof") => DOMAIN new = 1 .. n
      /\ ~Has(blocks, "proof") => DOMAIN new = 1 .. (n + 1) /\ new[n + 1] = proof
  BY <1>1, <1>4, <1>5, PutProofPlaces DEF Block
<1>7. \A i \in DOMAIN new : i \in 1 .. n \/ (i = n + 1 /\ ~Has(blocks, "proof"))
  BY <1>6
<1>8. \A i \in 1 .. n : new[i].kind = blocks[i].kind
  BY <1>6
<1>9. /\ ~Has(blocks, "variant_directory") /\ Has(blocks, "manifest")
      /\ \A i, j \in 1 .. n : blocks[i].kind \in {"manifest", "fingerprint", "proof"}
                              /\ blocks[j].kind = blocks[i].kind => i = j
  BY <1>1, <1>6 DEF Parses
<1>10. ~Has(new, "variant_directory") /\ Has(new, "manifest") /\ Has(new, "proof")
  BY <1>6, <1>7, <1>8, <1>9 DEF Has
<1>11. \A i, j \in DOMAIN new : new[i].kind \in {"manifest", "fingerprint", "proof"}
                                /\ new[j].kind = new[i].kind => i = j
  <2>1. SUFFICES ASSUME NEW i \in DOMAIN new, NEW j \in DOMAIN new,
                        new[i].kind \in {"manifest", "fingerprint", "proof"}, new[j].kind = new[i].kind
                 PROVE  i = j
    OBVIOUS
  <2>2. CASE i \in 1 .. n /\ j \in 1 .. n
    BY <1>8, <1>9, <2>1, <2>2
  <2>3. CASE ~Has(blocks, "proof") /\ (i = n + 1 \/ j = n + 1)
    BY <1>6, <1>7, <1>8, <2>1, <2>3 DEF Has
  <2>4. QED
    BY <1>7, <2>2, <2>3
<1>12. FindBlock(new, "proof").body = body
  BY <1>1, <1>5, <1>10, FirstIsThere, PutProofBlocks
<1>13. Parses(result)
  BY <1>3, <1>10, <1>11, <1>12 DEF Parses
<1>14. ASSUME Has(blocks, "fingerprint")
       PROVE  Has(new, "fingerprint") /\ FindBlock(new, "fingerprint") = FindBlock(blocks, "fingerprint")
  <2>1. PICK i \in 1 .. n : blocks[i].kind = "fingerprint" /\ FindBlock(blocks, "fingerprint") = blocks[i]
    BY <1>5, <1>6, <1>14, FirstIsThere
  <2>2. new[i] = blocks[i] /\ i \in DOMAIN new
    BY <1>6, <2>1
  <2>3. Has(new, "fingerprint")
    BY <2>1, <2>2 DEF Has
  <2>4. PICK j \in DOMAIN new : new[j].kind = "fingerprint" /\ FindBlock(new, "fingerprint") = new[j]
    BY <1>5, <2>3, FirstIsThere
  <2>5. i = j
    BY <1>11, <2>1, <2>2, <2>4
  <2>6. QED
    BY <2>1, <2>2, <2>3, <2>4, <2>5
<1>15. QED
  BY <1>1, <1>2, <1>3, <1>10, <1>12, <1>13, <1>14

-----------------------------------------------------------------------------
(* The theorems. *)

\* Every signature in a file was made by Sign, whatever happened to the file.
THEOREM ImageInductive == ImageSpec => []ImageInv
<1>1. ImageInit => ImageInv
  <2> SUFFICES ASSUME ImageInit PROVE ImageInv
    OBVIOUS
  <2>1. NoImage.blocks = <<>> /\ AreBlocks(<<>>) /\ IsImage(NoImage)
    BY DEF NoImage, IsImage, AreBlocks
  <2>2. images = [f \in EkiFile |-> NoImage]
    BY DEF ImageInit
  <2>3. QED
    BY <2>1, <2>2 DEF ImageInv, ImagesOK, ProofsBacked
<1>2. ImageInv /\ [ImageNext]_imageVars => ImageInv'
  <2> SUFFICES ASSUME ImageInv, [ImageNext]_imageVars PROVE ImageInv'
    OBVIOUS
  <2>1. CASE UNCHANGED imageVars
    BY <2>1 DEF imageVars, ImageInv, ImagesOK
  <2>2. CASE \E n \in 1 .. MaxVariants : \E variants \in [1 .. n -> Variant] : WriteBundle(variants)
    BY <2>2 DEF WriteBundle, ImageInv, ImagesOK
  <2>3. QED
    BY <2>1, <2>2, PackElfKeeps, PackMetadataKeeps, ChangeKeeps, RehashKeeps, SignKeeps DEF ImageNext
<1>3. QED
  BY <1>1, <1>2, PTL DEF ImageSpec

\* image-verify: what is accepted was signed, as it is now, by the key it names:
\* the signature covers both, and it was made for what it covers.
THEOREM VerifiedWasSignedHolds == ImageSpec => []VerifiedWasSigned
<1>1. ImageInv => VerifiedWasSigned
  <2> SUFFICES ASSUME ImageInv, NEW f \in EkiFile, Verifies(images[f])
               PROVE  <<FindBlock(images[f].blocks, "proof").body.signer, Program(images[f])>> \in signed
    BY DEF VerifiedWasSigned
  <2> DEFINE proof == FindBlock(images[f].blocks, "proof").body
  <2>1. /\ Has(images[f].blocks, "proof") /\ proof.form = "proof"
        /\ TrustVerifies(images[f], proof, FindBlock(images[f].blocks, "fingerprint").body)
    BY DEF Verifies, Parses
  <2>2. Backed(proof, signed)
    BY <2>1, FirstIsThere DEF ImageInv, ImagesOK, IsImage, ProofsBacked
  <2> HIDE DEF proof
  <2>3. /\ proof.subject = Program(images[f])
        /\ proof.signature[1] = proof.signer /\ proof.signature[2][2] = proof.subject
    BY <2>1 DEF TrustVerifies, Message
  <2>4. QED
    BY <2>1, <2>2, <2>3 DEF Backed, proof
<1>2. QED
  BY ImageInductive, <1>1, PTL

\* sign_eki_image and cmd_verify: the digest that is taken with a placeholder is
\* the one that is found with the proof in its place, the program is the same,
\* and so image-verify accepts every image that was signed, signed before or not.
THEOREM SigningWorksHolds == ImageSpec => []SigningWorks
<1>1. ImageInv => SigningWorks
  <2> SUFFICES ASSUME ImageInv, NEW f \in EkiFile, CanSign(images[f]), NEW signer \in Signer
               PROVE  /\ SelfCheck(SignedImage(images[f], signer))
                      /\ Verifies(SignedImage(images[f], signer))
    BY DEF SigningWorks
  <2>1. PICK image : image = images[f]
    OBVIOUS
  <2>2. PICK proof : proof = ProofOf(image, signer)
    OBVIOUS
  <2>3. PICK result : result = SignedImage(image, signer)
    OBVIOUS
  <2>4. PICK print : print = FindBlock(image.blocks, "fingerprint").body
    OBVIOUS
  <2>5. /\ IsImage(image) /\ AreBlocks(image.blocks)
        /\ Parses(image) /\ Has(image.blocks, "fingerprint")
    BY <2>1 DEF ImageInv, ImagesOK, IsImage, CanSign
  <2>6. result = EkiWithHash(image.arch, PutProof(image.blocks, proof))
    BY <2>2, <2>3 DEF SignedImage
  <2>7. /\ result.arch = image.arch /\ result.blocks = PutProof(image.blocks, proof)
        /\ result.whole /\ HashValid(result)
    BY <2>6 DEF EkiWithHash, HashValid
  <2>8. PICK zeroed : zeroed = EkiWithHash(image.arch, PutProof(image.blocks, Zeros))
    OBVIOUS
  <2>9. zeroed.arch = image.arch /\ zeroed.blocks = PutProof(image.blocks, Zeros)
    BY <2>8 DEF EkiWithHash
  <2>10. SourceDigest(zeroed) = <<image.arch, PutProof(image.blocks, Zeros)>>
    BY <2>5, <2>9, PutProofTwice DEF SourceDigest
  <2>11. /\ proof.form = "proof" /\ proof.signer = signer /\ proof.subject = Program(image)
         /\ proof.source = SourceDigest(zeroed)
         /\ proof.signature = <<signer, <<proof.source, proof.subject, signer, print>>>>
    BY <2>2, <2>4, <2>8 DEF ProofOf, Message
  <2>12. SourceDigest(result) = proof.source
    BY <2>5, <2>7, <2>10, <2>11, PutProofTwice DEF SourceDigest
  <2>13. /\ Parses(result) /\ Has(result.blocks, "proof")
         /\ FindBlock(result.blocks, "proof").body = proof
         /\ Has(result.blocks, "fingerprint")
         /\ FindBlock(result.blocks, "fingerprint").body = print
    BY <2>4, <2>5, <2>6, <2>11, PutProofParses
  <2>14. Program(result) = Program(image)
    BY <2>5, <2>6, PutProofProgram
  <2>15. TrustVerifies(result, proof, print)
    BY <2>11, <2>14 DEF TrustVerifies, Message
  <2>16. SelfCheck(result) /\ Verifies(result)
    BY <2>7, <2>12, <2>13, <2>15 DEF SelfCheck, Verifies
  <2>17. QED
    BY <2>1, <2>3, <2>16
<1>2. QED
  BY ImageInductive, <1>1, PTL

-----------------------------------------------------------------------------
(* A bundle leads every kernel to its image. *)

\* The bundle stays the one of the variants that were given, no two of which
\* have one profile, target and priority.
THEOREM BundleInductive == ImageSpec => []BundleInv
<1>1. ImageInit => BundleInv
  BY DEF ImageInit, BundleInv
<1>2. BundleInv /\ [ImageNext]_imageVars => BundleInv'
  <2> SUFFICES ASSUME BundleInv, [ImageNext]_imageVars PROVE BundleInv'
    OBVIOUS
  <2>1. CASE bundle' = bundle /\ given' = given
    BY <2>1 DEF BundleInv
  <2>2. CASE \E n \in 1 .. MaxVariants : \E variants \in [1 .. n -> Variant] : WriteBundle(variants)
    <3>0. PICK n \in 1 .. MaxVariants : \E variants \in [1 .. n -> Variant] : WriteBundle(variants)
      BY <2>2
    <3>1. PICK variants \in [1 .. n -> Variant] : WriteBundle(variants)
      BY <3>0
    <3>2. given' = variants /\ bundle' = BundleOf(variants) /\ ~Repeats(variants)
      BY <3>1 DEF WriteBundle
    <3>3. \A i \in DOMAIN variants : variants[i].interface.target = variants[i].image.arch
      BY <3>1 DEF WriteBundle
    <3>4. n \in Nat /\ variants = [i \in 1 .. n |-> variants[i]]
      BY ImageAssumption
    <3>5. \A i \in DOMAIN variants : variants[i].interface \in Interface
      BY DEF Variant
    <3>6. QED
      BY <3>2, <3>3, <3>4, <3>5 DEF BundleInv
  <2>3. ASSUME NEW f \in EkiFile, PackElf(f) \/ PackMetadata(f) \/ ChangeFile(f)
        PROVE  bundle' = bundle /\ given' = given
    BY <2>3 DEF PackElf, PackMetadata, ChangeFile
  <2>4. ASSUME NEW f \in EkiFile, NEW g \in EkiFile,
               Rehash(f, g) \/ \E signer \in Signer : Sign(f, g, signer)
        PROVE  bundle' = bundle /\ given' = given
    BY <2>4 DEF Rehash, Sign
  <2>5. QED
    BY <2>1, <2>2, <2>3, <2>4 DEF ImageNext, imageVars
<1>3. QED
  BY <1>1, <1>2, PTL DEF ImageSpec

\* cmd_bundle: a kernel gets an image that was given for its profile, and no
\* other record of the bundle has the priority of the one it takes.
THEOREM BundleSelectsHolds == ImageSpec => []BundleSelects
<1>1. BundleInv => BundleSelects
  <2> SUFFICES ASSUME BundleInv, NEW i \in DOMAIN given
               PROVE  LET mine == Matching(bundle, given[i].image.arch, given[i].interface.profile) IN
                      /\ \A r, other \in mine : r.priority = other.priority => r = other
                      /\ \E r \in mine : r.priority = given[i].priority /\ VariantOf(bundle, r) = given[i].image
                      /\ \A r \in mine : \E j \in DOMAIN given :
                            given[j].interface = given[i].interface /\ given[j].image = VariantOf(bundle, r)
    BY DEF BundleSelects
  <2>1. PICK mine : mine = Matching(bundle, given[i].image.arch, given[i].interface.profile)
    OBVIOUS
  <2>2. given # <<>>
    OBVIOUS
  <2>3. PICK n \in Nat : given = [j \in 1 .. n |-> given[j]]
    BY <2>2 DEF BundleInv
  <2>4. DOMAIN given = 1 .. n
    BY <2>3
  <2>5. PICK records, blocks :
            /\ records = [j \in 1 .. n |-> Record(given, j)]
            /\ blocks = [j \in 1 .. n |-> Block("variant_image", given[j].image, "file")]
    OBVIOUS
  <2>6. /\ bundle.blocks = <<Block("variant_directory", records, "file")>> \o blocks
    BY <2>2, <2>4, <2>5 DEF BundleInv, BundleOf, EkiWithHash
  <2>7. /\ bundle.blocks[1].body = records
        /\ \A j \in 1 .. n : bundle.blocks[j + 1].body = given[j].image
    <3>1. PICK directory : directory = Block("variant_directory", records, "file")
      OBVIOUS
    <3>2. blocks \in Seq({blocks[j] : j \in 1 .. n}) /\ Len(blocks) = n
      BY <2>5
    <3>3. /\ (<<directory>> \o blocks)[1] = directory
          /\ \A j \in 1 .. n : (<<directory>> \o blocks)[j + 1] = blocks[j]
      BY <3>2
    <3>4. directory.body = records /\ \A j \in 1 .. n : blocks[j].body = given[j].image
      BY <2>5, <3>1 DEF Block
    <3>5. QED
      BY <2>6, <3>1, <3>3, <3>4
  <2>8. ToSet(records) = {Record(given, j) : j \in 1 .. n}
    BY <2>5 DEF ToSet
  <2>9. mine = {r \in {Record(given, j) : j \in 1 .. n} :
                    r.arch = given[i].image.arch /\ r.profile = given[i].interface.profile}
    BY <2>1, <2>7, <2>8 DEF Matching
  <2>10. ASSUME NEW r \in mine
         PROVE  \E j \in 1 .. n : /\ r = Record(given, j)
                                  /\ given[j].interface = given[i].interface
                                  /\ VariantOf(bundle, r) = given[j].image
    <3>1. PICK j \in 1 .. n : r = Record(given, j)
      BY <2>9
    <3>2. /\ given[j].image.arch = given[i].image.arch
          /\ given[j].interface.profile = given[i].interface.profile
          /\ r.block = j
      BY <2>9, <3>1 DEF Record
    <3>3. given[j].interface = given[i].interface
      BY <2>2, <2>4, <3>2, ImageAssumption DEF BundleInv
    <3>4. VariantOf(bundle, r) = given[j].image
      BY <2>7, <3>2 DEF VariantOf
    <3>5. QED
      BY <3>1, <3>3, <3>4
  <2>11. \A r, other \in mine : r.priority = other.priority => r = other
    <3> SUFFICES ASSUME NEW r \in mine, NEW other \in mine, r.priority = other.priority
                 PROVE  r = other
      OBVIOUS
    <3>1. PICK j \in 1 .. n : r = Record(given, j) /\ given[j].interface = given[i].interface
      BY <2>10
    <3>2. PICK k \in 1 .. n : other = Record(given, k) /\ given[k].interface = given[i].interface
      BY <2>10
    <3>3. given[j].priority = given[k].priority
      BY <3>1, <3>2 DEF Record
    <3>4. j = k
      BY <2>2, <2>4, <3>1, <3>2, <3>3 DEF BundleInv, Repeats
    <3>5. QED
      BY <3>1, <3>2, <3>4
  <2>12. \E r \in mine : r.priority = given[i].priority /\ VariantOf(bundle, r) = given[i].image
    <3>1. PICK r : r = Record(given, i)
      OBVIOUS
    <3>2. /\ r.arch = given[i].image.arch /\ r.profile = given[i].interface.profile
          /\ r.priority = given[i].priority /\ r.block = i
      BY <3>1 DEF Record
    <3>3. r \in mine
      BY <2>4, <2>9, <3>1, <3>2
    <3>4. VariantOf(bundle, r) = given[i].image
      BY <2>4, <2>7, <3>2 DEF VariantOf
    <3>5. QED
      BY <3>2, <3>3, <3>4
  <2>13. \A r \in mine : \E j \in DOMAIN given :
            given[j].interface = given[i].interface /\ given[j].image = VariantOf(bundle, r)
    BY <2>4, <2>10
  <2>14. QED
    BY <2>1, <2>11, <2>12, <2>13
<1>2. QED
  BY BundleInductive, <1>1, PTL

=============================================================================
