-------------------------- MODULE LanguagePackage --------------------------
(***************************************************************************)
(* A language package: how its interface schema is generated from a kernel *)
(* interface, a bridge and the package manifest, and how package-check     *)
(* decides that the package is whole; src/language_package.rs.  The two    *)
(* are written apart and meet only in files which a developer edits,       *)
(* rebuilds and signs meanwhile: the manifest has the digests of all       *)
(* others, the schema has a digest of the manifest.                        *)
(*                                                                         *)
(* A digest is the content it is of; an operation id, 64 bits of a digest, *)
(* is the sequence of values it is computed from.                          *)
(***************************************************************************)
EXTENDS Naturals, SequencesExt

CONSTANTS
    Kernels,      \* the kernels interfaces are exported from: source, profile, symbols
    Target,       \* the targets
    Bridges,      \* what LanguageBridge.toml may be
    Manifests,    \* what LanguagePackage.toml may be, before digests are entered
    Key,          \* the keys of publishers
    Codes,        \* versions of the package's own code
    MaxMoves, MaxGenerations   \* bounds on the developer's steps and on generations

VARIABLES
    kernel,      \* the kernel whose interfaces are exported now
    package,     \* LanguagePackage.toml
    bridge,      \* LanguageBridge.toml
    schema,      \* interface.schema.json
    stored,      \* stored[path]: an artifact
    gen,         \* the interface-schema or descriptor command
    check,       \* the package-check command
    moves, generations,
    undisturbed  \* no file has changed since package-check began (history)

files == <<kernel, package, bridge, schema, stored>>
packageVars == <<files, gen, check, moves, generations, undisturbed>>

\* Nothing, and a file cut short: no other value of this module has such a field.
Missing == [absent |-> TRUE]
Torn == [torn |-> TRUE]

ManifestFields ==
    {"targets", "profile", "requested", "meta", "eki", "ekiSha", "interfaceSha", "bridgeSha", "artifacts"}
Path == UNION {{m.artifacts[i].path : i \in DOMAIN m.artifacts} : m \in Manifests}

ASSUME PackageAssumption ==
    /\ Missing \notin Target
    /\ MaxMoves \in Nat /\ MaxGenerations \in Nat
    /\ \A b \in Bridges :
          /\ IsFiniteSet(DOMAIN b.types)
          /\ \A n \in DOMAIN b.types : LET parts == b.types[n].parts IN parts \in Seq(ToSet(parts))
    /\ \A m \in Manifests :
          /\ DOMAIN m = ManifestFields
          /\ m.artifacts \in Seq([path : Path, kind : STRING, target : Target,
                                  sha : {Missing}, signature : {Missing}])

First(s, Test(_)) == s[CHOOSE i \in DOMAIN s : Test(s[i]) /\ \A j \in 1..(i - 1) : ~Test(s[j])]
Distinct(S, Of(_)) == \A a, b \in S : Of(a) = Of(b) => a = b

-----------------------------------------------------------------------------
(* What the files say. *)

\* The profile hash covers sources and symbols, not the target.
Interface(k, t) ==
    [target |-> t, profile |-> k.profile, kernel |-> <<t, k.source>>,
     hash |-> <<k.source, k.symbols>>, symbols |-> k.symbols]

\* LanguagePackage::parse.  The first entry of a path counts.
EkiEntry(p) == First(p.artifacts, LAMBDA a : a.kind = "eki" /\ a.path = p.eki)
ManifestOK(p) ==
    LET artifacts == ToSet(p.artifacts)
    IN /\ p.targets # {} /\ {a.target : a \in artifacts} = p.targets
       /\ Cardinality({<<a.target, a.path>> : a \in artifacts}) = Len(p.artifacts)
       /\ \E a \in artifacts : a.kind = "eki" /\ a.path = p.eki
       /\ EkiEntry(p).sha = p.ekiSha

\* artifact_for_target prefers an EKI.
ArtifactFor(p, t) ==
    IF \E a \in ToSet(p.artifacts) : a.target = t /\ a.kind = "eki"
    THEN First(p.artifacts, LAMBDA a : a.target = t /\ a.kind = "eki")
    ELSE First(p.artifacts, LAMBDA a : a.target = t)

\* Mutant: the digest of the schema too.
PackageDigestOfAll(p) == [p EXCEPT !.artifacts = ToSet(p.artifacts)]

\* package_digest: all of the manifest but the digest of the schema, which has
\* the package digest in it.
PackageDigest(p) ==
    [p EXCEPT !.interfaceSha = Missing, !.artifacts = ToSet(p.artifacts)]

SchemaPackage(p) == [meta |-> p.meta, capabilities |-> p.requested]

Identity(p, t, hash) ==
    LET a == ArtifactFor(p, t)
    IN [artifact |-> <<a.target, a.path, a.kind>>, sha |-> a.sha,
        package |-> PackageDigest(p), interface |-> hash]
Unbound(i) ==
    [artifact |-> <<i.target>>, sha |-> Missing, package |-> Missing, interface |-> i.hash]

\* The outcome of validate_type_graph, see WireTypes.
ValidTypes(types) ==
    /\ \A n \in DOMAIN types : \A part \in ToSet(types[n].parts) : part.type \in DOMAIN types
    /\ \A S \in SUBSET DOMAIN types : S # {} =>
          \E n \in S : \A part \in ToSet(types[n].parts) : part.type \notin S

\* validate_operations.  A macro is the constant a wire name becomes in C.
ValidOperations(types, operations) ==
    /\ operations # {}
    /\ Distinct(operations, LAMBDA o : o.api)
    /\ Distinct(operations, LAMBDA o : o.wire)
    /\ Distinct(operations, LAMBDA o : o.macro)
    /\ \A o \in operations :
         /\ {o.request, o.response} \subseteq DOMAIN types /\ o.version # 0
         /\ o.limits = <<types[o.request].size, types[o.response].size>>

BridgeOK(b) ==
    /\ ValidTypes(b.types)
    /\ Cardinality(ToSet(b.operations)) = Len(b.operations)
    /\ ValidOperations(b.types, ToSet(b.operations))

\* validate_generated_namespaces.
NamesDiffer(types, operations) ==
    /\ \A n, m \in DOMAIN types : n # m => types[n].macros \cap types[m].macros = {}
    /\ \A n \in DOMAIN types, o \in operations : o.macro \notin types[n].macros

-----------------------------------------------------------------------------
(* operation_id. *)

\* Mutant: fields in their order, without their offsets.
PlaceOfLabel(part) == <<<<"label", part.label>>>>

PlaceOf(part) == <<<<"label", part.label>>, <<"offset", part.offset>>>>

\* append_type_fingerprint: a type, then its parts in place, the number of them
\* first.  Parts are the element of an array, the fields of a struct, the
\* representation of an enum; shape is what else a type has.
FingerprintOf(n, type, inner) ==
    <<<<"name", n>>, <<"kind", type.kind>>, <<"size", type.size>>,
      <<"shape", type.shape>>, <<"parts", Len(type.parts)>>>>
    \o FlattenSeq([i \in DOMAIN type.parts |->
                    PlaceOf(type.parts[i]) \o inner[type.parts[i].type]])

\* Of types as deep as there are types.
Fingerprint(types, name) ==
    LET upTo[d \in 0..Cardinality(DOMAIN types)] ==
          [n \in DOMAIN types |->
              IF d = 0 THEN <<>> ELSE FingerprintOf(n, types[n], upTo[d - 1])]
    IN upTo[Cardinality(DOMAIN types)][name]

OperationId(types, o) ==
    <<<<"api", o.api>>, <<"wire", o.wire>>, <<"version", o.version>>,
      <<"capability", o.capability>>, <<"limits", o.limits>>>>
    \o Fingerprint(types, o.request) \o Fingerprint(types, o.response)

-----------------------------------------------------------------------------
(* build_schema. *)

Allowed(o, symbols) ==
    o.api \in DOMAIN symbols /\ (o.capability # Missing => o.capability \in symbols[o.api].capabilities)

CanBuild(i, p, b) ==
    /\ p # Missing => i.target \in p.targets /\ p.profile = i.profile
    /\ \A o \in ToSet(b.operations) :
         /\ Allowed(o, i.symbols)
         /\ p # Missing /\ o.capability # Missing => o.capability \in p.requested

SchemaOperations(types, operations, symbols) ==
    {[operation |-> o, id |-> OperationId(types, o), symbol |-> symbols[o.api].abi] : o \in operations}

BuildSchema(i, p, b) ==
    [package |-> IF p = Missing THEN Missing ELSE SchemaPackage(p),
     target |-> i.target, profile |-> i.profile, kernel |-> i.kernel, hash |-> i.hash,
     identity |-> IF p = Missing THEN Unbound(i) ELSE Identity(p, i.target, i.hash),
     types |-> b.types, symbols |-> i.symbols,
     operations |-> SchemaOperations(b.types, ToSet(b.operations), i.symbols)]

-----------------------------------------------------------------------------
(* package-check. *)

Operations(s) == {entry.operation : entry \in s.operations}

ValidSchema(s) ==
    /\ ValidTypes(s.types) /\ ValidOperations(s.types, Operations(s))
    /\ \A entry \in s.operations :
         /\ entry.id = OperationId(s.types, entry.operation)
         /\ Allowed(entry.operation, s.symbols)
         /\ entry.symbol = s.symbols[entry.operation.api].abi
    /\ NamesDiffer(s.types, Operations(s))

SameBridge(b, s) ==
    /\ b.types = s.types
    /\ ToSet(b.operations) = Operations(s)
    /\ \A entry \in s.operations : entry.id = OperationId(b.types, entry.operation)

\* Mutant: the identity is not compared.
SamePackageByName(p, s) ==
    /\ s.package = SchemaPackage(p)
    /\ p.profile = s.profile /\ s.target \in p.targets

SamePackage(p, s) ==
    /\ s.package = SchemaPackage(p)
    /\ p.profile = s.profile /\ s.target \in p.targets
    /\ s.identity = Identity(p, s.target, s.hash)

\* parse_eki_image and validate_eki_binding.
Bound(image, s, t) == image.arch = t /\ image.profile = s.hash

\* verify_artifact_signature.
Signed(a, content, trusted) ==
    IF a.signature = Missing THEN trusted = Missing
    ELSE /\ trusted # Missing => a.signature.key = trusted
         /\ a.signature.over = content

-----------------------------------------------------------------------------
(* The commands.  Each file is read by a step of its own. *)

Generating == gen.pc # "idle"
IdleGen == [pc |-> "idle", interface |-> Missing, package |-> Missing, bridge |-> Missing]

GenerateInterface(t, bound) ==
    /\ ~Generating /\ generations < MaxGenerations
    /\ gen' = [IdleGen EXCEPT !.pc = IF bound THEN "package" ELSE "bridge",
                              !.interface = Interface(kernel, t)]
    /\ generations' = generations + 1
    /\ UNCHANGED <<files, check, moves, undisturbed>>

GeneratePackage ==
    /\ gen.pc = "package"
    /\ gen' = IF ManifestOK(package) THEN [gen EXCEPT !.pc = "bridge", !.package = package]
              ELSE IdleGen
    /\ UNCHANGED <<files, check, moves, generations, undisturbed>>

\* The schema is built before its file is opened for writing.
GenerateBridge ==
    /\ gen.pc = "bridge"
    /\ IF BridgeOK(bridge) /\ CanBuild(gen.interface, gen.package, bridge)
       THEN /\ gen' = [gen EXCEPT !.pc = "write", !.bridge = bridge]
            /\ schema' = Torn
            /\ undisturbed' = FALSE
       ELSE gen' = IdleGen /\ UNCHANGED <<schema, undisturbed>>
    /\ UNCHANGED <<kernel, package, bridge, stored, check, moves, generations>>

GenerateWrite ==
    /\ gen.pc = "write"
    /\ schema' = BuildSchema(gen.interface, gen.package, gen.bridge)
    /\ gen' = IdleGen
    /\ undisturbed' = FALSE
    /\ UNCHANGED <<kernel, package, bridge, stored, check, moves, generations>>

GenerateKilled ==
    /\ Generating
    /\ gen' = IdleGen
    /\ UNCHANGED <<files, check, moves, generations, undisturbed>>

IdleCheck == [pc |-> "idle", trusted |-> Missing, package |-> Missing, schema |-> Missing,
              bridge |-> Missing, index |-> 0]

Proceed(condition, next) ==
    check' = IF condition THEN next ELSE [check EXCEPT !.pc = "refused"]
Reading == UNCHANGED <<files, gen, moves, generations>>

CheckPackage(trusted) ==
    /\ check.pc = "idle"
    /\ check' = [IdleCheck EXCEPT !.pc = IF ManifestOK(package) THEN "interface" ELSE "refused",
                                  !.trusted = trusted, !.package = package]
    /\ undisturbed' = TRUE
    /\ Reading

CheckInterface ==
    /\ check.pc = "interface"
    /\ Proceed(/\ schema \notin {Missing, Torn} /\ schema = check.package.interfaceSha
               /\ ValidSchema(schema),
               [check EXCEPT !.pc = "bridge", !.schema = schema])
    /\ Reading /\ UNCHANGED undisturbed

CheckBridge ==
    /\ check.pc = "bridge"
    /\ Proceed(/\ bridge = check.package.bridgeSha /\ BridgeOK(bridge)
               /\ SameBridge(bridge, check.schema)
               /\ SamePackage(check.package, check.schema),
               [check EXCEPT !.pc = "eki", !.bridge = bridge])
    /\ Reading /\ UNCHANGED undisturbed

CheckEki ==
    /\ check.pc = "eki"
    /\ LET p == check.package IN
         Proceed(/\ stored[p.eki] = p.ekiSha
                 /\ EkiEntry(p).target = check.schema.target
                 /\ Bound(stored[p.eki], check.schema, check.schema.target),
                 [check EXCEPT !.pc = "artifacts", !.index = 1])
    /\ Reading /\ UNCHANGED undisturbed

CheckArtifact ==
    /\ check.pc = "artifacts"
    /\ LET a == check.package.artifacts[check.index] IN
         Proceed(/\ stored[a.path] = a.sha
                 /\ Signed(a, stored[a.path], check.trusted)
                 /\ a.kind = "eki" => Bound(stored[a.path], check.schema, a.target),
                 IF check.index = Len(check.package.artifacts)
                 THEN [check EXCEPT !.pc = "accepted"]
                 ELSE [check EXCEPT !.index = @ + 1])
    /\ Reading /\ UNCHANGED undisturbed

-----------------------------------------------------------------------------
(* The developer, who builds against the kernel as it is, edits, and enters *)
(* digests and signatures.                                                  *)

Image(k, t, code) == [arch |-> t, profile |-> Interface(k, t).hash, code |-> code]
Blob(code) == [arch |-> Missing, profile |-> Missing, code |-> code]

Develop ==
    /\ moves < MaxMoves /\ moves' = moves + 1
    /\ undisturbed' = FALSE
    /\ UNCHANGED <<gen, check, generations>>

UpdateKernel ==
    /\ \E k \in Kernels \ {kernel} : kernel' = k
    /\ Develop /\ UNCHANGED <<package, bridge, schema, stored>>

Rebuild ==
    /\ \E i \in DOMAIN package.artifacts, code \in Codes :
         LET a == package.artifacts[i]
         IN stored' = [stored EXCEPT ![a.path] =
                       IF a.kind = "eki" THEN Image(kernel, a.target, code) ELSE Blob(code)]
    /\ Develop /\ UNCHANGED <<kernel, package, bridge, schema>>

EditBridge ==
    /\ \E b \in Bridges \ {bridge} : bridge' = b
    /\ Develop /\ UNCHANGED <<kernel, package, schema, stored>>

\* A manifest with the digests of what the files have now, signed with a key.
Entered(m, key) ==
    [m EXCEPT !.ekiSha = stored[m.eki],
              !.artifacts = [i \in DOMAIN m.artifacts |->
                  LET a == m.artifacts[i]
                  IN [a EXCEPT !.sha = stored[a.path],
                               !.signature = IF key = Missing THEN Missing
                                             ELSE [key |-> key, over |-> stored[a.path]]]]]

EnterArtifacts ==
    /\ \E key \in Key \cup {Missing} : package' = Entered(package, key)
    /\ Develop /\ UNCHANGED <<kernel, bridge, schema, stored>>

EnterBridge ==
    /\ package' = [package EXCEPT !.bridgeSha = bridge]
    /\ Develop /\ UNCHANGED <<kernel, bridge, schema, stored>>

EnterInterface ==
    /\ package' = [package EXCEPT !.interfaceSha = schema]
    /\ Develop /\ UNCHANGED <<kernel, bridge, schema, stored>>

\* Another list of targets, artifacts or capabilities, with digests to be entered.
EditManifest ==
    /\ \E m \in Manifests :
         package' = [m EXCEPT !.bridgeSha = package.bridgeSha, !.interfaceSha = package.interfaceSha]
    /\ Develop /\ UNCHANGED <<kernel, bridge, schema, stored>>

\* A package that has been built and entered, and has its schema, if there can be
\* one.
PackageInit ==
    /\ kernel \in Kernels /\ bridge \in Bridges
    /\ \E m \in Manifests, key \in Key, code \in Codes :
         LET entered == [Entered(m, key) EXCEPT !.bridgeSha = bridge]
             interface == Interface(kernel, EkiEntry(m).target)
         IN /\ stored = [path \in Path |->
                    IF \E a \in ToSet(m.artifacts) : a.path = path /\ a.kind = "eki"
                    THEN Image(kernel, First(m.artifacts, LAMBDA a : a.path = path).target, code)
                    ELSE Blob(code)]
            /\ schema = IF BridgeOK(bridge) /\ CanBuild(interface, entered, bridge)
                        THEN BuildSchema(interface, entered, bridge) ELSE Missing
            /\ package = [entered EXCEPT !.interfaceSha = schema]
    /\ gen = IdleGen /\ check = IdleCheck
    /\ moves = 0 /\ generations = 0 /\ undisturbed = TRUE

Generate ==
    \/ \E t \in Target, bound \in BOOLEAN : GenerateInterface(t, bound)
    \/ GeneratePackage \/ GenerateBridge \/ GenerateWrite \/ GenerateKilled
Check ==
    \/ \E trusted \in Key \cup {Missing} : CheckPackage(trusted)
    \/ CheckInterface \/ CheckBridge \/ CheckEki \/ CheckArtifact
Edit == \/ UpdateKernel \/ Rebuild \/ EditBridge \/ EditManifest
        \/ EnterArtifacts \/ EnterBridge \/ EnterInterface

PackageNext == Generate \/ Check \/ Edit
PackageSpec == PackageInit /\ [][PackageNext]_packageVars

-----------------------------------------------------------------------------
(* Properties. *)

\* An accepted package is of one piece, whatever was edited while the check read
\* it: its schema is what the commands make of its manifest, its bridge and one
\* kernel's interface, its images were built against that interface, and all of
\* it is signed with the trusted key, if one was given.
AcceptedIsConsistent ==
    check.pc = "accepted" =>
        LET p == check.package
            s == check.schema
        IN /\ \E k \in Kernels :
                /\ CanBuild(Interface(k, s.target), p, check.bridge)
                /\ s = BuildSchema(Interface(k, s.target), p, check.bridge)
           /\ \A a \in ToSet(p.artifacts) :
                /\ a.kind = "eki" => \E k \in Kernels, code \in Codes :
                        a.sha = Image(k, a.target, code) /\ Interface(k, s.target).hash = s.hash
                /\ check.trusted # Missing => a.signature = [key |-> check.trusted, over |-> a.sha]

\* A package made by the documented steps in their order: images built and
\* entered, the schema generated for the image's target, while the manifest had no digest of
\* one, and entered.
Releasable ==
    /\ ManifestOK(package) /\ BridgeOK(bridge) /\ NamesDiffer(bridge.types, ToSet(bridge.operations))
    /\ package.bridgeSha = bridge /\ package.interfaceSha = schema
    /\ \E k \in Kernels :
         /\ CanBuild(Interface(k, EkiEntry(package).target), package, bridge)
         /\ schema = BuildSchema(Interface(k, EkiEntry(package).target),
                                 [package EXCEPT !.interfaceSha = Missing], bridge)
         /\ \A a \in ToSet(package.artifacts) :
              /\ a.sha = stored[a.path]
              /\ a.kind = "eki" => \E code \in Codes : a.sha = Image(k, a.target, code)
              /\ \E key \in Key : a.signature = [key |-> key, over |-> a.sha]
                                /\ check.trusted \in {key, Missing}

\* Such a package is accepted: what is generated is what is checked, and entering
\* the digest of the schema does not make the schema stale.
ReleasableIsAccepted == check.pc = "refused" /\ undisturbed => ~Releasable

\* A type with all that it is made of.
LayoutOf(n, type, inner) ==
    [name |-> n, kind |-> type.kind, size |-> type.size, shape |-> type.shape,
     parts |-> [i \in DOMAIN type.parts |->
         [label |-> type.parts[i].label, offset |-> type.parts[i].offset,
          layout |-> inner[type.parts[i].type]]]]

Layout(types, name) ==
    LET upTo[d \in 0..Cardinality(DOMAIN types)] ==
          [n \in DOMAIN types |-> IF d = 0 THEN Missing ELSE LayoutOf(n, types[n], upTo[d - 1])]
    IN upTo[Cardinality(DOMAIN types)][name]

\* An operation of an old schema and one of the bridge as it is now have the same
\* id just when they agree on the call and on every byte of both layouts.
SameIdSameLayout ==
    schema \notin {Missing, Torn} /\ BridgeOK(bridge) =>
        \A entry \in schema.operations, o \in ToSet(bridge.operations) :
            LET old == entry.operation IN
            entry.id = OperationId(bridge.types, o)
            <=> /\ <<old.api, old.wire, old.version, old.capability, old.limits>>
                     = <<o.api, o.wire, o.version, o.capability, o.limits>>
                /\ Layout(schema.types, old.request) = Layout(bridge.types, o.request)
                /\ Layout(schema.types, old.response) = Layout(bridge.types, o.response)

=============================================================================
