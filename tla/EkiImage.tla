------------------------------ MODULE EkiImage ------------------------------
(***************************************************************************)
(* The EKI images of main.rs: packed from an ELF file (pack_elf_project)   *)
(* or for metadata alone, hashed, signed, verified, and bundled as the     *)
(* variants of one file.                                                   *)
(*                                                                         *)
(* A digest is modelled as what it is taken over, a signature as its key   *)
(* and message, and the content of a block as one value.  The parser, the  *)
(* trust store and the selection of a variant belong to the elm crate and  *)
(* are modelled as main.rs uses them.  Files change between two commands:  *)
(* they are damaged, or exchanged, or made by other tools.                 *)
(***************************************************************************)
EXTENDS Naturals, Sequences, SequencesExt

CONSTANTS
    EkiFile,         \* the names of the image files
    Elf,             \* ELF files: [id, target, parts], parts the optional blocks it leads to
    Interface,       \* interface manifests: [profile, target]
    Signer,          \* signing keys
    Priority,        \* priorities of variants
    Changed,         \* the kinds of blocks that get changed
    MaxVariants,     \* ELM_EKI_MAX_VARIANTS
    MaxEkiSteps      \* bound on the commands and changes

ASSUME ImageAssumption ==
    /\ \A i \in Interface : i = [profile |-> i.profile, target |-> i.target]
    /\ MaxVariants \in Nat

VARIABLES
    images,    \* images[f]: the image in the file f
    bundle,    \* the file that image-bundle writes
    given,     \* the variants that the bundle was made of
    signed,    \* who has signed which program
    ekiSteps   \* commands and changes so far

imageVars == <<images, bundle, given, signed, ekiSteps>>

NoImage == [arch |-> "none", blocks |-> <<>>, hash |-> <<>>, whole |-> FALSE]
Block(kind, body, mem) == [kind |-> kind, body |-> body, mem |-> mem]
Has(blocks, kind) == \E i \in DOMAIN blocks : blocks[i].kind = kind
FindBlock(blocks, kind) == blocks[CHOOSE i \in DOMAIN blocks :
                              blocks[i].kind = kind /\ \A j \in 1 .. (i - 1) : blocks[j].kind # kind]

\* The header hash is taken with its own bytes zeroed: over the arch and the blocks.
EkiWithHash(arch, blocks) ==
    [arch |-> arch, blocks |-> blocks, hash |-> <<arch, blocks>>, whole |-> TRUE]
HashValid(image) == image.hash = <<image.arch, image.blocks>>

-----------------------------------------------------------------------------
(* The elm crate. *)

\* parse_eki_image: one image, not a bundle, with the blocks it must have once.
Parses(image) ==
    /\ image.whole /\ ~Has(image.blocks, "variant_directory")
    /\ Has(image.blocks, "manifest")
    /\ \A i, j \in DOMAIN image.blocks :
          image.blocks[i].kind \in {"manifest", "fingerprint", "proof"}
          /\ image.blocks[j].kind = image.blocks[i].kind => i = j
    /\ Has(image.blocks, "proof") => FindBlock(image.blocks, "proof").body.form = "proof"

\* canonical_ebi_digest: what would be loaded, without the proof about it, which
\* comes after all of it.
Program(image) ==
    <<image.arch, Restrict(image.blocks, {i \in DOMAIN image.blocks : image.blocks[i].kind # "proof"})>>

\* unsigned_message of a proof, and trust.verify with the embedded key.
Message(proof, fingerprint) == <<proof.source, proof.subject, proof.signer, fingerprint>>
TrustVerifies(image, proof, fingerprint) ==
    /\ proof.subject = Program(image)
    /\ proof.signature = <<proof.signer, Message(proof, fingerprint)>>

-----------------------------------------------------------------------------
(* Packing. *)

\* The blocks pack_elf_project pushes, in that order; some of them only where
\* the metadata has something for them.
If(elf, kind) == IF kind \in elf.parts THEN <<kind>> ELSE <<>>
Layout(elf) ==
    <<"manifest", "fingerprint">> \o If(elf, "menu") \o If(elf, "dependencies")
    \o If(elf, "extension_points") \o If(elf, "extensions") \o If(elf, "kernel_mixins")
    \o <<"segments", "segment", "imports", "api_compatibility">>
    \o If(elf, "exports") \o If(elf, "providers") \o <<"symbol_locations", "relocations">>

\* A segment is larger in memory than in the file, where it has zeroed data.
PackedBlock(kind, elf, interface) ==
    CASE kind = "fingerprint" -> Block(kind, [form |-> elf.target, profile |-> interface.profile], "file")
      [] kind = "segment"     -> Block(kind, [form |-> "code", id |-> elf.id], "larger")
      [] OTHER                -> Block(kind, [form |-> kind, id |-> elf.id], "file")

PackedElf(elf, interface) ==
    EkiWithHash(elf.target,
                [i \in DOMAIN Layout(elf) |-> PackedBlock(Layout(elf)[i], elf, interface)])

Metadata ==
    EkiWithHash("any", <<Block("manifest", [form |-> "manifest", id |-> 0], "file"),
                         Block("fingerprint", [form |-> "any", profile |-> "none"], "file"),
                         Block("lifecycle_hooks", [form |-> "hooks", id |-> 0], "file")>>)

More == ekiSteps < MaxEkiSteps /\ ekiSteps' = ekiSteps + 1

\* pack-elf, with the interface of the target that is active in the project.
PackElf(f) ==
    /\ More
    /\ \E elf \in Elf, interface \in Interface :
          /\ interface.target = elf.target
          /\ Parses(PackedElf(elf, interface))
          /\ images' = [images EXCEPT ![f] = PackedElf(elf, interface)]
    /\ UNCHANGED <<bundle, given, signed>>

PackMetadata(f) ==
    /\ More
    /\ images' = [images EXCEPT ![f] = Metadata]
    /\ UNCHANGED <<bundle, given, signed>>

\* image-hash: of whatever the blocks are now.
Rehash(f, g) ==
    /\ More /\ images[f].whole
    /\ images' = [images EXCEPT ![g] = EkiWithHash(images[f].arch, images[f].blocks)]
    /\ UNCHANGED <<bundle, given, signed>>

-----------------------------------------------------------------------------
(* Signing and verifying. *)

\* Mutant: the proof is appended to the blocks, also when there is one.
PutProofLast(blocks, body) == Append(blocks, Block("proof", body, "file"))

\* The proof takes the place of the one there is, or comes last.
PutProof(blocks, body) ==
    IF Has(blocks, "proof")
    THEN [i \in DOMAIN blocks |-> IF blocks[i].kind = "proof" THEN Block("proof", body, "file") ELSE blocks[i]]
    ELSE Append(blocks, Block("proof", body, "file"))

Zeros == [form |-> "zeros"]

\* sha256_with_zeroed_ranges over the image: the header hash and the proof are zero.
SourceDigest(image) == <<image.arch, PutProof(image.blocks, Zeros)>>

\* sign_eki_image: the proof of an image with a placeholder where it will be.
ProofOf(image, signer) ==
    LET unsigned == [form |-> "proof", signer |-> signer, subject |-> Program(image),
                     source |-> SourceDigest(EkiWithHash(image.arch, PutProof(image.blocks, Zeros)))]
        message == Message(unsigned, FindBlock(image.blocks, "fingerprint").body)
    IN  [form |-> "proof", signer |-> signer, subject |-> unsigned.subject,
         source |-> unsigned.source, signature |-> <<signer, message>>]

SignedImage(image, signer) == EkiWithHash(image.arch, PutProof(image.blocks, ProofOf(image, signer)))

CanSign(image) == Parses(image) /\ Has(image.blocks, "fingerprint")

\* The checks of sign_eki_image on its own result.
SelfCheck(image) ==
    SourceDigest(image) = FindBlock(image.blocks, "proof").body.source /\ Parses(image)

\* image-sign.
Sign(f, g, signer) ==
    /\ More /\ CanSign(images[f])
    /\ LET result == SignedImage(images[f], signer) IN
          /\ SelfCheck(result)
          /\ images' = [images EXCEPT ![g] = result]
          /\ signed' = signed \cup {<<signer, Program(images[f])>>}
    /\ UNCHANGED <<bundle, given>>

\* Mutant: the key that the proof names is taken for its signature.
VerifiesUnsigned(image) ==
    /\ image.whole /\ HashValid(image) /\ Parses(image)
    /\ Has(image.blocks, "proof") /\ Has(image.blocks, "fingerprint")

\* image-verify.
Verifies(image) ==
    /\ image.whole /\ HashValid(image) /\ Parses(image)
    /\ Has(image.blocks, "proof") /\ Has(image.blocks, "fingerprint")
    /\ TrustVerifies(image, FindBlock(image.blocks, "proof").body,
                     FindBlock(image.blocks, "fingerprint").body)

-----------------------------------------------------------------------------
(* Bundles. *)

\* Mutant: a profile may be given twice with one priority.
RepeatsNothing(variants) == FALSE

\* cmd_bundle: a profile, target and priority are given twice.
Repeats(variants) ==
    \E i, j \in DOMAIN variants :
        i # j /\ variants[i].interface = variants[j].interface /\ variants[i].priority = variants[j].priority

\* What write_variant_bundle writes for the i-th variant; the directory is block 0.
Record(variants, i) ==
    [block |-> i, arch |-> variants[i].image.arch, priority |-> variants[i].priority,
     profile |-> variants[i].interface.profile, digest |-> variants[i].image]

BundleOf(variants) ==
    LET records == [i \in DOMAIN variants |-> Record(variants, i)]
        blocks == [i \in DOMAIN variants |-> Block("variant_image", variants[i].image, "file")]
    IN  EkiWithHash("any", <<Block("variant_directory", records, "file")>> \o blocks)

\* parse_eki_image_for (the elm crate): the records for a kernel, and their images.
Matching(file, arch, profile) ==
    {r \in ToSet(file.blocks[1].body) : r.arch = arch /\ r.profile = profile}
VariantOf(file, r) == file.blocks[r.block + 1].body
Selectable(file, variant) ==
    \E r \in Matching(file, variant.image.arch, variant.interface.profile) :
        /\ \A other \in Matching(file, r.arch, r.profile) : other.priority <= r.priority
        /\ VariantOf(file, r) = r.digest /\ Parses(VariantOf(file, r))

\* image-bundle: every variant is an image for the target of its profile.
\* (Nothing is looked at after a bundle, which has copies of all it needs.)
WriteBundle(variants) ==
    /\ ekiSteps < MaxEkiSteps /\ ekiSteps' = MaxEkiSteps
    /\ variants # <<>> /\ Len(variants) <= MaxVariants
    /\ \A i \in DOMAIN variants :
          Parses(variants[i].image) /\ variants[i].interface.target = variants[i].image.arch
    /\ ~Repeats(variants)
    /\ \A i \in DOMAIN variants : Selectable(BundleOf(variants), variants[i])
    /\ bundle' = BundleOf(variants) /\ given' = variants
    /\ UNCHANGED <<images, signed>>

Variant == [interface : Interface, image : {images[f] : f \in EkiFile}, priority : Priority]

-----------------------------------------------------------------------------
(* What happens to files. *)

\* Proofs that keep a signature and claim something else.
Reassigned(f) ==
    LET proofs == {images[f].blocks[i].body : i \in {i \in DOMAIN images[f].blocks :
                       images[f].blocks[i].kind = "proof" /\ images[f].blocks[i].body.form = "proof"}}
    IN  {[form |-> "proof", signer |-> signer, subject |-> Program(images[f]),
          source |-> p.source, signature |-> p.signature] : signer \in Signer, p \in proofs}

\* A block is changed; the hash is removed; the file is cut short, also by a
\* command that is killed while it writes; a proof is taken from another file,
\* or made out to another key or program.
ChangeFile(f) ==
    /\ More /\ images[f].whole
    /\ \E image \in
          {[images[f] EXCEPT !.blocks[i].body = [form |-> "changed", from |-> images[f].blocks[i].body]] :
               i \in {i \in DOMAIN images[f].blocks : images[f].blocks[i].kind \in Changed}}
          \cup {[images[f] EXCEPT !.hash = <<>>], [images[f] EXCEPT !.whole = FALSE]}
          \cup {[images[f] EXCEPT !.blocks = PutProof(images[f].blocks, FindBlock(images[g].blocks, "proof").body)] :
                    g \in {g \in EkiFile : Has(images[g].blocks, "proof")}}
          \cup {[images[f] EXCEPT !.blocks = PutProof(images[f].blocks, body)] : body \in Reassigned(f)} :
          images' = [images EXCEPT ![f] = image]
    /\ UNCHANGED <<bundle, given, signed>>

ImageInit ==
    /\ images = [f \in EkiFile |-> NoImage] /\ bundle = NoImage
    /\ given = <<>> /\ signed = {} /\ ekiSteps = 0

ImageNext ==
    \/ \E f \in EkiFile : PackElf(f) \/ PackMetadata(f) \/ ChangeFile(f)
    \/ \E f, g \in EkiFile : Rehash(f, g)
    \/ \E f, g \in EkiFile, signer \in Signer : Sign(f, g, signer)
    \/ \E n \in 1 .. MaxVariants : \E variants \in [1 .. n -> Variant] : WriteBundle(variants)

ImageSpec == ImageInit /\ [][ImageNext]_imageVars

-----------------------------------------------------------------------------
(* Properties. *)

\* sign_eki_image: an image that can be read can be signed, also one that was
\* signed before, whoever signed it and whatever happened to it since, and
\* image-verify accepts the result: the digest that is taken before the proof is
\* known is the one that is found after.
SigningWorks ==
    \A f \in EkiFile : CanSign(images[f]) =>
        \A signer \in Signer :
            SelfCheck(SignedImage(images[f], signer)) /\ Verifies(SignedImage(images[f], signer))

\* cmd_verify: what is accepted was signed by the one whose key it names, as it
\* is now, whatever files were changed, hashed again or given another's proof.
VerifiedWasSigned ==
    \A f \in EkiFile : Verifies(images[f]) =>
        <<FindBlock(images[f].blocks, "proof").body.signer, Program(images[f])>> \in signed

\* cmd_bundle: a kernel gets an image that was given for its profile, and there
\* is no second one that it could get as well.
BundleSelects ==
    \A i \in DOMAIN given :
        LET mine == Matching(bundle, given[i].image.arch, given[i].interface.profile) IN
        /\ \A r, other \in mine : r.priority = other.priority => r = other
        /\ \E r \in mine : r.priority = given[i].priority /\ VariantOf(bundle, r) = given[i].image
        /\ \A r \in mine : \E j \in DOMAIN given :
              given[j].interface = given[i].interface /\ given[j].image = VariantOf(bundle, r)

-----------------------------------------------------------------------------
(* The inductive invariant. *)

IsBlock(b) == b = Block(b.kind, b.body, b.mem)
AreBlocks(blocks) ==
    /\ blocks \in Seq({blocks[i] : i \in DOMAIN blocks})
    /\ \A i \in DOMAIN blocks : IsBlock(blocks[i])
IsImage(image) ==
    /\ image = [arch |-> image.arch, blocks |-> image.blocks, hash |-> image.hash, whole |-> image.whole]
    /\ AreBlocks(image.blocks)

ImagesOK == images = [f \in EkiFile |-> images[f]] /\ \A f \in EkiFile : IsImage(images[f])

\* Whose proof it was and of which program, according to its signature; what
\* the proof says of either now is another matter.
Backed(proof, who) == proof.form = "proof" => <<proof.signature[1], proof.signature[2][2]>> \in who

ProofsBacked(image, who) ==
    \A i \in DOMAIN image.blocks : image.blocks[i].kind = "proof" => Backed(image.blocks[i].body, who)

\* The bundle is of what it was made of.
BundleInv ==
    given # <<>> =>
        /\ bundle = BundleOf(given) /\ ~Repeats(given)
        /\ \E n \in Nat : given = [i \in 1 .. n |-> given[i]]
        /\ \A i \in DOMAIN given :
              given[i].interface \in Interface /\ given[i].interface.target = given[i].image.arch

ImageInv == ImagesOK /\ \A f \in EkiFile : ProofsBacked(images[f], signed)
=============================================================================
