------------------------- MODULE CatalogResolution -------------------------
(***************************************************************************)
(* What a catalog says (internal/image/catalog.go, reference.go): which    *)
(* catalogs are accepted, and which artifact an image reference stands     *)
(* for.  A version key is the sequence of its dot-separated components, as *)
(* they are written; Number gives the value of a component, NotANumber for *)
(* one with letters.  A record of an absent choice is Unset.  The      *)
(* metadata of an artifact (digest, size, upstream, status, its own boot   *)
(* mode) is left out.                                                      *)
(***************************************************************************)
EXTENDS Integers, Sequences, FiniteSets

CONSTANTS Drafts,     \* catalogs somebody may write
          Selectors,  \* version selectors somebody may ask for
          Number      \* component -> its value

Unset == "unset"
NotANumber == -1
Boots == {"bios", "uefi"}
Arches == {"amd64", "arm64"}

\* What JSON and strings.ToLower give: finitely many versions, names and keys
\* that are not empty, and one lowered form of every alias.
IsCatalog(c) ==
  /\ Unset \notin DOMAIN c.images
  /\ \A name \in DOMAIN c.images :
       /\ IsFiniteSet(DOMAIN c.images[name].versions)
       /\ DOMAIN c.images[name].versions \subseteq Seq(DOMAIN Number) \ {<<>>}
  /\ \A name, other \in DOMAIN c.images :
       \A a \in c.images[name].aliases, b \in c.images[other].aliases :
         a.written = b.written => a.lower = b.lower

ASSUME DraftsAssumption ==
  /\ \A c \in Drafts : IsCatalog(c)
  /\ \A n \in DOMAIN Number : Number[n] \in Nat \cup {NotANumber}

\* --- version keys ---------------------------------------------------------
Numeric(version) == \A i \in DOMAIN version : Number[version[i]] # NotANumber

\* The value of a component, 0 beyond the end.
Component(version, i) == IF i \in DOMAIN version THEN Number[version[i]] ELSE 0

\* compareNumericVersions > 0.
Newer(v, w) ==
  \E i \in DOMAIN v \cup DOMAIN w :
     /\ Component(v, i) > Component(w, i)
     /\ \A j \in 1 .. i - 1 : Component(v, j) = Component(w, j)

\* The values as they are, so that 9.7 and 9.7.0 differ.
CanonicalKeyUntrimmed(version) == [i \in DOMAIN version |-> Number[version[i]]]

\* canonicalNumericKey: the values without trailing zeros.
CanonicalKey(version) ==
  LET kept == {i \in DOMAIN version : i = 1 \/ \E j \in DOMAIN version : j >= i /\ Number[version[j]] # 0}
  IN [i \in kept |-> Number[version[i]]]

\* --- accepted catalogs ----------------------------------------------------
\* Validate: names and aliases are distinct once lowered, channels lead to
\* versions, and no two versions of an image rank alike.
LoweredAliases(image) == {alias.lower : alias \in image.aliases}

RankedApart(image) ==
  \A v, w \in DOMAIN image.versions :
     v # w /\ Numeric(v) /\ Numeric(w) => CanonicalKey(v) # CanonicalKey(w)

ValidImage(c, name) ==
  LET image == c.images[name]
  IN /\ DOMAIN image.versions # {}
     /\ \A channel \in DOMAIN image.channels : image.channels[channel] \in DOMAIN image.versions
     /\ c.channel \in DOMAIN image.channels
     /\ \A other \in DOMAIN c.images :
          LoweredAliases(image) \cap ({other} \cup IF other = name THEN {} ELSE LoweredAliases(c.images[other])) = {}
     /\ Cardinality(LoweredAliases(image)) = Cardinality(image.aliases)
     /\ RankedApart(image)
     /\ \A v \in DOMAIN image.versions :
          /\ DOMAIN image.versions[v] # {} /\ DOMAIN image.versions[v] \subseteq Arches
          /\ image.boot \in Boots \cup {Unset}

Valid(c) ==
  /\ c.image \in DOMAIN c.images
  /\ c.boot \in Boots
  /\ \A name \in DOMAIN c.images : ValidImage(c, name)

\* --- references -----------------------------------------------------------
\* canonicalImage: the lowered reference is an image, or else it is written
\* exactly like an alias.
Named(c, word) ==
  IF word \in DOMAIN c.images THEN {word}
  ELSE {name \in DOMAIN c.images : \E alias \in c.images[name].aliases : alias.written = word}

Matching(versions, selector) ==
  {v \in versions : Len(v) > Len(selector) /\ SubSeq(v, 1, Len(selector)) = selector}

\* resolveVersion: the exact key, or else the newest numeric release below the
\* selector; empty when nothing matches, when a match cannot be ranked and
\* when two rank alike.
Resolved(versions, selector) ==
  LET matching == Matching(versions, selector)
      best == {v \in matching : \A w \in matching : ~Newer(w, v)}
  IN IF selector \in versions THEN {selector}
     ELSE IF ~Numeric(selector) \/ (\E v \in matching : ~Numeric(v)) \/ Cardinality(best) # 1 THEN {}
     ELSE best

\* Entry: a version selector wins over a channel, which defaults.
Release(c, name, ref) ==
  LET image == c.images[name]
      channel == IF ref.channel = Unset THEN c.channel ELSE ref.channel
  IN IF ref.version # <<>> THEN Resolved(DOMAIN image.versions, ref.version)
     ELSE IF channel \in DOMAIN image.channels THEN {image.channels[channel]} ELSE {}

EntryOf(c, name, key, arch) ==
  LET image == c.images[name]
  IN [name |-> name, version |-> key, arch |-> arch, artifact |-> image.versions[key][arch],
      boot |-> IF image.boot = Unset THEN c.boot ELSE image.boot]

EntriesFor(c, ref, arch) ==
  UNION {{EntryOf(c, name, key, arch) :
            key \in {v \in Release(c, name, ref) \cap DOMAIN c.images[name].versions :
                       arch \in DOMAIN c.images[name].versions[v]}} :
         name \in Named(c, IF ref.image = Unset THEN c.image ELSE ref.image)}

\* Entries: every version by its exact reference; one that does not resolve is
\* skipped.
Entries(c) ==
  UNION {UNION {EntriesFor(c, [image |-> name, channel |-> Unset, version |-> v], arch) :
                  v \in DOMAIN c.images[name].versions, arch \in Arches} : name \in DOMAIN c.images}

\* ParseReference: nothing, an image, an image and a channel, or an image and
\* a version.
References(c) ==
  LET words == DOMAIN c.images \cup UNION {LoweredAliases(c.images[n]) : n \in DOMAIN c.images}
      channels == UNION {DOMAIN c.images[n].channels : n \in DOMAIN c.images}
  IN [image : {Unset}, channel : {Unset}, version : {<<>>}]
     \cup [image : words, channel : {Unset}, version : {<<>>} \cup Selectors]
     \cup [image : words, channel : channels, version : {<<>>}]

\* --- properties -----------------------------------------------------------
\* The reference order: versions of up to three components below 100 as numbers.
Short(version) == Len(version) <= 3 /\ \A i \in DOMAIN version : Number[version[i]] < 100
Rank(version) == 10000 * Component(version, 1) + 100 * Component(version, 2) + Component(version, 3)

\* Every reference means one artifact at most, and one that prune finds among
\* Entries (service.go 245-247).
OneMeaning(c) ==
  LET listed == Entries(c)
  IN \A ref \in References(c), arch \in Arches :
       Cardinality(EntriesFor(c, ref, arch)) <= 1 /\ EntriesFor(c, ref, arch) \subseteq listed

\* A numeric selector gives the newest of the releases below it, by comparison
\* and by rank.
NewestSelected(c) ==
  \A name \in DOMAIN c.images : \A selector \in Selectors \ DOMAIN c.images[name].versions :
    LET matching == Matching(DOMAIN c.images[name].versions, selector)
    IN matching # {} /\ (\A v \in matching \cup {selector} : Numeric(v))
         => \E v \in matching : /\ Resolved(DOMAIN c.images[name].versions, selector) = {v}
                                /\ \A w \in matching \ {v} :
                                     Newer(v, w) /\ (Short(v) /\ Short(w) => Rank(v) > Rank(w))

Clear(c) == OneMeaning(c) /\ NewestSelected(c)

Ambiguous == {c \in Drafts : Valid(c) /\ ~Clear(c)}
=============================================================================
