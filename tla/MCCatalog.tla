----------------------------- MODULE MCCatalog -----------------------------
(* Two commands, two releases of farrow, four catalogs of two revisions,    *)
(* one of them invalid.  Catalogs may give one image any of seven version   *)
(* keys, next to an image with one version and a choice of aliases.         *)
EXTENDS CatalogRepo, TLC

Good(rev) == [rev |-> rev, text |-> "good"]
MCCatalogs == {Good(1), Good(2), [rev |-> 2, text |-> "fork"], [rev |-> 2, text |-> "clash"]}
MCSigKey == [s1 |-> "k", s2 |-> "k"]
MCSignatures == {"s1", "s2"}
MCSigned == (MCCatalogs \X {"s1"}) \cup {<<Good(2), "s2">>}
MCEmbedded == <<Good(1), Good(2)>>
MCSymmetry == Permutations(Procs)

MCNumber == ("9" :> 9) @@ ("7" :> 7) @@ ("07" :> 7) @@ ("10" :> 10) @@ ("0" :> 0) @@ ("1" :> 1) @@ ("rc" :> -1)
Keyed == {<<"9">>, <<"9", "7">>, <<"9", "10">>, <<"9", "10", "0">>, <<"9", "07">>, <<"9", "rc">>, <<"9", "10", "1">>}
MCSelectors == Keyed \cup {<<"rc">>, <<"7">>}

Both == [amd64 |-> "x", arm64 |-> "y"]
Draft(versions, latest, aliases, arches) ==
  [image |-> "el", channel |-> "stable", boot |-> "uefi",
   images |-> [el |-> [aliases |-> {}, boot |-> "bios", channels |-> [stable |-> latest],
                       versions |-> [v \in versions |-> arches]],
               deb |-> [aliases |-> aliases, boot |-> "unset", channels |-> [stable |-> <<"9">>, testing |-> <<"9">>],
                        versions |-> [v \in {<<"9">>} |-> Both]]]]
Alias(written, lower) == [written |-> written, lower |-> lower]
MCDrafts ==
  {Draft(versions, latest, aliases, arches) :
     versions \in SUBSET Keyed, latest \in {<<"9">>, <<"9", "10">>},
     aliases \in {{}, {Alias("d", "d")}, {Alias("D", "d")}, {Alias("el", "el")}},
     arches \in {Both, [amd64 |-> "x"]}}
MCContent ==
  [good |-> Draft({<<"9">>, <<"9", "7">>}, <<"9">>, {Alias("d", "d")}, Both),
   fork |-> Draft({<<"9">>, <<"9", "10">>}, <<"9", "10">>, {}, Both),
   clash |-> Draft({<<"9", "10">>, <<"9", "10", "0">>}, <<"9", "10">>, {}, Both)]
=============================================================================
