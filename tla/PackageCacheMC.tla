---------------------------- MODULE PackageCacheMC ----------------------------
(* PackageCache for TLC: two declared files and the archives that matter.  *)
EXTENDS PackageCache

Member(n, d) == [name |-> n, data |-> d]

\* A complete archive, one that has a member twice, one that lacks a member, one
\* with a member refused on sight, and one whose content contradicts the manifest
\* (the catalogue pins both digests).
MCArchives ==
    LET whole == <<Member("manifest", "good"), Member("kernel", "good")>> IN
    { whole,
      whole \o Tail(whole),
      Tail(whole),
      <<Member(Foreign, "good")>> \o whole,
      <<whole[1], Member("kernel", "bad")>> }

\* A complete bundle; edits then make it bad, incomplete, or good again.
MCBundles == {[n \in Names |-> "good"]}
===============================================================================
