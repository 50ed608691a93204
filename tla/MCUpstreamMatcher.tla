------------------------- MODULE MCUpstreamMatcher -------------------------
(***************************************************************************)
(* Spec scenario 2 and its neighbours: libssl1.1 built from openssl with   *)
(* no upstream version, libssl-dev whose upstream declares an older        *)
(* version than the binary, and a binary whose upstream version is         *)
(* "UNKNOWN", beside the openssl package itself (the upstream identity of *)
(* both libssl packages).  The debian 11 record "<1.1.1n-0+deb11u4" is     *)
(* reduced to "<2".                                                        *)
(***************************************************************************)
EXTENDS UpstreamMatcher

CONSTANTS D11, NoDist, NoQual, Bad

Deb11(n, v) == [name |-> n, version |-> v, distro |-> D11, qualifier |-> NoQual]

Libssl == Deb11("libssl1.1", <<"1">>)
LibsslDev == Deb11("libssl-dev", <<"3">>)
Zlib == Deb11("zlib1g", <<"1">>)
\* The source package installed too: libssl1.1's upstream identity.
Openssl == Deb11("openssl", <<"1">>)

MCPackages == {Libssl, LibsslDev, Zlib, Openssl}
MCUpstreamsOf ==
  [p \in MCPackages |->
     CASE p = Libssl    -> {[name |-> "openssl", version |-> <<>>]}
       [] p = LibsslDev -> {[name |-> "openssl", version |-> <<"1">>]}
       [] p = Zlib      -> {[name |-> "zlib", version |-> <<"U", "N", "K", "N", "O", "W", "N">>]}
       [] p = Openssl   -> {}]
MCVulns ==
  {[id |-> "CVE-2022-3602", pkgName |-> "openssl", distro |-> D11, qualifier |-> NoQual,
    constraint |-> {{[op |-> "<", ver |-> 2]}}],
   [id |-> "CVE-2023-1", pkgName |-> "zlib", distro |-> D11, qualifier |-> NoQual,
    constraint |-> {{[op |-> ">=", ver |-> 0]}}],
   [id |-> "CVE-2023-2", pkgName |-> "libssl-dev", distro |-> D11, qualifier |-> NoQual,
    constraint |-> {{[op |-> ">", ver |-> 2]}}]}
MCDistros == {D11}
=============================================================================
