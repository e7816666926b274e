---------------------------- MODULE MCHostProxy ----------------------------
(***************************************************************************)
(* TLC instance of HostProxy: a plain host, a wildcard host with a longer  *)
(* location, and one that redirects to https; a page that is cached, asked *)
(* for over https under the name of the hosts and over http under one that *)
(* ends with it.                                                           *)
(***************************************************************************)
EXTENDS HostProxy, TLC

Form(wild, location, scheme, auto, targets) ==
  [wild |-> wild, name |-> "x", location |-> location, scheme |-> scheme,
   auto_https |-> auto, targets |-> targets]

Plain == Form(FALSE, <<>>, "all", FALSE, <<"a", "b">>)
Wild == Form(TRUE, <<"p">>, "all", FALSE, <<"a">>)
Redirect == Form(FALSE, <<"p">>, "https", TRUE, <<"b">>)

Request(scheme, name, path) ==
  [scheme |-> scheme, name |-> name, path |-> path, get |-> TRUE]

MCForms == {Plain, Wild, Redirect}
MCUploads == {<<[id |-> 1, form |-> Plain], [id |-> 2, form |-> Wild]>>}
MCAsked == {Request("https", "x", <<"p">>), Request("http", "yx", <<"p">>)}
MCEndsWith == {<<"yx", "x">>}
MCCacheable == {<<"p">>}
MCLines == <<"a", "b", "c">>

Symmetry == Permutations(Threads) \union Permutations(Clients)

=============================================================================
