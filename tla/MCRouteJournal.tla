--------------------------- MODULE MCRouteJournal ---------------------------
(* Instances of RouteJournal for TLC. *)
EXTENDS RouteJournal

MCTun == [index |-> 0, name |-> "tun"]
Wired == [index |-> 1, name |-> "wired"]
Wireless == [index |-> 2, name |-> "wireless"]
Renamed == [index |-> 1, name |-> "renamed"]

\* Two interfaces, one of which may be renamed while it is down.
TwoAdapters == {Wired, Wireless}
RenamedAdapters == {Wired, Renamed}

Net(exit, dns, local) == [exit |-> exit, dns |-> dns, local |-> local]

\* The wireless network brings a DNS server; the exit may also be gone.
TwoNetworks ==
    {Net(Wired, <<>>, <<"lan">>), Net(Wireless, <<"dns">>, <<"lan">>), Net(NoExit, <<>>, <<>>)}
RenamedNetworks ==
    {Net(Wired, <<>>, <<"lan">>), Net(Renamed, <<>>, <<"lan">>), Net(NoExit, <<>>, <<>>)}
MCSplit == <<"half">>
MCExclusions == <<>>
=============================================================================
