---------------------------- MODULE MCRtmpCommand ----------------------------
(* RtmpCommand for TLC: clients of every kind for two streams of one         *)
(* application and one stream of an application nobody configured.           *)
EXTENDS RtmpCommand, TLC

Role(own, wants, host, app, name) ==
    [own |-> own, wants |-> wants, host |-> host, app |-> app, name |-> name]
MCRoles ==
    {Role(TRUE, wants, <<"d">>, <<"live">>, <<"s">>) : wants \in {"play", "publish"}}
      \cup {Role(FALSE, "publish", <<"d">>, <<"live">>, <<"s">>),
            Role(FALSE, "play", <<"d", "1935">>, <<"live">>, <<"s", "k">>),
            Role(TRUE, "play", <<"d">>, <<"live">>, <<"s", "k">>),
            Role(TRUE, "publish", <<"d">>, <<"live">>, <<"t">>),
            Role(FALSE, "publish", <<"d">>, <<"none">>, <<"s">>),
            Role(TRUE, "play", <<"d", "1935">>, <<"live">>, <<>>),
            Role(TRUE, "play", <<"d">>, <<>>, <<>>),
            Role(TRUE, "play", <<"d", "1935">>, <<>>, <<>>)}
MCApps == {<<"d", "live">>}
MCConnectObjects ==
    {<<StringProperty("flashVer", <<"FMLE">>), NumberProperty("objectEncoding", 0)>>,
     <<<<<<"swfUrl">>, "null", 0>>, <<<<"caps">>, "ecma", <<NumberProperty("audio", 1)>>>>,
       <<<<"since">>, "date", 1>>, <<<<"pageUrl">>, "long", <<"page">>>>,
       <<<<"fpad">>, "boolean", TRUE>>, <<<<"rate">>, "number", 295>>,
       NumberProperty("objectEncoding", 3)>>}

(* Nothing tells one connection from another.                                *)
MCSymmetry == Permutations(Conns)
=============================================================================
