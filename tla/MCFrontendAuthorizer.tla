------------------------- MODULE MCFrontendAuthorizer -------------------------
(* Instances of FrontendAuthorizer for TLC.                                   *)
EXTENDS FrontendAuthorizer

\* publicPaths: nothing, or one section of the site.
Sections == {{}, {"docs"}}

Asks(uri, cookies, door) == [uri |-> uri, cookies |-> cookies, door |-> door]

\* Without a session, or with both kinds, either of which may not be readable.
Visitors ==
    {Asks("docs", {}, "front"), Asks("page", {}, "front"),
     Asks("page", {"human", "agent"}, "front"),
     Asks("page", {"human"}, "legacy"), Asks("static", {}, "legacy"),
     Asks("auth", {"human"}, "front")}
=============================================================================
