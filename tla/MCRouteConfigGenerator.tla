------------------------ MODULE MCRouteConfigGenerator ------------------------
EXTENDS RouteConfigGenerator

CONSTANTS r1, r2, e1, e2

MCRcvNames == {r1}
MCRcvRefs == {r1, r2}
MCRouteNames == {e1}
=============================================================================
