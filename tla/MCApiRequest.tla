---------------------------- MODULE MCApiRequest -----------------------------
(* ApiRequest for TLC: every route.                                        *)
EXTENDS ApiRequest, TLC
AllRoutes == DOMAIN Routes
=============================================================================
