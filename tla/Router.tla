------------------------------- MODULE Router -------------------------------
(***************************************************************************)
(* Route table and scope check (Router.cpp, Router.h, Config.h:50-58).     *)
(*                                                                         *)
(* A path is the sequence of its segments: "/api/users/5" is               *)
(* <<"api", "users", "5">>, "/health/" is <<"health", "">>.  A scope or a  *)
(* permission is the sequence of its parts: "user:list:read" is            *)
(* <<"user", "list", "read">>.                                             *)
(* The query is left out: it follows the path unchanged and decides        *)
(* nothing.                                                                *)
(***************************************************************************)
EXTENDS Sequences, Naturals

\* A base URL that is not configured, and a segment without characters.
Empty == ""

Areas == {"users", "courses", "quests", "tests", "attempts", "answers"}

\* isReadMethod and isAllowedMethod.
IsReadMethod(method) == method \in {"GET", "HEAD"}
IsAllowedMethod(method) == method \in {"GET", "POST", "PUT", "PATCH", "DELETE"}

\* granularPrefix, without its colon.
Singular(area) ==
  CASE area = "courses" -> "course"
    [] area = "quests" -> "quest"
    [] area = "tests" -> "test"
    [] area = "attempts" -> "attempt"
    [] area = "answers" -> "answer"
    [] OTHER -> "user"

\* The areas that fall back on the tests module.
Inheriting == {"quests", "attempts", "answers"}

\* upstreamFor: the base URL that serves an area.
UpstreamFor(upstreams, area) ==
  IF upstreams[area] = Empty /\ area \in Inheriting
    THEN upstreams["tests"]
    ELSE upstreams[area]

\* A route without the fields that only an API route has.
PlainRoute(kind) == [kind |-> kind, area |-> Empty, base |-> Empty, forward |-> << >>, scope |-> << >>]

\* What is left of the path once "/api/<area>" is cut off; at least "/".
Remainder(path) == IF Len(path) > 2 THEN SubSeq(path, 3, Len(path)) ELSE <<Empty>>

RequiredScope(method, area) == <<area, IF IsReadMethod(method) THEN "read" ELSE "write">>

IsHealth(path) == path \in {<<"health">>, <<"health", Empty>>}

\* The path starts with "/api/" and the next segment is an area.
IsApi(path) == Len(path) >= 2 /\ path[1] = "api" /\ path[2] \in Areas

MatchRoute(method, path, upstreams) ==
  IF IsHealth(path) THEN PlainRoute("health")
  ELSE IF ~IsApi(path) THEN PlainRoute("not_found")
  ELSE IF ~IsAllowedMethod(method) THEN PlainRoute("method_not_allowed")
  ELSE [kind |-> "api",
        area |-> path[2],
        base |-> UpstreamFor(upstreams, path[2]),
        forward |-> Remainder(path),
        scope |-> RequiredScope(method, path[2])]

\* The permission starts with "<singular>:".
IsGranular(permission, area) == Len(permission) >= 2 /\ permission[1] = Singular(area)

\* hasScope.
HasScope(roles, permissions, area, scope) ==
  \/ "admin" \in roles
  \/ scope \in permissions
  \/ \E p \in permissions : IsGranular(p, area)
=============================================================================
