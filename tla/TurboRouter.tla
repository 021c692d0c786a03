----------------------------- MODULE TurboRouter ----------------------------
(* turbo/mod.rs: registration, groups, filters and core_dispatch. Paths are   *)
(* sequences of characters, since prefixes are compared as strings and routes *)
(* by segments. A handler is named by the index of its route; a filter is     *)
(* [scope, id], and a request [method, path, authed, rejectedBy] is one that  *)
(* the authenticator accepts or not and that the filters in rejectedBy answer.*)
EXTENDS Text, FiniteSets

(* parse_pattern *)
ParsePattern(path) ==
  LET parts == SelectSeq(Split(path, "/"), LAMBDA p : p # <<>>)
  IN [i \in 1..Len(parts) |->
        IF Head(parts[i]) = ":" THEN [param |-> TRUE, text |-> Tail(parts[i])]
        ELSE [param |-> FALSE, text |-> parts[i]]]

TrailingSlash(path) == Len(path) > 1 /\ Last(path) = "/"

(* Router::register *)
Register(path, methods) ==
  [methods |-> methods, segments |-> ParsePattern(path), trailing |-> TrailingSlash(path)]

(* Group::new, full, register and filter: the prefix is glued to the path. *)
GroupPrefix(prefix) == TrimEnd(prefix, {"/"})
GroupRoute(prefix, path, methods) == Register(GroupPrefix(prefix) \o path, methods)
GroupFilter(prefix, id) == [scope |-> GroupPrefix(prefix), id |-> id]
RouterFilter(id) == [scope |-> <<>>, id |-> id]

(* match_path: a parameter that occurs twice keeps its last value. *)
MatchPath(segments, path) ==
  LET parts == SelectSeq(Split(path, "/"), LAMBDA p : p # <<>>)
      fits == /\ Len(parts) = Len(segments)
              /\ \A i \in 1..Len(parts) : segments[i].param \/ segments[i].text = parts[i]
      names == {segments[i].text : i \in {j \in 1..Len(segments) : segments[j].param}}
  IN [ok |-> fits,
      params |-> IF ~fits THEN <<>>
                 ELSE [n \in names |->
                         parts[SelectLastInSeq(segments, LAMBDA s : s.param /\ s.text = n)]]]

(* The filter's closure: does it answer the request itself? *)
Answers(f, req) == IsPrefix(f.scope, req.path) /\ f.id \in req.rejectedBy

(* One turn of the loop over the routes. *)
RouteStep(router, req, acc, i) ==
  LET r == router.routes[i]
      m == MatchPath(r.segments, req.path)
  IN IF (router.strict /\ r.trailing # TrailingSlash(req.path)) \/ ~m.ok THEN acc
     ELSE [chosen |-> IF acc.chosen = 0 /\ Contains(r.methods, req.method) THEN i ELSE acc.chosen,
           exists |-> TRUE,
           allowed |-> acc.allowed \o SelectSeq(r.methods, LAMBDA x : ~Contains(acc.allowed, x))]

Route(router, req) ==
  FoldLeftDomain(LAMBDA acc, i : RouteStep(router, req, acc, i),
                 [chosen |-> 0, exists |-> FALSE, allowed |-> <<>>], router.routes)

(* core_dispatch: authenticator, filters in order, then the routes. *)
CoreDispatch(router, req) ==
  LET f == SelectInSeq(router.filters, LAMBDA x : Answers(x, req))
      found == Route(router, req)
  IN CASE router.auth /\ ~req.authed -> [by |-> "auth", at |-> 0]
       [] f # 0 -> [by |-> "filter", at |-> f]
       [] found.chosen # 0 ->
            [by |-> "handler", at |-> found.chosen,
             params |-> MatchPath(router.routes[found.chosen].segments, req.path).params]
       [] found.exists -> [by |-> "405", at |-> 0, allow |-> found.allowed]
       [] OTHER -> [by |-> "404", at |-> 0]

-----------------------------------------------------------------------------
(* A request is under a group when the segments of its path begin with those  *)
(* of the prefix.                                                             *)
SegmentsOf(path) == SelectSeq(Split(path, "/"), LAMBDA p : p # <<>>)
UnderGroup(prefix, path) == IsPrefix(SegmentsOf(prefix), SegmentsOf(path))
Canonical(path) == Head(path) = "/" /\ \A i \in 1..(Len(path) - 1) : ~(path[i] = "/" /\ path[i + 1] = "/")

Serves(router, req, i) ==
  /\ ~router.strict \/ router.routes[i].trailing = TrailingSlash(req.path)
  /\ LET segs == router.routes[i].segments
         parts == SegmentsOf(req.path)
     IN Len(segs) = Len(parts) /\ \A j \in 1..Len(parts) : segs[j].param \/ segs[j].text = parts[j]

(* A request runs the handler of the first route that serves its path and     *)
(* method, with the path's own segments as parameters; 405 lists exactly the  *)
(* methods of the routes that serve the path, each once, and never the        *)
(* request's; 404 means that no route serves the path (turbo/mod.rs:772).     *)
DispatchesFirst(router, req) ==
  LET out == CoreDispatch(router, req)
      serving == {i \in 1..Len(router.routes) : Serves(router, req, i)}
      able == {i \in serving : Contains(router.routes[i].methods, req.method)}
  IN out.by \in {"handler", "405", "404"} =>
       /\ out.by = "404" <=> serving = {}
       /\ out.by = "405" => /\ able = {}
                            /\ ToSet(out.allow) = UNION {ToSet(router.routes[i].methods) : i \in serving}
                            /\ Cardinality(ToSet(out.allow)) = Len(out.allow)
       /\ out.by = "handler" =>
            /\ out.at \in able /\ \A i \in able : out.at <= i
            /\ \A n \in DOMAIN out.params : \E j \in 1..Len(SegmentsOf(req.path)) :
                 out.params[n] = SegmentsOf(req.path)[j]

(* No handler, default answer or filter runs for a request the authenticator  *)
(* refuses; and on a path without empty segments, a handler registered in a   *)
(* group runs only if no filter of that group answers (turbo/mod.rs:755, 689).*)
Guarded(router, req, prefix) ==
  LET out == CoreDispatch(router, req)
  IN /\ router.auth /\ ~req.authed => out.by = "auth"
     /\ Canonical(req.path) /\ UnderGroup(prefix, req.path) /\ out.by = "handler" =>
          \A i \in 1..Len(router.filters) :
            router.filters[i].scope = GroupPrefix(prefix) => router.filters[i].id \notin req.rejectedBy
=============================================================================
