\* Two versions of a deployment are told apart by the status; d2 may get a second default route.
CONSTANTS
  Deployments = {d1, d2}
  Routes = {r1, r2}
  Specs = {s1}
  Clients = {c1, c2}
  Promoted = {d2}
  None = None
SYMMETRY Alike
SPECIFICATION Spec
INVARIANTS DefaultRouteIsOwned EventsTellRows
PROPERTIES MarkStays RouteEventsFollow
