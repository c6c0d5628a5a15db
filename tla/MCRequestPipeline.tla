------------------------- MODULE MCRequestPipeline -------------------------
(***************************************************************************)
(* Small instances of RequestPipeline.                                     *)
(***************************************************************************)
EXTENDS RequestPipeline

Operation(id, typed, security, authorization, body) ==
  [id |-> id, typed |-> typed, security |-> security, authorization |-> authorization,
   validation |-> typed, body |-> body, checked |-> FALSE]
TypedOperation(id, security, authorization) == Operation(id, TRUE, security, authorization, TRUE)
RawOperation(id, security, authorization) == Operation(id, FALSE, security, authorization, FALSE)

\* One operation of each kind of security; typed ones with and without a body,
\* raw ones with and without a constraint.
EveryOperation ==
  {RawOperation(1, "none", FALSE), TypedOperation(2, "legacy", TRUE),
   TypedOperation(3, "bearer", TRUE), Operation(4, TRUE, "basic", FALSE, FALSE),
   [RawOperation(5, "apiKey", TRUE) EXCEPT !.checked = TRUE]}
RawOnly == {RawOperation(1, "none", FALSE)}
TypedOnly == {TypedOperation(2, "none", FALSE)}

Res(status, payload, noStore) == [status |-> status, payload |-> payload, noStore |-> noStore]
EveryResult ==
  {Res(0, "value", FALSE), Res(200, "none", FALSE), Res(205, "value", FALSE),
   Res(204, "error", FALSE), Res(400, "value", TRUE), Res(201, "error", FALSE),
   Res(200, "panic", FALSE), Res(404, "failure", FALSE), Res(0, "failure", FALSE),
   Res(150, "value", FALSE)}
SomeResults == {Res(0, "value", FALSE), Res(201, "error", FALSE)}

Statuses == {103, 200, 204}
EveryStatus == {0, 101, 103, 200, 204, 500}

Everything == {"flush", "hijack"}
Conf(recovery, formatter, handlerPanics, direct) ==
  [recovery |-> recovery, formatter |-> formatter, handlerPanics |-> handlerPanics, direct |-> direct]
DirectConfigs ==
  {Conf(recovery, formatter, handlerPanics, Everything) :
     recovery \in BOOLEAN, formatter \in {"sound", "broken"}, handlerPanics \in BOOLEAN}
DefaultConfig == {Conf(TRUE, "sound", FALSE, Everything)}
UnwrapConfig == {Conf(TRUE, "sound", FALSE, {})}
ExplosiveConfig == {Conf(TRUE, "explosive", FALSE, Everything)}

OneContext == {FALSE}
AnyContext == BOOLEAN
=============================================================================
