--------------------------- MODULE MCRegisterIntake ---------------------------
(* Two claims out of a handful of requests that differ in what the gates see.  *)
EXTENDS RegisterIntake

CONSTANTS d1, d2, c1, c2, v1

\* A request that carries nothing but what it must; the two kinds of device.
Plain == [platform |-> "web", subject |-> "me", boundTo |-> "me", device |-> None,
          token |-> FALSE, evidence |-> "none", chain |-> TRUE, challenge |-> None,
          voucher |-> None, preferred |-> None, reserved |-> None, age |-> None,
          bad |-> {}, signed |-> TRUE, asks |-> FALSE]
Ios     == [Plain EXCEPT !.platform = "ios", !.device = d1, !.token = TRUE]
Android == [Plain EXCEPT !.platform = "android", !.device = d2, !.evidence = "full",
                         !.challenge = c1]

SomeInputs == {
    Ios,
    [Ios EXCEPT !.asks = TRUE],
    [Ios EXCEPT !.token = FALSE],
    Android,
    [Android EXCEPT !.challenge = c2],
    [Android EXCEPT !.evidence = "partial"],
    [Android EXCEPT !.evidence = "none"],
    [Android EXCEPT !.boundTo = "another"],
    [Plain EXCEPT !.voucher = v1, !.preferred = 1],
    [Plain EXCEPT !.preferred = 0],
    [Plain EXCEPT !.age = 3],
    [Plain EXCEPT !.age = -1],
    [Plain EXCEPT !.signed = FALSE],
    [Plain EXCEPT !.asks = TRUE, !.reserved = [owned |-> FALSE, queued |-> 2]]}

SomeModes == {[widevine |-> m, devicecheck |-> m, queue |-> q] : m \in {"soft", "hard"}, q \in {TRUE}}
             \cup {[widevine |-> "off", devicecheck |-> "off", queue |-> FALSE]}

TwoOnChain == {{0, 3}, {0, 1, 2, 3}}
================================================================================
