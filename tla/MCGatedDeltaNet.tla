-------------------------- MODULE MCGatedDeltaNet ---------------------------
EXTENDS GatedDeltaNet

(* Windows of three tokens; every channel is a different function of them. *)
MCQuery(w) == <<(w[1] + 2 * w[2] + 5 * w[3] + 1) % P, (w[1] * w[3] + 4 * w[2]) % P>>
MCKey(w) == <<(3 * w[1] + w[2] * w[2] + 7 * w[3]) % P, (w[3] + 2 * w[1] + 6) % P>>
MCValue(w) == <<(w[2] * w[3] + 8 * w[1] + 2) % P>>
MCG(x) == 0 - (x % 3)
MCBeta(x) == (2 * x + 5) % P

Exact(x) == x
Halved(x) == x - (x % 2)

Text(p, o) == [prompt |-> p, output |-> o]

(* One chunk of sixteen and the first rows of another, and a prompt that   *)
(* shares the launch with it.                                              *)
WideTexts == {Text(<<1, 2, 3, 1, 1, 2, 2, 3, 4, 1, 3, 3, 2, 1, 4, 4, 2, 1>>, <<>>),
              Text(<<4, 3, 1>>, <<2>>)}

(* Chunks of four, prompts of up to three chunks.                          *)
AlignedTexts == {Text(<<1, 2, 3, 1, 1, 2, 4, 3, 2, 1>>, <<3, 2>>), Text(<<2, 4, 1>>, <<1>>)}
=============================================================================
