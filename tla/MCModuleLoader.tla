--------------------------- MODULE MCModuleLoader ---------------------------
\* Instances of ModuleLoader: which codec uses which wrapper and which DLL.
EXTENDS ModuleLoader, TLC

CONSTANTS c1, c2, c3, A, B, Q

NoneLoads == [d \in Dll |-> {}]
\* The entry point of A loads B.
ALoadsB == [d \in Dll |-> IF d = A THEN {B} ELSE {}]

\* A DirectShow codec and two DMO codecs.
CountedKinds == [c \in Codec |-> IF c = c1 THEN "dshow" ELSE "dmo"]
\* c1 and c2 share DLL A; c3 uses B.
SharedNeeds == [c \in Codec |-> IF c = c3 THEN <<B>> ELSE <<A>>]

\* A DirectShow codec, the QuickTime element and a DMO codec.
MixedKinds == (c1 :> "dshow") @@ (c2 :> "qt") @@ (c3 :> "dmo")
\* The QuickTime element loads QuickTime.qts (Q), then qtmlClient.dll (B).
MixedNeeds == (c1 :> <<A>>) @@ (c2 :> <<Q, B>>) @@ (c3 :> <<A>>)
=============================================================================
