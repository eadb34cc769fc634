----------------------------- MODULE MCDesktop -----------------------------
EXTENDS Desktop

OneRuntime == [m \in Model |-> IF m = 3 THEN "vllm" ELSE "llama"]
=============================================================================
