-------------------------- MODULE MCRememberPipeline --------------------------
EXTENDS RememberPipelineInv, TLC

Symmetry == Permutations(Workers) \cup Permutations(Slots)
            \cup Permutations(Tokens) \cup Permutations(RecTokens)
            \cup Permutations(Txs)
===============================================================================
