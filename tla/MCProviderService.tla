---- MODULE MCProviderService ----
EXTENDS ProviderService, TLC
Symmetry == Permutations(Command) \cup Permutations(Plan) \cup Permutations(Account)
====
