---------------------------- MODULE MCTranscript ----------------------------
EXTENDS Transcript, TLC

CONSTANTS a, b

TwoKinds   == <<"openai", "anthropic">>
FewUsages  == {None, <<1, 1>>, <<3, 2>>}
Symmetry   == Permutations({a, b})
=============================================================================
