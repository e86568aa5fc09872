--------------------------- MODULE MCKafkaStreams ---------------------------
(* TLC instances of KafkaStreams: two consumers and two partitions, whose  *)
(* names do not matter; the two payloads fall on one of them or on both.   *)
EXTENDS KafkaStreamsProperties, TLC

CONSTANTS c1, c2, p1, p2

OneOrBoth == {<<p1, p1>>, <<p1, p2>>}
=============================================================================
