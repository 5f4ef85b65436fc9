---- MODULE MCMqttSession ----
EXTENDS MqttSession
MCOrder == <<"state", "armed">>
MCCommandTopics == <<"servo", "shutdown">>
====
