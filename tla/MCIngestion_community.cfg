SPECIFICATION Spec
CONSTANTS
    d1 = d1
    t1 = t1
    t2 = t2
    r1 = r1
    m1 = m1
    a1 = a1
    Devices <- OneDevice
    Stamps <- TwoStamps
    MqttLists <- OneMqttList
    ApiLists <- OneApiList
    Messages <- SomeMessages
    Requests <- OneRequest
    Pks <- FiveKeys
PROPERTY OnlyEmptyCommunityDeleted
