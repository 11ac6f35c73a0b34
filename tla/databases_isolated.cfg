SPECIFICATION ProvisioningSpec
CONSTANTS
 DbNames = {"my_db"}
 SafeName <- MCSafeName
 Engines = {"database","postgres","mariadb","rabbitmq","custom"}
 MaxCreates = 2
 Deleters = {d1, d2}
 Faults = {"refused", "commit", "secret", "insert", "drop", "crash"}
INVARIANT SchemaPerDatabase
CHECK_DEADLOCK FALSE
